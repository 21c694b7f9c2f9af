------------------------------ MODULE FileTree ------------------------------
(***************************************************************************)
(* The file system tree of djmount (src/djmount/djfs.c on vfs.c): threads  *)
(* of FUSE resolve one path each, component by component, through the      *)
(* directories the macros of vfs_p.h describe.  A component may need       *)
(* answers of a server, asked for with the mutex of the device list held   *)
(* (DEVICE_LIST_CALL_SERVICE), and the directories of searches share a     *)
(* bounded history under a recursive mutex, which a walk keeps from the    *)
(* first "_search" to its end.                                             *)
(*                                                                         *)
(* A directory is the sequence of its entries, in the order of the code: a *)
(* walk at the end of its path lists them, any other takes the first one   *)
(* that matches and leaves the rest of the function (goto cleanup).        *)
(***************************************************************************)
EXTENDS Integers, Sequences, SequencesExt, FiniteSets

CONSTANTS
  Thread,            \* threads of FUSE
  Nobody,            \* owner of a mutex that is free
  Devices,           \* names of devices, in the order of the list
  Object,            \* objects of a ContentDirectory
  Root,              \* the object "0"
  IsContainer,       \* [Object -> BOOLEAN]
  IsSearchable,      \* [Object -> BOOLEAN]
  HasFile,           \* [Object -> BOOLEAN]: MediaFile_GetPreferred succeeds
  NameOf,            \* [Object -> name of its directory or file]
  MetaName,          \* [Object -> name of its file in .metadata]
  Kids,              \* [Object -> Seq(Object)]: what Browse answers
  Hits(_, _),        \* Hits(o, c): what Search answers for criteria c in o
  Plain,             \* words without space, star or quote
  HasCaps,           \* GetSearchCapabilities answers a text
  Queries,           \* [Thread -> set of the operations it asks for: [op, path]]
  ShowDebug,         \* flag DJFS_SHOW_DEBUG
  ShowMetadata,      \* flag DJFS_SHOW_METADATA
  HistSize           \* search_hist_size; no history at 0

Operation == {"stat", "getdir", "open", "readlink"}

ASSUME HistAssumption == HistSize \in Nat
ASSUME QueriesAssumption ==
  Queries \in [Thread -> SUBSET [op : Operation, path : Seq(STRING)]]
ASSUME ThreadAssumption == Nobody \notin Thread
ASSUME TreeAssumption ==
  /\ Devices \in Seq(STRING)
  /\ Root \in Object /\ Kids \in [Object -> Seq(Object)]
  /\ HasCaps \in BOOLEAN

VARIABLES
  alive,    \* devices in the list
  lister,   \* owner of the mutex of the device list
  hist,     \* search_hist, oldest first
  owner,    \* owner of search_hist_mutex
  depth,    \* how many times its owner has locked it
  walk      \* what each thread is doing

vars == <<alive, lister, hist, owner, depth, walk>>

(* Where a walk is: a directory and what the functions of djfs.c know there. *)
Place(kind, dev, obj, kids, crit, searchable) ==
  [kind |-> kind, dev |-> dev, obj |-> obj, kids |-> kids, crit |-> crit,
   searchable |-> searchable]

At(kind, dev) == Place(kind, dev, Root, <<>>, <<>>, FALSE)

Dir(name, to)  == [name |-> name, type |-> "dir", to |-> to]
File(name, to) == [name |-> name, type |-> "file", to |-> At(to, Nobody)]
Link(name)     == [name |-> name, type |-> "link", to |-> At("plain", Nobody)]

(* The criteria a new word stands for: a condition on titles and creators, *)
(* or the word itself when it looks like criteria.                          *)
Criterion(word) == IF word \in Plain THEN <<"contains", word>> ELSE <<"raw", word>>

(***************************************************************************)
(* The entries of a directory, as the code enumerates them.  A file "text" *)
(* has a body that calls a device of the list.                             *)
(***************************************************************************)
Device == ToSet(Devices)

(* The members of a sequence that are in a set, in order. *)
Among(s, keep) ==
  LET kept[n \in 0..Len(s)] ==
        IF n = 0 THEN <<>>
        ELSE IF s[n] \in keep THEN Append(kept[n - 1], s[n]) ELSE kept[n - 1]
  IN kept[Len(s)]

(* The tree depends on the devices in the list. *)
Names(list) == Among(Devices, list)

RootEntries(list) ==
  LET names == Names(list)
  IN <<File("devices", "plain")>>
       \o [i \in DOMAIN names |-> Dir(names[i], At("device", names[i]))]
       \o (IF ShowDebug THEN <<Dir(".debug", At("debug", Nobody))>> ELSE <<>>)

DeviceEntries == IF ShowDebug THEN <<Link(".status")>> ELSE <<>>

Visible == {o \in Object : IsContainer[o] \/ HasFile[o]}

Shown(kids) == Among(kids, Visible)

KidEntry(p, o) ==
  IF IsContainer[o]
  THEN Dir(NameOf[o], Place("browse", p.dev, o, <<>>, <<>>, p.searchable /\ p.crit = <<>>))
  ELSE File(NameOf[o], "plain")

KidEntries(p) ==
  LET shown == Shown(p.kids) IN [i \in DOMAIN shown |-> KidEntry(p, shown[i])]

SearchDirs(p) ==
  IF ~(p.searchable /\ IsSearchable[p.obj]) THEN <<>>
  ELSE IF p.crit = <<>> THEN <<Dir("_search", [p EXCEPT !.kind = "search"])>>
  ELSE <<Dir("_and", [p EXCEPT !.kind = "search", !.crit = Append(@, "and")]),
         Dir("_or", [p EXCEPT !.kind = "search", !.crit = Append(@, "or")])>>

BrowseChildren(p) ==
  KidEntries(p)
    \o (IF ShowMetadata /\ p.kids # <<>>
        THEN <<Dir(".metadata", [p EXCEPT !.kind = "metadata"])>> ELSE <<>>)
    \o SearchDirs(p)

MetadataEntries(p) == [i \in DOMAIN p.kids |-> File(MetaName[p.kids[i]], "plain")]

DebugEntries(list) ==
  LET names == Names(list)
  IN <<File("versions", "plain")>>
       \o [i \in DOMAIN names |-> Dir(names[i], At("status", names[i]))]
       \o (IF HistSize > 0 THEN <<Dir("search_history", At("history", Nobody))>> ELSE <<>>)
       \o <<File("uname", "plain"), File("talloc_total", "plain"),
            File("talloc_report", "plain"), File("talloc_report_full", "plain")>>

Entries(list, p) ==
  CASE p.kind = "root"     -> RootEntries(list)
    [] p.kind = "device"   -> DeviceEntries
    [] p.kind = "kids"     -> BrowseChildren(p)
    [] p.kind = "metadata" -> MetadataEntries(p)
    [] p.kind = "search"   -> <<File("search_help.txt", "plain"),
                                File("search_capabilities", "text")>>
    [] p.kind = "debug"    -> DebugEntries(list)
    [] p.kind = "status"   -> <<File("status", "text"),
                                File("device_description.xml", "text")>>
    [] OTHER               -> <<>>

(* The first entry that matches a name, if any. *)
Matches(es, name) == {i \in DOMAIN es : es[i].name = name}
FirstMatch(es, name) == es[CHOOSE i \in Matches(es, name) : \A j \in Matches(es, name) : i <= j]

-----------------------------------------------------------------------------
(***************************************************************************)
(* Walks.  left is the rest of the path (BROWSE_PTR), want the question    *)
(* for the server, from the history entry that the criteria at hand point  *)
(* into (<<>> when they are a copy), listed what a listing gave, calm      *)
(* whether, since the walk began, no device has come or gone and none has  *)
(* refused an answer.                                                      *)
(***************************************************************************)
Idle == [pc |-> "idle", op |-> "stat", path |-> <<>>, left |-> <<>>,
         at |-> At("root", Nobody), want |-> "none", from |-> <<>>,
         type |-> "none", rc |-> "ok", listed |-> {}, calm |-> TRUE]

Init ==
  /\ alive = Device
  /\ lister = Nobody
  /\ hist = <<>>
  /\ owner = Nobody
  /\ depth = 0
  /\ walk = [t \in Thread |-> Idle]

Update(t, w) == walk' = [walk EXCEPT ![t] = w]

Finish(w, rc) == [w EXCEPT !.pc = "done", !.rc = rc]

(* The body of a directory ends: whatever is left of the path is not in it. *)
EndBody(w) == Finish(w, IF w.left = <<>> THEN "ok" ELSE "ENOENT")

Ask(w, want) == [w EXCEPT !.pc = "call", !.want = want]

(* An entry of type directory or file matches the next component. *)
EnterDir(w, to) ==
  LET in == [w EXCEPT !.left = Tail(@), !.at = to, !.pc = "walk", !.type = "dir",
                      !.from = <<>>]
  IN IF in.left = <<>> /\ w.op = "readlink" THEN Finish(in, "EINVAL")
     ELSE IF to.kind = "browse" THEN Ask(in, "browse") ELSE in

EnterFile(w, e) ==
  LET in == [w EXCEPT !.left = Tail(@), !.at = e.to, !.type = e.type]
  IN IF in.left # <<>> \/ w.op = "getdir" THEN Finish(in, "ENOTDIR")
     ELSE IF w.op = "readlink" /\ e.type = "file" THEN Finish(in, "EINVAL")
     ELSE IF e.to.kind = "text" THEN Ask(in, "text") ELSE Finish(in, "ok")

Enter(w, e) == IF e.type = "dir" THEN EnterDir(w, e.to) ELSE EnterFile(w, e)

(* What follows the entries of a directory in the function that lists it. *)
After(w) ==
  CASE w.at.kind = "device"              -> Ask(w, "metadata")
    [] w.at.kind \in {"search", "history"} -> [w EXCEPT !.pc = "lock"]
    [] OTHER                             -> EndBody(w)

List(w, es) == [w EXCEPT !.listed = @ \cup {<<e.name, e.type>> : e \in ToSet(es)}]

(* The root of the tree is a directory that the empty path has entered. *)
Begin(q) ==
  LET w == [Idle EXCEPT !.pc = "walk", !.op = q.op, !.path = q.path, !.left = q.path, !.type = "dir"]
  IN IF q.path = <<>> /\ q.op = "readlink" THEN Finish(w, "EINVAL") ELSE w

(* A file system operation of FUSE: VFS_Browse at the root of the tree. *)
Query(t) ==
  /\ walk[t].pc = "idle"
  /\ \E q \in Queries[t] : Update(t, Begin(q))
  /\ UNCHANGED <<alive, lister, hist, owner, depth>>

(* One directory: its entries, up to the first call or lock. *)
Step(t) ==
  LET w == walk[t]
  IN /\ w.pc = "walk"
     /\ w.at.kind \in {"root", "debug"} => lister = Nobody  \* GetDevicesNames
     /\ \E es \in {Entries(alive, w.at)} :
          \/ /\ w.left = <<>>
             /\ \/ Update(t, After(List(w, es)))
                \/ w.op = "getdir" /\ es # <<>> /\ Update(t, Finish(w, "ENOMEM"))  \* filler
          \/ /\ w.left # <<>>
             /\ Update(t, IF Matches(es, Head(w.left)) = {} THEN After(w)
                          ELSE Enter(w, FirstMatch(es, Head(w.left))))
     /\ UNCHANGED <<alive, lister, hist, owner, depth>>

(* Mutants: the mutex is not locked at all, or is not recursive. *)
UseUnlocked(t) ==
  /\ walk[t].pc = "lock"
  /\ Update(t, [walk[t] EXCEPT !.pc = "history"])
  /\ UNCHANGED <<alive, lister, hist, owner, depth>>
LockOnce(t) ==
  /\ walk[t].pc = "lock"
  /\ owner = Nobody
  /\ owner' = t
  /\ depth' = depth + 1
  /\ Update(t, [walk[t] EXCEPT !.pc = "history"])
  /\ UNCHANGED <<alive, lister, hist>>

(* search_hist_mutex is locked, in BrowseSearchDir or for the links of .debug. *)
LockHistory(t) ==
  /\ walk[t].pc = "lock"
  /\ owner \in {Nobody, t}
  /\ owner' = t
  /\ depth' = depth + 1
  /\ Update(t, [walk[t] EXCEPT !.pc = "history"])
  /\ UNCHANGED <<alive, lister, hist>>

(* The path of the directory a walk is in. *)
Here(w) == SubSeq(w.path, 1, Len(w.path) - Len(w.left))

(* What distinguishes the entries of the history. *)
Key(h) == <<h.parent, h.name>>

(* Mutant: searches of other directories are listed too. *)
KnownAnywhere(w) == DOMAIN hist

(* The searches made in this directory. *)
Known(w) == {i \in DOMAIN hist : hist[i].parent = Here(w)}

(* They are enumerated or looked up. *)
Recall(t) ==
  LET w == walk[t]
      named == {i \in Known(w) : w.left # <<>> /\ hist[i].name = Head(w.left)}
  IN /\ w.pc = "history" /\ w.at.kind = "search"
     /\ \/ /\ w.left = <<>>
           /\ \/ Update(t, EndBody([w EXCEPT !.listed = @ \cup {<<hist[i].name, "dir">> : i \in Known(w)}]))
              \/ w.op = "getdir" /\ Known(w) # {} /\ Update(t, Finish(w, "ENOMEM"))
        \/ /\ named # {}
           /\ LET h == hist[CHOOSE i \in named : \A j \in named : i <= j]
                  in == EnterDir(w, [w.at EXCEPT !.crit = @ \o h.crit])
              IN Update(t, IF in.pc = "done" THEN in
                           ELSE [Ask(in, "search") EXCEPT
                                   !.from = IF w.at.crit = <<>> THEN Key(h) ELSE <<>>])
        \/ /\ w.left # <<>> /\ named = {}
           /\ Update(t, Ask([w EXCEPT !.at.crit = @ \o Criterion(Head(w.left))], "new"))
     /\ UNCHANGED <<alive, lister, hist, owner, depth>>

(* .debug/search_history: a link for each search.  The code names it by the *)
(* serial number of the entry, the model by what the entry is.              *)
ListLinks(t) ==
  LET w == walk[t]  es == [i \in DOMAIN hist |-> Link(ToString(Key(hist[i])))]
  IN /\ w.pc = "history" /\ w.at.kind = "history"
     /\ Update(t, IF w.left = <<>> THEN EndBody(List(w, es))
                  ELSE IF Matches(es, Head(w.left)) = {} THEN EndBody(w)
                  ELSE EnterFile(w, FirstMatch(es, Head(w.left))))
     /\ UNCHANGED <<alive, lister, hist, owner, depth>>

(* _DeviceList_LockService: the mutex of the list is held for the answer. *)
LockList(t) ==
  /\ walk[t].pc = "call"
  /\ lister = Nobody
  /\ lister' = t
  /\ Update(t, [walk[t] EXCEPT !.pc = "answer"])
  /\ UNCHANGED <<alive, hist, owner, depth>>

(* The children of the directory a walk is in are known. *)
In(w, kids, searchable) ==
  [w EXCEPT !.pc = "walk", !.at.kind = "kids", !.at.kids = kids, !.at.searchable = searchable]

(* Mutant: the results of a search of the history cannot be searched.       *)
RecalledIsClosed(w) == In(w, Hits(w.at.obj, w.at.crit), FALSE)

(* A search of the history is made again.                                   *)
SearchAgain(w) == In(w, Hits(w.at.obj, w.at.crit), TRUE)

(* The capabilities are asked for if the root says that it is searchable.   *)
AsksCaps == HistSize > 0 /\ IsSearchable[Root]

(* A device answers a question about one of its objects.                    *)
Answered(w) ==
  CASE w.want = "text"     -> Finish(w, "ok")
    [] w.want = "metadata" -> Ask(w, "children")
    [] w.want = "children" -> IF AsksCaps
                              THEN Ask([w EXCEPT !.at.kids = Kids[Root]], "caps")
                              ELSE In(w, Kids[Root], HistSize > 0)
    [] w.want = "browse"   -> In(w, Kids[w.at.obj], w.at.searchable)
    [] w.want = "search"   -> SearchAgain(w)

(* It is gone or its server fails: NULL.  Without the children of the root  *)
(* its capabilities are asked for in vain.                                  *)
Disturbed(w) == [w EXCEPT !.calm = FALSE]

Unanswered(w) ==
  IF w.want = "children" /\ AsksCaps THEN Ask(Disturbed(w), "vain") ELSE EndBody(Disturbed(w))

Answer(t) ==
  LET w == walk[t]
  IN /\ w.pc = "answer" /\ w.want \notin {"caps", "new"}
     /\ lister' = Nobody
     /\ \/ w.want = "text" /\ Update(t, Answered(w))
        \/ w.want \notin {"text", "vain"} /\ w.at.dev \in alive /\ Update(t, Answered(w))
        \/ w.want # "text" /\ Update(t, Unanswered(w))
     /\ UNCHANGED <<alive, hist, owner, depth>>

(* The device searches only if its capabilities say so.                     *)
AnswerCaps(t) ==
  LET w == walk[t]
  IN /\ w.pc = "answer" /\ w.want = "caps"
     /\ lister' = Nobody
     /\ \/ w.at.dev \in alive /\ Update(t, In(w, w.at.kids, HasCaps))
        \/ Update(t, In(Disturbed(w), w.at.kids, FALSE))
     /\ UNCHANGED <<alive, hist, owner, depth>>

(* A new search enters the history if it finds something; the oldest leaves. *)
Remember(h) ==
  LET longer == Append(hist, h) IN IF Len(longer) > HistSize THEN Tail(longer) ELSE longer

AnswerNew(t) ==
  LET w == walk[t]
      found == Hits(w.at.obj, w.at.crit)
      word == Head(w.left)
      new == [parent |-> Here(w), name |-> word, crit |-> Criterion(word)]
      copied == Len(w.at.crit) > Len(Criterion(word))
      in == EnterDir(w, w.at)
  IN /\ w.pc = "answer" /\ w.want = "new"
     /\ lister' = Nobody
     /\ \/ /\ w.at.dev \in alive /\ found # <<>>
           /\ hist' = Remember(new)
           /\ Update(t, IF in.pc = "done" THEN in
                        ELSE [In(in, found, TRUE) EXCEPT
                                !.from = IF copied THEN <<>> ELSE Key(new)])
        \/ w.at.dev \in alive /\ found = <<>> /\ Update(t, EndBody(w)) /\ UNCHANGED hist
        \/ Update(t, Unanswered(w)) /\ UNCHANGED hist
     /\ UNCHANGED <<alive, owner, depth>>

(* cleanup: every function on the way back releases what it locked. *)
Unlock(t) ==
  /\ walk[t].pc = "done"
  /\ owner = t
  /\ depth' = depth - 1
  /\ owner' = IF depth = 1 THEN Nobody ELSE t
  /\ UNCHANGED <<alive, lister, hist, walk>>

Return(t) ==
  /\ walk[t].pc = "done"
  /\ owner # t
  /\ Update(t, Idle)
  /\ UNCHANGED <<alive, lister, hist, owner, depth>>

(* The device list changes, under its mutex: a device is removed or added. *)
ListChanges ==
  /\ lister = Nobody
  /\ \E d \in Device : alive' = IF d \in alive THEN alive \ {d} ELSE alive \cup {d}
  /\ walk' = [t \in Thread |-> IF walk[t].pc = "idle" THEN walk[t]
                               ELSE [walk[t] EXCEPT !.calm = FALSE]]
  /\ UNCHANGED <<lister, hist, owner, depth>>

Walks(t) ==
  \/ Step(t) \/ LockHistory(t) \/ Recall(t) \/ ListLinks(t) \/ LockList(t)
  \/ Answer(t) \/ AnswerCaps(t) \/ AnswerNew(t) \/ Unlock(t) \/ Return(t)

Next ==
  \/ \E t \in Thread : Query(t) \/ Walks(t)
  \/ ListChanges

Spec == Init /\ [][Next]_vars

(* Threads run, servers answer, and a thread that waits for a mutex gets it *)
(* if it is free again and again.                                           *)
FairSpec == Spec /\ \A t \in Thread : SF_vars(Walks(t))

-----------------------------------------------------------------------------
(***************************************************************************)
(* What a path means, without threads, locks or a history: where its       *)
(* components lead while no device comes or goes.                          *)
(***************************************************************************)
KidsPlace(p, kids, searchable) == [p EXCEPT !.kind = "kids", !.kids = kids, !.searchable = searchable]

Opened(p) ==
  CASE p.kind = "device" -> KidsPlace(p, Kids[Root],
                                      HistSize > 0 /\ (IsSearchable[Root] => HasCaps))
    [] p.kind = "browse" -> KidsPlace(p, Kids[p.obj], p.searchable)
    [] OTHER             -> p

(* A word under a directory of searches leads somewhere if it finds something. *)
Searched(p, word) ==
  LET crit == p.crit \o Criterion(word)
      hits == Hits(p.obj, crit)
  IN IF hits = <<>> THEN <<>>
     ELSE <<Dir(word, KidsPlace([p EXCEPT !.crit = crit], hits, TRUE))>>

(* What the functions for a directory list, searches aside. *)
Content(list, p) ==
  IF p.kind = "device" THEN Entries(list, p) \o Entries(list, Opened(p)) ELSE Entries(list, p)

Child(list, p, name) ==
  LET es == IF p.kind = "search" THEN Content(list, p) \o Searched(p, name) ELSE Content(list, p)
  IN IF Matches(es, name) = {} THEN [name |-> name, type |-> "none", to |-> p]
     ELSE LET e == FirstMatch(es, name)
          IN IF e.to.kind = "browse" THEN [e EXCEPT !.to = Opened(@)] ELSE e

(* One component more, below a directory, a file or nothing. *)
Through(list, e, name) ==
  IF e.type = "dir" THEN Child(list, e.to, name)
  ELSE [name |-> name, type |-> IF e.type = "none" THEN "none" ELSE "notdir", to |-> e.to]

Trail(list, path) ==
  LET reached[n \in 0..Len(path)] ==
        IF n = 0 THEN Dir("", At("root", Nobody)) ELSE Through(list, reached[n - 1], path[n])
  IN reached

Meaning(list, path) == Trail(list, path)[Len(path)].type

Outcome(op, type) ==
  CASE type = "none"   -> "ENOENT"
    [] type = "notdir" -> "ENOTDIR"
    [] type = "dir"    -> IF op = "readlink" THEN "EINVAL" ELSE "ok"
    [] type = "file"   -> IF op = "getdir" THEN "ENOTDIR"
                          ELSE IF op = "readlink" THEN "EINVAL" ELSE "ok"
    [] type = "link"   -> IF op = "getdir" THEN "ENOTDIR" ELSE "ok"

(* The links of .debug/search_history come and go with the history. *)
OfHistory(path) == Len(path) > 2 /\ path[2] = "search_history"

TypeOK ==
  /\ alive \subseteq Device
  /\ lister \in Thread \cup {Nobody}
  /\ Len(hist) <= HistSize
  /\ owner \in Thread \cup {Nobody}
  /\ depth \in Nat
  /\ \A t \in Thread :
       /\ walk[t].pc \in {"idle", "walk", "lock", "history", "call", "answer", "done"}
       /\ walk[t].rc \in {"ok", "ENOENT", "ENOTDIR", "EINVAL", "ENOMEM"}

(* The bounded history holds a search once, with the criteria of its word:   *)
(* BrowseSearchDir looks a word up and adds it a request to the server       *)
(* later, and other threads search meanwhile (djfs.c:131-208).               *)
HistoryExact ==
  /\ Len(hist) <= HistSize
  /\ \A i, j \in DOMAIN hist :
       /\ hist[i].crit = Criterion(hist[i].name)
       /\ i # j => Key(hist[i]) # Key(hist[j])

(* Criteria that point into an entry of the history are not used once the   *)
(* entry is evicted and freed by a nested search or another thread          *)
(* (djfs.c:137-150, 205-213).                                               *)
CriteriaAlive ==
  \A t \in Thread :
    walk[t].from # <<>> /\ walk[t].pc \in {"call", "answer", "walk"}
      => \E i \in DOMAIN hist : walk[t].from = Key(hist[i])

(* A path means the same to every operation and thread, whatever searches   *)
(* were made, evicted or are under way: getattr, getdir, open and readlink  *)
(* of a path agree, as long as no device comes, goes or refuses an answer;  *)
(* and whatever devices do, no walk succeeds before the end of its path     *)
(* (vfs.c:316).                                                             *)
ResultByPath ==
  \A t \in Thread :
    LET w == walk[t]
    IN /\ w.pc = "done" /\ w.rc = "ok" => w.left = <<>>
       /\ w.pc = "done" /\ w.calm /\ ~OfHistory(w.path) /\ w.rc # "ENOMEM"
            => w.rc = Outcome(w.op, Meaning(alive, w.path))

(* Whatever getdir lists can be looked up, the searches of the history and  *)
(* of nested directories included, and what is found was listed: entries of *)
(* one name are listed each with its type, and the first is found.  So an   *)
(* entry that has its name for itself has the type it is listed with.       *)
ListedIsFound ==
  \A t \in Thread :
    LET w == walk[t]
    IN w.pc = "done" /\ w.calm /\ w.op = "getdir" /\ w.at.kind # "history"
         => \A e \in w.listed : <<e[1], Meaning(alive, Append(w.path, e[1]))>> \in w.listed

(* Every operation comes back, and has then released the mutex of the       *)
(* history as often as it locked it (djfs.c:131, 223, 481, 505).            *)
QueryReturns == \A t \in Thread : walk[t].pc # "idle" ~> walk[t].pc = "idle" /\ owner # t
=============================================================================
