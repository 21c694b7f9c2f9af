----------------------------- MODULE MCFileTree -----------------------------
(* A server with a container, an item and a second container with the name  *)
(* of the item, and searches that meet.                                     *)
EXTENDS FileTree

MCDevices == <<"tv">>
MCIsContainer == [o \in Object |-> o # "2"]
MCIsSearchable == [o \in Object |-> o \in {"0", "1"}]
MCHasFile == [o \in Object |-> o = "2"]
MCNameOf == [o \in Object |-> CASE o = "0" -> "root" [] o = "1" -> "music" [] o \in {"2", "3"} -> "song.mp3"]
MCMetaName == [o \in Object |-> CASE o = "0" -> "root.xml" [] o = "1" -> "music.xml" [] o \in {"2", "3"} -> "song.xml"]
MCKids == [o \in Object |-> CASE o = "0" -> <<"1", "2", "3">> [] o = "1" -> <<"2">> [] o \in {"2", "3"} -> <<>>]

(* The word "nil" alone finds nothing, nor does anything in the container. *)
MCHits(o, c) ==
  IF o # "0" \/ (c[Len(c)] = "nil" /\ "or" \notin ToSet(c)) THEN <<>> ELSE <<"1", "2", "3">>

(* One thread searches within the results of a search, the other lists the *)
(* searches made there; three searches compete for two places.              *)
Of(op, path) == [op |-> op, path |-> path]
S == <<"tv", "_search">>
A == S \o <<"a", "_and">>
Walker == { Of("open", A \o <<"b", "song.mp3">>), Of("getdir", S \o <<"a", "_or", "nil">>) }
Lister == { Of("getdir", A), Of("stat", S \o <<"nil">>),
            Of("readlink", <<".debug", "search_history", ToString(<<A, "b">>)>>) }

CONSTANTS t1, t2
MCQueries == (t1 :> Walker) @@ (t2 :> Lister)
=============================================================================
