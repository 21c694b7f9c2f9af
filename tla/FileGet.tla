------------------------------ MODULE FileGet ------------------------------
(***************************************************************************)
(* FileBuffer_Read over http_OpenHttpGetEx and http_ReadHttpGet: the bytes   *)
(* that a read copies are those that the parser leaves in its buffer.       *)
(* FileBuffer is the abstract specification: entity, what the server still   *)
(* has to send, is only remembered here to show that it is given.           *)
(***************************************************************************)
EXTENDS FileBuffer, HttpGet

allVars == <<vars, httpVars>>

Want == size - Len(buffer)

GetInit == Init /\ HttpInit

GetCall ==
  /\ \E off \in 0 .. OffMax, sz \in Asked :
       ReadText(off, sz) \/ Overflow(off, sz) \/ ReadURL(off, sz)
  /\ UNCHANGED httpVars

(* An empty range is refused; then a request is sent.                       *)
GetConnect ==
  /\ pc = "open" /\ offset <= LastByte
  /\ \E b \in Entities : Connect(b)
  /\ UNCHANGED vars

GetSend == (SendChunk \/ SendLastChunk) /\ UNCHANGED vars

GetReceive ==
  /\ Receive(Want) \/ ServerCloses(Want) \/ ReceiveFails(Want)
  /\ UNCHANGED vars

GetParse == Parse /\ UNCHANGED vars

(* The answer is known to be one: the first read begins.                    *)
GetOpened ==
  /\ pc = "open" /\ step = "opened"
  /\ pc' = "read"
  /\ entity' = answer.body
  /\ ReadAgain(0)
  /\ UNCHANGED <<file, offset, asked, size, buffer, rc>>

GetRead ==
  /\ pc = "read" /\ step = "receive" /\ ~Waiting(Want)
  /\ LET n == Available(Want) IN
     /\ buffer' = buffer \o Given(n)
     /\ entity' = SubSeq(entity, n + 1, Len(entity))
     /\ IF Finished(n) THEN Return(Len(buffer) + n) /\ CloseHttpGet
                       ELSE ReadAgain(entityOffset + n) /\ UNCHANGED <<pc, rc>>
  /\ UNCHANGED <<file, offset, asked, size>>

(* A request cannot be made, or what was received is no answer.             *)
GetFails ==
  /\ OpenFails \/ ReadFails
  /\ (pc = "open" /\ step = "closed") \/ step = "failed"
  /\ CloseHttpGet

GetNext ==
  \/ GetCall \/ GetConnect \/ GetSend \/ GetReceive \/ GetParse
  \/ GetOpened \/ GetRead \/ GetFails

GetSpec == GetInit /\ [][GetNext]_allVars

(* Steps that wait for nobody are taken, connect() ends, and a limited wait *)
(* ends; nothing is assumed of what the server sends.                       *)
Own == GetConnect \/ GetParse \/ GetOpened \/ GetRead \/ GetFails
FairGetSpec ==
  GetSpec /\ WF_allVars(Own) /\ WF_allVars(TimesOut(Want) /\ UNCHANGED vars)
-----------------------------------------------------------------------------
(* Properties.                                                              *)

(* However the network cuts an answer, chunk sizes, ends of lines and       *)
(* headers included, and whichever way its entity is sent, a read copies    *)
(* the entity and no byte of what encloses it; it fails if the connection   *)
(* breaks before the end that was told, and no good answer is refused.      *)
Understood == step = "parse" /\ answer.form # "wrong" => step' # "failed"

ReadsAsPromised == Spec /\ [][Understood]_httpVars

(* A read returns, unless its time is used up to the very second: select()  *)
(* is then called without a limit, and waits as long as the server is mute. *)
Returns == pc \in {"open", "read"} ~> pc = "done" \/ (Waiting(Want) /\ left = 0)
=============================================================================
