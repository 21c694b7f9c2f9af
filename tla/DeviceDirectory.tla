--------------------------- MODULE DeviceDirectory ---------------------------
(***************************************************************************)
(* What the device list promises its readers: a directory from UDN to      *)
(* display name.  A device enters under a name no other listed device has, *)
(* keeps that name as long as it is listed, and devices enter and leave    *)
(* one at a time.                                                          *)
(***************************************************************************)
CONSTANT Device
VARIABLE dir

Listed == DOMAIN dir

Init == Listed = {}

Enter(d) ==
  /\ d \notin Listed
  /\ DOMAIN dir' = Listed \cup {d}
  /\ \A x \in Listed : dir'[x] = dir[x]
  /\ \A x \in Listed : dir'[d] # dir[x]

Quit(d) ==
  /\ d \in Listed
  /\ DOMAIN dir' = Listed \ {d}
  /\ \A x \in Listed \ {d} : dir'[x] = dir[x]

Next == \E d \in Device : Enter(d) \/ Quit(d)

Spec == Init /\ [][Next]_dir
=============================================================================
