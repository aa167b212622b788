----------------------------- MODULE FileStore -----------------------------
(***************************************************************************)
(* What init_get and free_request rely on in the mmap cache, without its   *)
(* table: while a request sends a file, that file, and no other, is mapped *)
(* for it, and a file is unmapped as soon as nobody sends it.              *)
(***************************************************************************)
CONSTANTS Files, Requests, NoFile

VARIABLES
  sends,   \* the file each request sends from memory, or NoFile
  mapped   \* the files in memory

vars == <<sends, mapped>>

Init == sends = [r \in Requests |-> NoFile] /\ mapped = {}

Open(r, f) ==
  /\ sends[r] = NoFile
  /\ sends' = [sends EXCEPT ![r] = f]
  /\ mapped' = mapped \cup {f}

Close(r) ==
  /\ sends[r] # NoFile
  /\ sends' = [sends EXCEPT ![r] = NoFile]
  /\ mapped' = IF \E s \in Requests \ {r} : sends[s] = sends[r]
               THEN mapped ELSE mapped \ {sends[r]}

Next == \E r \in Requests : (\E f \in Files : Open(r, f)) \/ Close(r)

Spec == Init /\ [][Next]_vars
=============================================================================
