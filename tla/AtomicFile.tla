------------------------------ MODULE AtomicFile ------------------------------
(***************************************************************************)
(* What files promise a program: a handle shows the file as it was opened  *)
(* with the handle's own changes in it, whatever other handles do; the     *)
(* file holds what was last saved, all of it, through every fault of the   *)
(* flash and every loss of power.                                          *)
(***************************************************************************)
EXTENDS Integers, Sequences, FiniteSetsExt

CONSTANTS Files, Handles, Absent, Zero

VARIABLES
  saved,   \* per file, its words, or Absent
  handle,  \* per handle: what it shows and where it stands
  did      \* the last call, with its arguments, result and data

vars == <<saved, handle, did>>

Closed == [st |-> "closed", f |-> "", mode |-> "r", words |-> <<>>, pos |-> 0, dirty |-> FALSE]

(* Words laid over others, with zeros where neither reaches.               *)
Overlay(old, pos, new) ==
  [i \in 1 .. Max({Len(old), pos + Len(new)}) |->
     IF i > pos /\ i <= pos + Len(new) THEN new[i - pos]
     ELSE IF i <= Len(old) THEN old[i] ELSE Zero]
Resized(old, n) == [i \in 1 .. n |-> IF i <= Len(old) THEN old[i] ELSE Zero]

X == did'.x
H == handle[X]
Good == did'.res = "ok"
Error == did'.res \notin {"ok", "lost"}
PowerFails == did'.res = "lost" /\ handle' = [x \in Handles |-> Closed]
Becomes(h) == handle' = [handle EXCEPT ![X] = h]

(* After an error a handle may only be closed, or it is as it was but for  *)
(* where it stands.                                                        *)
Fails(words) ==
  /\ Error
  /\ Becomes([H EXCEPT !.st = handle'[X].st, !.words = handle'[X].words, !.pos = handle'[X].pos,
                       !.dirty = handle'[X].dirty])
  /\ \/ handle'[X].st = "broken"
     \/ /\ handle'[X].st = "open"
        /\ handle'[X].words \in words
        /\ (H.dirty => handle'[X].dirty)

Saving == IF H.st = "open" /\ H.dirty THEN [saved EXCEPT ![H.f] = H.words] ELSE saved

Open ==
  LET n == did'.f
      made == [saved EXCEPT ![n] = IF @ = Absent THEN <<>> ELSE @]
      emptied == did'.mode = "w"
  IN /\ did'.op = "open" /\ H.st = "closed"
     /\ \/ /\ Good /\ (saved[n] = Absent => did'.mode \notin {"r", "rw"})
           /\ saved' = made
           /\ Becomes([st |-> "open", f |-> n, mode |-> did'.mode, pos |-> 0,
                       words |-> IF emptied THEN <<>> ELSE made[n],
                       dirty |-> emptied /\ saved[n] # Absent])
        \/ saved' \in {saved, made} /\ (PowerFails \/ (Error /\ UNCHANGED handle))
Close ==
  /\ did'.op = "close" /\ H.st # "closed"
  /\ \/ Good /\ saved' = Saving /\ Becomes(Closed)
     \/ saved' \in {saved, Saving} /\ (PowerFails \/ (Error /\ Becomes(Closed)))
Save ==
  /\ did'.op = "sync" /\ H.st \in {"open", "gone"}
  /\ \/ Good /\ saved' = Saving /\ Becomes([H EXCEPT !.dirty = FALSE])
     \/ UNCHANGED saved /\ (PowerFails \/ Fails({H.words}))
     \/ UNCHANGED saved /\ Error /\ H.st = "gone" /\ UNCHANGED handle
Read ==
  LET there == SubSeq(H.words, H.pos + 1, Min({H.pos + did'.n, Len(H.words)}))
  IN /\ did'.op = "read" /\ UNCHANGED saved
     /\ \/ Good /\ H.st = "open" /\ did'.data = there
           /\ Becomes([H EXCEPT !.pos = @ + Len(there)])
        \/ H.st = "gone" /\ UNCHANGED handle
        \/ PowerFails \/ Fails({H.words})
Write ==
  LET start == IF H.mode \in {"rwa", "wa"} THEN Max({H.pos, Len(H.words)}) ELSE H.pos
  IN /\ did'.op = "write" /\ UNCHANGED saved
     /\ \/ /\ Good /\ H.st = "open"
           /\ Becomes([H EXCEPT !.words = Overlay(@, start, did'.data),
                                !.pos = start + Len(did'.data), !.dirty = TRUE])
        \/ H.st = "gone" /\ UNCHANGED handle
        \/ PowerFails \/ Fails({H.words})
Seek ==
  /\ did'.op = "seek" /\ UNCHANGED saved
  /\ \/ Good /\ H.st = "open" /\ Becomes([H EXCEPT !.pos = did'.n])
     \/ H.st = "gone" /\ UNCHANGED handle
     \/ PowerFails \/ Fails({H.words})
Truncate ==
  /\ did'.op = "truncate" /\ UNCHANGED saved
  /\ \/ /\ Good /\ H.st = "open"
        /\ Becomes([H EXCEPT !.words = Resized(@, did'.n),
                             !.dirty = @ \/ Len(H.words) # did'.n])
     \/ H.st = "gone" /\ UNCHANGED handle
     \/ PowerFails \/ Fails({H.words, Resized(H.words, did'.n)})
Remove ==
  LET n == did'.f
  IN /\ did'.op = "remove"
     /\ \/ /\ Good /\ saved[n] # Absent /\ saved' = [saved EXCEPT ![n] = Absent]
           /\ handle' = [x \in Handles |->
                IF handle[x].f # n THEN handle[x]
                ELSE [handle[x] EXCEPT !.st = "gone", !.words = <<>>, !.pos = 0, !.dirty = FALSE]]
        \/ UNCHANGED saved /\ (PowerFails \/ (Error /\ UNCHANGED handle))

Init ==
  /\ \A x \in Handles : \/ handle[x] = Closed
                       \/ /\ saved[handle[x].f] # Absent
                          /\ handle[x] = [Closed EXCEPT !.st = "open", !.f = handle[x].f,
                               !.mode = "rw", !.words = saved[handle[x].f]]
  /\ did.op = "none"
Next == Open \/ Close \/ Save \/ Read \/ Write \/ Seek \/ Truncate \/ Remove
Spec == Init /\ [][Next]_vars
=============================================================================
