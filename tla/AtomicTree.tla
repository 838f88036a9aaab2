------------------------------ MODULE AtomicTree ------------------------------
(***************************************************************************)
(* What the directory tree promises (littlefs/README.md, "Power-loss       *)
(* resilience"; lfs.h on the calls): a call takes effect at one instant or *)
(* not at all, also when the power fails in the middle of it, and nothing  *)
(* but a call changes the tree.                                            *)
(***************************************************************************)
EXTENDS Naturals, Sequences, SequencesExt

CONSTANTS Operation   \* the calls: records of kind, path and to

VARIABLES
  tree,    \* set of [path, dir, made, time]; made and time name a call
  before,  \* the tree when the last call began
  op,      \* that call
  calls,   \* its number
  res      \* "none" while it runs, then how it ended

vars == <<tree, before, op, calls, res>>

Exists(t, p) == \E e \in t : e.path = p
IsDir(t, p) == p = <<>> \/ \E e \in t : e.path = p /\ e.dir
IsEmpty(t, p) == \A e \in t : e.path = p \/ ~IsPrefix(p, e.path)
EntryAt(t, p) == CHOOSE e \in t : e.path = p

Possible(t, o) ==
  CASE o.kind \in {"create", "mkdir"} -> IsDir(t, Front(o.path)) /\ ~Exists(t, o.path)
    [] o.kind \in {"settime", "open"} -> Exists(t, o.path)
    [] o.kind = "remove" -> Exists(t, o.path) /\ IsEmpty(t, o.path)
    [] o.kind = "rename" ->
         /\ Exists(t, o.path)
         /\ IsDir(t, Front(o.to))
         /\ Exists(t, o.to) => /\ EntryAt(t, o.to).dir = EntryAt(t, o.path).dir
                               /\ IsEmpty(t, o.to)

Moved(e, from, to) ==
  [e EXCEPT !.path = to \o SubSeq(@, Len(from) + 1, Len(@))]

Effect(t, o, n) ==
  CASE o.kind \in {"create", "mkdir"} ->
         t \cup {[path |-> o.path, dir |-> o.kind = "mkdir", made |-> n, time |-> 0]}
    [] o.kind = "settime" ->
         {IF e.path = o.path THEN [e EXCEPT !.time = n] ELSE e : e \in t}
    [] o.kind = "open" -> t
    [] o.kind = "remove" -> {e \in t : e.path # o.path}
    [] o.kind = "rename" ->
         {IF IsPrefix(o.path, e.path) THEN Moved(e, o.path, o.to) ELSE e :
            e \in {x \in t : x.path # o.to}}

Begin ==
  /\ res # "none"
  /\ op' \in Operation
  /\ calls' = calls + 1
  /\ before' = tree
  /\ res' = "none"
  /\ UNCHANGED tree

Take ==
  /\ res = "none" /\ Possible(before, op)
  /\ UNCHANGED <<before, op, calls, res>>
  /\ tree = before
  /\ tree' = Effect(before, op, calls)

(* Success means that the call took effect, a refusal that it could not;   *)
(* no space, that it did not.  A flash error leaves either open: a remove  *)
(* may fail after its effect.                                              *)
End ==
  /\ res = "none"
  /\ \/ res' = "ok" /\ (tree # before \/ op.kind = "open")
     \/ res' = "nospace" /\ tree = before
     \/ res' = "refused" /\ ~Possible(before, op)
     \/ res' = "error"
  /\ UNCHANGED <<tree, before, op, calls>>

(* Once the power has failed the call is over: what has not happened yet   *)
(* does not happen during recovery.                                        *)
Crash ==
  /\ res = "none"
  /\ res' = "lost"
  /\ UNCHANGED <<tree, before, op, calls>>

Init ==
  /\ tree = {} /\ before = {} /\ calls = 0 /\ res = "ok"
  /\ op = [kind |-> "none", path |-> <<>>, to |-> <<>>]
Next == Begin \/ Take \/ End \/ Crash
Spec == Init /\ [][Next]_vars
=============================================================================
