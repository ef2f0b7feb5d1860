---------------------------- MODULE WebhookEffects ----------------------------
(***************************************************************************)
(* What billing webhooks promise, whatever happens on the way: the effect  *)
(* of an event begins only after the event was recorded, and has begun     *)
(* before the event counts as processed.  An event may instead be found to *)
(* have no effect here, but not one of those that always have one.         *)
(***************************************************************************)
CONSTANT Events

VARIABLES due,        \* events that have an effect in any case
          recorded,   \* events the platform has taken over
          applied,    \* events whose effect has begun
          ignored,    \* events found to have no effect
          processed   \* events that are dealt with

vars == <<due, recorded, applied, ignored, processed>>

TypeOK ==
  /\ due \subseteq Events /\ recorded \subseteq Events
  /\ applied \subseteq recorded /\ ignored \subseteq recorded \ due
  /\ processed \subseteq applied \cup ignored

Init ==
  due \subseteq Events /\ recorded = {} /\ applied = {} /\ ignored = {} /\ processed = {}

Record(e) ==
  /\ recorded' = recorded \cup {e}
  /\ UNCHANGED <<due, applied, ignored, processed>>

Apply(e) ==
  /\ e \in recorded \ applied
  /\ applied' = applied \cup {e}
  /\ UNCHANGED <<due, recorded, ignored, processed>>

Ignore(e) ==
  /\ e \in recorded \ (ignored \cup due)
  /\ ignored' = ignored \cup {e}
  /\ UNCHANGED <<due, recorded, applied, processed>>

Process(e) ==
  /\ e \in (applied \cup ignored) \ processed
  /\ processed' = processed \cup {e}
  /\ UNCHANGED <<due, recorded, applied, ignored>>

Next == \E e \in Events : Record(e) \/ Apply(e) \/ Ignore(e) \/ Process(e)

Spec == Init /\ [][Next]_vars
=============================================================================
