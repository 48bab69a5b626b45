----------------------------- MODULE BundleSlot -----------------------------
(***************************************************************************)
(* The hydrated bundles one API process holds                              *)
(* (backend/src/app/platform/bundle_slot.py): bundles by hash, the least   *)
(* recently used first, and for each Rating Version the hash this process  *)
(* last resolved it to.  A slot is a value; its owner keeps it in a        *)
(* variable.                                                               *)
(***************************************************************************)
EXTENDS Sequences, Integers

CONSTANTS
  Versions,  \* Rating Versions, as references
  Bundles,   \* compiled bundles, as content hashes
  Capacity,  \* bundles a slot holds
  None

\* A slot that can hold nothing is refused when it is built.
ASSUME SlotConstants ==
  /\ Capacity \in Nat \ {0}
  /\ None \notin Bundles

Slots == [held : Seq(Bundles), memo : [Versions -> Bundles \cup {None}]]

Empty == [held |-> <<>>, memo |-> [v \in Versions |-> None]]

Held(slot) == {slot.held[i] : i \in 1..Len(slot.held)}

At(held, h) == CHOOSE i \in 1..Len(held) : held[i] = h

\* h as the most recently used of the bundles.
Used(slot, h) ==
  IF h \in Held(slot)
  THEN LET n == Len(slot.held)
           at == At(slot.held, h)
       IN [i \in 1..n |-> IF i = n THEN h
                          ELSE slot.held[IF i < at THEN i ELSE i + 1]]
  ELSE Append(slot.held, h)

Get(slot, h) == [slot EXCEPT !.held = Used(slot, h)]

\* Eviction that leaves the index of references alone.
Forget_Kept(memo, evicted) == memo

\* The references to an evicted bundle go with it.
Forget(memo, evicted) ==
  [v \in DOMAIN memo |-> IF memo[v] \in evicted THEN None ELSE memo[v]]

\* One call writes both indices and evicts from the front of the first.
Put(slot, v, h) ==
  LET used == Used(slot, h)
      over == IF Len(used) > Capacity THEN Len(used) - Capacity ELSE 0
  IN [held |-> [i \in 1..(Len(used) - over) |-> used[i + over]],
      memo |-> Forget([slot.memo EXCEPT ![v] = h], {used[i] : i \in 1..over})]

-----------------------------------------------------------------------------
(* A reference is remembered only while its bundle is held, so an outage   *)
(* finds a bundle for every reference the slot still knows, and the index  *)
(* cannot outgrow the bundles it points at.                                *)
Coherent(slot) ==
  /\ Len(slot.held) <= Capacity
  /\ \A v \in Versions : slot.memo[v] # None => slot.memo[v] \in Held(slot)
=============================================================================
