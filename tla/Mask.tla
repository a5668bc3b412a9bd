-------------------------------- MODULE Mask --------------------------------
(***************************************************************************)
(* Per-fact access labels at read time (mask.rs).  A view is a snapshot as   *)
(* one principal may read it: every read primitive takes a view, and the     *)
(* unmasked snapshot is one.                                                 *)
(*                                                                           *)
(* A mask is [allowed, floors]: the set of labels the bitmask admits, and    *)
(* the label floor of each predicate that declares one.                      *)
(***************************************************************************)
EXTENDS Fold

CONSTANT Predicates

\* FactMask::new: the floors are the catalog's at the time of the read.
MaskOf(floors, allowed) == [allowed |-> allowed, floors |-> floors]

\* label_allowed, lifted to an optional label: no label hides nothing.
LabelAllowed(m, l) == l = None \/ l \in m.allowed

\* The greater of the floor and the row's own label.
EffectiveLabel(floor, l) ==
    IF floor = None THEN l ELSE IF l = None THEN floor ELSE Max({floor, l})

PredicateHidden(m, p) == ~LabelAllowed(m, m.floors[p])

\* Both the floor and the row's own label, where present, are allowed.
RowVisible(m, p, l) == ~PredicateHidden(m, p) /\ LabelAllowed(m, l)

\* Some stored label (by the maintained counts) or some floor is not allowed.
HidesAny(m, snap) ==
    \/ \E l \in Labels : snap.counts[l] > 0 /\ ~LabelAllowed(m, l)
    \/ \E p \in Predicates : PredicateHidden(m, p)

KeyAffected(m, snap, k) ==
    \/ PredicateHidden(m, k[2])
    \/ \E l \in snap.labels[k] : ~RowVisible(m, k[2], l[2])

\* Masked::affected: a mask that hides nothing that exists affects no key.
Affected(m, snap) == IF HidesAny(m, snap) THEN {k \in Keys : KeyAffected(m, snap, k)} ELSE {}

\* Seeded fault: a One key shows its head however it is labelled.
MaskedKeepsHead(m, snap) ==
    LET visible(k) == {r \in snap.rows[k] : RowVisible(m, k[2], LabelOf(snap.labels[k], r.ok))}
    IN  [snap EXCEPT !.rows = [k \in Keys |-> IF k \in Affected(m, snap) THEN visible(k) ELSE @[k]]]

\* Masked: where the mask affects a key, its visible rows are projected anew; the
\* properties of an edge stay while a row of the edge is visible.
Masked(m, snap) ==
    LET affected == Affected(m, snap)
        rows(k)  == {r \in snap.rows[k] : RowVisible(m, k[2], LabelOf(snap.labels[k], r.ok))}
        ones(k)  == {r \in rows(k) : r.elem = None}
        elems(k) == rows(k) \ ones(k)
    IN  [snap EXCEPT
           !.rows  = [k \in Keys |-> IF k \in affected THEN rows(k) ELSE @[k]],
           !.one   = [k \in Keys |-> IF k \notin affected THEN @[k]
                                     ELSE IF ones(k) = {} THEN Absent ELSE Top(ones(k)).object],
           !.many  = [k \in Keys |-> IF k \in affected THEN Present(elems(k)) ELSE @[k]],
           !.props = [k \in Keys |->
                        {p \in @[k] : \/ k \notin affected
                                      \/ \E r \in rows(k) : p[1][2] \in {r.object, r.elem}}]]

\* Nodes carry a label of their own, which no fact mask touches.
NodeVisible(m, snap, n) == \A p \in snap.nlabels : p[1] = n => p[2] \in m.allowed
=============================================================================
