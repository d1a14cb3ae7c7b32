--------------------------- MODULE MCLookupCaches ---------------------------
(* Small instances of LookupCaches for TLC: a class, its subclass, two      *)
(* selectors, methods that are in the image and one compiled live.          *)
EXTENDS LookupCaches, TLC

CONSTANTS super, sub, foo, dnu, old, live, NestedSites

MCChain == super :> <<super>> @@ sub :> <<sub, super>>

\* The specialized selectors of SmallInteger, here one selector of a class
MCSealed == {<<sub, dnu>>}

\* One bucket for both selectors of a class: entries collide.
MCHash == [x \in Class \X Address |-> IF x[1] = super THEN 1 ELSE 2]

\* A plain site in each method, in a block of it or not, and a super send in
\* the live one.
MCSite ==
    { [code |-> old, nested |-> TRUE, selector |-> foo, static |-> NoClass],
      [code |-> live, nested |-> NestedSites, selector |-> foo, static |-> NoClass],
      [code |-> live, nested |-> FALSE, selector |-> foo, static |-> sub] }

Symmetry == Permutations(Address)
=============================================================================
