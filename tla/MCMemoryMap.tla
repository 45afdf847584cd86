----------------------------- MODULE MCMemoryMap -----------------------------
EXTENDS MemoryMap

CONSTANT Top  \* the regions lie in 0 .. Top

R(base, end, type) == [BaseAddress |-> base, Length |-> end - base, Type |-> type]
RegionsOf == {R(b, e, t) : b \in 0..Top - 1, e \in 1..Top, t \in {AVAILIABLE, RESERVED}}
ProperRegions == {r \in RegionsOf : r.Length > 0}

EndOf(r) == r.BaseAddress + r.Length

One == {<<r>> : r \in ProperRegions}
Follows(m, r) == EndOf(m[Len(m)]) <= r.BaseAddress
TwoInOrder == UNION {{Append(m, r) : r \in {s \in ProperRegions : Follows(m, s)}} : m \in One}
ThreeInOrder ==
  UNION {{Append(m, r) : r \in {s \in ProperRegions : Follows(m, s)}} : m \in TwoInOrder}

\* With the last bytes below PointerSpan reserved, and more above.
HighInOrder ==
  {m \o <<R(14, PointerSpan, RESERVED), R(2 * PointerSpan, 3 * PointerSpan, RESERVED)>> :
     m \in One}

\* With a reserved region without a byte, at the edge of another region or in it.
WithEmpty ==
  UNION {{Append(m, R(a, a, RESERVED)) : a \in m[1].BaseAddress..Top} : m \in One}

\* Maps of up to three regions in order, and these, in which only the first region
\* may reach below the first available byte.
TidyMaps ==
  UNION {{[regions |-> m, first |-> f] :
            f \in {g \in {1, 3} : \A i \in 2..Len(m) :
                                    m[i].Type = AVAILIABLE => m[i].BaseAddress >= g}} :
         m \in One \cup TwoInOrder \cup ThreeInOrder
                \cup HighInOrder \cup WithEmpty}

\* They are the maps the theorems about MemoryMap assume.
ASSUME TidyMapsAreTidy == \A m \in TidyMaps : IsTidy(m)

\* An available region that a reserved one overlaps.
OverlappingMaps ==
  {[regions |-> <<R(1, 12, AVAILIABLE), R(b, b + 2, RESERVED)>>, first |-> 1] : b \in 8..9}
=============================================================================
