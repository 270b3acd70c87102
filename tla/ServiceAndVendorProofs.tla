------------------------ MODULE ServiceAndVendorProofs ------------------------
(***************************************************************************)
(* The properties of UnknownServices and of VendorContamination.           *)
(*                                                                         *)
(* UnknownServices.  What the ingest has read of its candidate is so still *)
(* when it writes (ReadsHold, LinkHolds): no other ingest runs meanwhile,  *)
(* and a review changes only what the ingest does not write back.  The     *)
(* occurrences of a host sum up to at most its stored events and the       *)
(* failed audit entries.  The sums are FiniteSetsExt's; what is needed of  *)
(* them is shown by a search for the smallest set that would refute it.    *)
(*                                                                         *)
(* VendorContamination.  A session that is not stale holds the agreement   *)
(* and the row as they are, since whoever changes one marks the sessions   *)
(* that have read it; and a column that is not rewritten is equal to the   *)
(* loaded one, so that a row merged from a fresh session is whole.         *)
(***************************************************************************)
EXTENDS UnknownServices, VendorContamination, FiniteSetTheorems, TLAPS

-----------------------------------------------------------------------------
(* Sums over finite sets.                                                  *)

\* A set of subsets of a finite set has a smallest one: induction over a finite set, as a
\* search for the smallest counterexample.
LEMMA MinimalSubset ==
  ASSUME NEW S, IsFiniteSet(S), NEW B \in SUBSET SUBSET S, B # {}
  PROVE  \E T \in B : \A U \in B : U \subseteq T => U = T
<1>1. IsWellFoundedOn(StrictSubsetOrdering(S), FiniteSubsetsOf(S))
  BY FS_StrictSubsetOrderingWellFounded
<1>2. B \subseteq FiniteSubsetsOf(S)
  BY FS_FiniteSubsetsOfFinite
<1>3. PICK T \in B : \A U \in B : ~ (<<U, T>> \in StrictSubsetOrdering(S))
  BY <1>1, <1>2, WFMin
<1>4. ASSUME NEW U \in B, U \subseteq T
      PROVE  U = T
  BY <1>3, <1>4 DEF StrictSubsetOrdering
<1> QED BY <1>4

\* The function from the subsets of S to sums that FiniteSetsExt folds with.
Pick(s) == CHOOSE x \in s : TRUE

IsSum(f, g, S) ==
  f = [s \in SUBSET S |-> IF s = {} THEN 0 ELSE g[Pick(s)] + f[s \ {Pick(s)}]]

\* Two such functions agree wherever both are defined.
LEMMA OneSum ==
  ASSUME NEW g, NEW S, IsFiniteSet(S), NEW T, NEW e, NEW f, IsSum(e, g, S), IsSum(f, g, T)
  PROVE  \A s \in SUBSET S : s \subseteq T => e[s] = f[s]
<1> DEFINE Bad == {s \in SUBSET S : s \subseteq T /\ e[s] # f[s]}
<1> SUFFICES ASSUME Bad # {} PROVE FALSE
  OBVIOUS
<1>1. PICK s \in Bad : \A u \in Bad : u \subseteq s => u = s
  <2>1. Bad \in SUBSET SUBSET S
    OBVIOUS
  <2> HIDE DEF Bad
  <2> QED BY <2>1, MinimalSubset
<1>2. /\ e[s] = IF s = {} THEN 0 ELSE g[Pick(s)] + e[s \ {Pick(s)}]
      /\ f[s] = IF s = {} THEN 0 ELSE g[Pick(s)] + f[s \ {Pick(s)}]
  BY DEF IsSum
<1>3. s # {}
  BY <1>2
<1>4. Pick(s) \in s
  BY <1>3 DEF Pick
<1>5. s \ {Pick(s)} \notin Bad
  BY <1>1, <1>4
<1> QED BY <1>2, <1>3, <1>5

\* There is such a function for every finite set.
LEMMA SumExists ==
  ASSUME NEW g, NEW S, IsFiniteSet(S)
  PROVE  \E f : IsSum(f, g, S)
<1> DEFINE Bad == {s \in SUBSET S : ~ \E f : IsSum(f, g, s)}
<1> SUFFICES ASSUME Bad # {} PROVE FALSE
  OBVIOUS
<1>1. PICK T \in Bad : \A u \in Bad : u \subseteq T => u = T
  <2>1. Bad \in SUBSET SUBSET S
    OBVIOUS
  <2> HIDE DEF Bad
  <2> QED BY <2>1, MinimalSubset
<1> DEFINE Sub(u) == CHOOSE f : IsSum(f, g, u)
           Less(s) == s \ {Pick(s)}
           F == [s \in SUBSET T |-> IF s = {} THEN 0 ELSE g[Pick(s)] + Sub(Less(s))[Less(s)]]
<1>2. ASSUME NEW u \in SUBSET T, u # T
      PROVE  IsSum(Sub(u), g, u)
  BY <1>1, <1>2
<1>3. ASSUME NEW s \in SUBSET T, s # {}
      PROVE  F[Less(s)] = Sub(Less(s))[Less(s)]
  <2> DEFINE u == Less(s)
  <2>1. Pick(s) \in s
    BY <1>3 DEF Pick
  <2>2. u \in SUBSET T /\ u # T
    BY <2>1
  <2>3. IsSum(Sub(u), g, u)
    BY <1>2, <2>2
  <2>4. Sub(u)[u] = IF u = {} THEN 0 ELSE g[Pick(u)] + Sub(u)[Less(u)]
    BY <2>3 DEF IsSum
  <2>5. F[u] = IF u = {} THEN 0 ELSE g[Pick(u)] + Sub(Less(u))[Less(u)]
    BY <2>2
  <2>6. CASE u = {}
    BY <2>4, <2>5, <2>6
  <2>7. CASE u # {}
    <3>1. Pick(u) \in u
      BY <2>7 DEF Pick
    <3>2. Less(u) \in SUBSET T /\ Less(u) # T
      BY <2>2, <3>1
    <3>3. IsSum(Sub(Less(u)), g, Less(u))
      BY <1>2, <3>2
    <3>4. IsFiniteSet(u)
      BY <2>2, FS_Subset
    <3>5. Sub(u)[Less(u)] = Sub(Less(u))[Less(u)]
      <4> HIDE DEF Sub
      <4> QED BY <2>3, <3>3, <3>4, OneSum
    <3> QED BY <2>4, <2>5, <2>7, <3>5
  <2> QED BY <2>6, <2>7
<1>4. IsSum(F, g, T)
  <2>1. ASSUME NEW s \in SUBSET T
        PROVE  F[s] = IF s = {} THEN 0 ELSE g[Pick(s)] + F[s \ {Pick(s)}]
    <3>1. F[s] = IF s = {} THEN 0 ELSE g[Pick(s)] + Sub(Less(s))[Less(s)]
      OBVIOUS
    <3> HIDE DEF F, Sub
    <3> QED BY <3>1, <1>3
  <2> HIDE DEF F
  <2>2. F = [s \in SUBSET T |-> F[s]]
    BY DEF F
  <2> QED BY <2>1, <2>2 DEF IsSum
<1> QED BY <1>4

\* It is what SumFunctionOnSet folds with.
LEMMA SumIsSum ==
  ASSUME NEW g, NEW S, IsFiniteSet(S)
  PROVE  \E f : IsSum(f, g, S) /\ SumFunctionOnSet(g, S) = f[S]
<1> DEFINE f == CHOOSE f : IsSum(f, g, S)
<1>1. IsSum(f, g, S)
  BY SumExists
<1>2. SumFunctionOnSet(g, S) = f[S]
  BY DEF SumFunctionOnSet, FoldFunctionOnSet, MapThenFoldSet, IsSum, Pick
<1> QED BY <1>1, <1>2

\* The recursion of a sum.
LEMMA SumUnfolds ==
  ASSUME NEW g, NEW S, IsFiniteSet(S)
  PROVE  /\ SumFunctionOnSet(g, {}) = 0
         /\ S # {} => /\ Pick(S) \in S
                      /\ SumFunctionOnSet(g, S) = g[Pick(S)] + SumFunctionOnSet(g, S \ {Pick(S)})
<1>1. SumFunctionOnSet(g, {}) = 0
  <2>1. PICK f : IsSum(f, g, {}) /\ SumFunctionOnSet(g, {}) = f[{}]
    BY SumIsSum, FS_EmptySet
  <2> QED BY <2>1 DEF IsSum
<1>2. ASSUME S # {}
      PROVE  SumFunctionOnSet(g, S) = g[Pick(S)] + SumFunctionOnSet(g, S \ {Pick(S)})
  <2> DEFINE U == S \ {Pick(S)}
  <2>1. PICK f : IsSum(f, g, S) /\ SumFunctionOnSet(g, S) = f[S]
    BY SumIsSum
  <2>2. IsFiniteSet(U)
    BY FS_Subset
  <2>3. PICK e : IsSum(e, g, U) /\ SumFunctionOnSet(g, U) = e[U]
    BY <2>2, SumIsSum
  <2>4. e[U] = f[U]
    <3>1. \A s \in SUBSET U : s \subseteq S => e[s] = f[s]
      <4> HIDE DEF U
      <4> QED BY <2>1, <2>2, <2>3, OneSum
    <3> QED BY <3>1
  <2>5. f[S] = g[Pick(S)] + f[U]
    BY <1>2, <2>1 DEF IsSum
  <2> QED BY <2>1, <2>3, <2>4, <2>5
<1>3. S # {} => Pick(S) \in S
  BY DEF Pick
<1> QED BY <1>1, <1>2, <1>3

\* A sum of natural numbers is one.
LEMMA SumType ==
  ASSUME NEW S, IsFiniteSet(S), NEW g, \A x \in S : g[x] \in Nat
  PROVE  SumFunctionOnSet(g, S) \in Nat
<1> DEFINE Bad == {s \in SUBSET S : SumFunctionOnSet(g, s) \notin Nat}
<1> SUFFICES ASSUME Bad # {} PROVE FALSE
  OBVIOUS
<1>1. PICK s \in Bad : \A u \in Bad : u \subseteq s => u = s
  <2>1. Bad \in SUBSET SUBSET S
    OBVIOUS
  <2> HIDE DEF Bad
  <2> QED BY <2>1, MinimalSubset
<1>2. IsFiniteSet(s)
  BY FS_Subset
<1>3. s # {}
  <2>1. SumFunctionOnSet(g, s) \notin Nat
    OBVIOUS
  <2>2. SumFunctionOnSet(g, {}) = 0
    BY <1>2, SumUnfolds
  <2> QED BY <2>1, <2>2
<1>4. Pick(s) \in s /\ SumFunctionOnSet(g, s) = g[Pick(s)] + SumFunctionOnSet(g, s \ {Pick(s)})
  BY <1>2, <1>3, SumUnfolds
<1>5. SumFunctionOnSet(g, s \ {Pick(s)}) \in Nat
  BY <1>1, <1>4
<1> QED BY <1>4, <1>5

\* Any element may be taken out of a sum, not only the one that CHOOSE picks.
LEMMA SumWithout ==
  ASSUME NEW S, IsFiniteSet(S), NEW g, \A x \in S : g[x] \in Nat, NEW x \in S
  PROVE  SumFunctionOnSet(g, S) = g[x] + SumFunctionOnSet(g, S \ {x})
<1> DEFINE Bad == {s \in SUBSET S : \E y \in s :
                     SumFunctionOnSet(g, s) # g[y] + SumFunctionOnSet(g, s \ {y})}
<1> SUFFICES ASSUME Bad # {} PROVE FALSE
  BY SumType
<1>1. PICK s \in Bad : \A u \in Bad : u \subseteq s => u = s
  <2>1. Bad \in SUBSET SUBSET S
    OBVIOUS
  <2> HIDE DEF Bad
  <2> QED BY <2>1, MinimalSubset
<1>2. PICK y \in s : SumFunctionOnSet(g, s) # g[y] + SumFunctionOnSet(g, s \ {y})
  OBVIOUS
<1> DEFINE p == Pick(s)
           u == s \ {p}
<1>3. IsFiniteSet(s) /\ IsFiniteSet(u) /\ IsFiniteSet(s \ {y}) /\ IsFiniteSet(u \ {y})
  BY FS_Subset
<1>4. p \in s /\ SumFunctionOnSet(g, s) = g[p] + SumFunctionOnSet(g, u)
  BY <1>3, SumUnfolds
<1>5. p # y
  BY <1>2, <1>4
<1>6. SumFunctionOnSet(g, u) = g[y] + SumFunctionOnSet(g, u \ {y})
  <2>1. u \in SUBSET S /\ u \subseteq s /\ u # s /\ y \in u
    BY <1>4, <1>5
  <2>2. u \notin Bad
    BY <1>1, <2>1
  <2> QED BY <2>1, <2>2
<1>7. SumFunctionOnSet(g, s \ {y}) = g[p] + SumFunctionOnSet(g, u \ {y})
  <2>1. s \ {y} \in SUBSET S /\ s \ {y} \subseteq s /\ s \ {y} # s /\ p \in s \ {y}
    BY <1>4, <1>5
  <2>2. s \ {y} \notin Bad
    BY <1>1, <2>1
  <2>3. (s \ {y}) \ {p} = u \ {y}
    OBVIOUS
  <2> QED BY <2>1, <2>2, <2>3
<1>8. SumFunctionOnSet(g, u \ {y}) \in Nat
  BY <1>3, SumType
<1> HIDE DEF Bad, p, u
<1> QED
  <2>1. g[p] \in Nat /\ g[y] \in Nat
    BY <1>4, <1>2 DEF Bad
  <2> QED BY <1>2, <1>4, <1>6, <1>7, <1>8, <2>1

\* A sum depends on the function at the elements of the set only.
LEMMA SumEqual ==
  ASSUME NEW S, IsFiniteSet(S), NEW g, NEW h, \A x \in S : g[x] = h[x]
  PROVE  SumFunctionOnSet(g, S) = SumFunctionOnSet(h, S)
<1> DEFINE Bad == {s \in SUBSET S : SumFunctionOnSet(g, s) # SumFunctionOnSet(h, s)}
<1> SUFFICES ASSUME Bad # {} PROVE FALSE
  OBVIOUS
<1>1. PICK s \in Bad : \A u \in Bad : u \subseteq s => u = s
  <2>1. Bad \in SUBSET SUBSET S
    OBVIOUS
  <2> HIDE DEF Bad
  <2> QED BY <2>1, MinimalSubset
<1>2. IsFiniteSet(s)
  BY FS_Subset
<1>3. s # {}
  BY <1>2, SumUnfolds
<1>4. /\ Pick(s) \in s
      /\ SumFunctionOnSet(g, s) = g[Pick(s)] + SumFunctionOnSet(g, s \ {Pick(s)})
      /\ SumFunctionOnSet(h, s) = h[Pick(s)] + SumFunctionOnSet(h, s \ {Pick(s)})
  BY <1>2, <1>3, SumUnfolds
<1>5. SumFunctionOnSet(g, s \ {Pick(s)}) = SumFunctionOnSet(h, s \ {Pick(s)})
  BY <1>1, <1>4
<1> QED BY <1>4, <1>5

-----------------------------------------------------------------------------
(* The services that hide behind a hostname: the invariant.                *)

IsOpen(row) == row.status \notin {"added_to_registry", "dismissed"}

NoneOpen(rows, h) == \A c \in DOMAIN rows : rows[c].host = h => ~IsOpen(rows[c])

OneOpen(rows) ==
  \A b, c \in DOMAIN rows :
    IsOpen(rows[b]) /\ IsOpen(rows[c]) /\ rows[b].host = rows[c].host => b = c

Hides(row, h) == row.host = h /\ row.active /\ row.kind # "standard"

\* Of the detections but those that are active again.
OneHidden(table, again) ==
  \A d, e \in DOMAIN table \ again :
    Hides(table[d], table[e].host) /\ table[e].active /\ table[d].kind = table[e].kind => d = e

\* A link is to a zero-day detection of the host, and nobody else's.
LinksHold(rows, table) ==
  \A c \in DOMAIN rows : rows[c].link # 0 =>
    /\ rows[c].link \in DOMAIN table
    /\ table[rows[c].link].kind = "zero_day" /\ table[rows[c].link].host = rows[c].host
    /\ \A b \in DOMAIN rows : rows[b].link = rows[c].link => b = c

\* The active zero-day detections that nothing links to, but the one that is about to be
\* and those that are active again.
Abandoned(rows, table, again, underway) ==
  {d \in DOMAIN table \ again :
                        /\ table[d].kind = "zero_day" /\ table[d].active /\ d # underway
                        /\ \A c \in DOMAIN rows : rows[c].link # d}

Underway(i) == IF i.at = "link" THEN i.detection ELSE 0

CountOf(rows, h) ==
  SumFunctionOnSet([c \in DOMAIN rows |-> rows[c].count], {c \in DOMAIN rows : rows[c].host = h})

\* The events of the host that were stored while no signature matched it.
EventsOf(stored, h) == {e \in stored : e[1] = h /\ e[3] = "unmatched"}

\* The signal that the ingest has stored and not yet counted.
Uncounted(i, h) == IF i.host = h /\ i.at \in {"lookup", "upsert", "detect"} THEN 1 ELSE 0

\* What the ingest has read of its candidate is so still: it is the only one that counts,
\* and the row or its place in the index is locked before it writes.
ReadsHold(i, rows) ==
  /\ i.at \in {"upsert", "detect", "link"} /\ i.existing # 0 =>
       i.existing \in DOMAIN rows /\ rows[i.existing].host = i.host
  /\ i.at \in {"upsert", "detect"} /\ i.existing # 0 => i.seen = rows[i.existing].count
  /\ i.at = "detect" /\ i.existing = 0 => NoneOpen(rows, i.host)

\* The detection that is about to be linked is the only one that hides the host, if a
\* reviewer has not closed it, and nothing links to it.
LinkHolds(i, rows, table, again) ==
  i.at = "link" =>
    /\ i.existing # 0 /\ i.detection \in DOMAIN table
    /\ table[i.detection].kind = "zero_day" /\ table[i.detection].host = i.host
    /\ \A c \in DOMAIN rows : rows[c].link # i.detection
    /\ \A d \in DOMAIN table \ again : Hides(table[d], i.host) => d = i.detection

HasRoom(i, rows, table) ==
  /\ i.at \in {"lookup", "upsert", "detect"} =>
       Len(rows) < MaxCandidates /\ Len(table) + 1 < MaxDetections
  /\ i.at \in {"link", "dark"} => Len(table) < MaxDetections

ServicesInv ==
  /\ TypeOK /\ HasRoom(ingest, candidates, detections)
  /\ OneOpen(candidates) /\ OneHidden(detections, reopened)
  /\ LinksHold(candidates, detections)
  /\ ReadsHold(ingest, candidates) /\ LinkHolds(ingest, candidates, detections, reopened)
  /\ Cardinality(Abandoned(candidates, detections, reopened, Underway(ingest))) <= crashes
  /\ IsFiniteSet(events)
  /\ \A h \in Hosts :
       CountOf(candidates, h) + Uncounted(ingest, h) <= Cardinality(EventsOf(events, h)) + auditFailures

-----------------------------------------------------------------------------
(* The two tables.                                                         *)

\* A row of a table changes, and the others stay.
LEMMA RowChanged ==
  ASSUME NEW S, NEW rows \in Seq(S), NEW c \in DOMAIN rows, NEW row \in S,
         NEW new, new = [rows EXCEPT ![c] = row]
  PROVE  /\ new \in Seq(S) /\ Len(new) = Len(rows) /\ DOMAIN new = DOMAIN rows
         /\ \A b \in DOMAIN rows : new[b] = IF b = c THEN row ELSE rows[b]
OBVIOUS

\* A row is added to a table.
LEMMA RowAdded ==
  ASSUME NEW S, NEW rows \in Seq(S), NEW row \in S, NEW new, new = Append(rows, row)
  PROVE  /\ new \in Seq(S) /\ Len(new) = Len(rows) + 1 /\ Len(rows) \in Nat
         /\ DOMAIN rows = 1 .. Len(rows) /\ DOMAIN new = 1 .. Len(rows) + 1
         /\ DOMAIN new = DOMAIN rows \cup {Len(rows) + 1} /\ Len(rows) + 1 \notin DOMAIN rows
         /\ new[Len(rows) + 1] = row
         /\ \A b \in DOMAIN rows : new[b] = rows[b]
OBVIOUS

\* The places of a table are finitely many numbers from 1 on.
LEMMA Places ==
  ASSUME NEW S, NEW rows \in Seq(S)
  PROVE  /\ DOMAIN rows = 1 .. Len(rows) /\ Len(rows) \in Nat
         /\ DOMAIN rows \subseteq Nat \ {0}
         /\ \A T \in SUBSET DOMAIN rows : IsFiniteSet(T) /\ Cardinality(T) \in Nat
<1>1. DOMAIN rows = 1 .. Len(rows) /\ Len(rows) \in Nat
  OBVIOUS
<1>2. IsFiniteSet(DOMAIN rows)
  BY <1>1, FS_Interval
<1>3. \A T \in SUBSET DOMAIN rows : IsFiniteSet(T) /\ Cardinality(T) \in Nat
  BY <1>2, FS_Subset, FS_CardinalityType
<1> QED BY <1>1, <1>3

\* The places of the candidates of a host, whose counts are summed.
OfHost(rows, h) == {c \in DOMAIN rows : rows[c].host = h}
CountsOf(rows) == [c \in DOMAIN rows |-> rows[c].count]

\* The count of a host is a sum of natural numbers over a finite set.
LEMMA CountType ==
  ASSUME NEW rows \in Seq(Candidate), NEW h
  PROVE  /\ CountOf(rows, h) = SumFunctionOnSet(CountsOf(rows), OfHost(rows, h))
         /\ IsFiniteSet(OfHost(rows, h))
         /\ \A c \in OfHost(rows, h) : CountsOf(rows)[c] = rows[c].count /\ rows[c].count \in Nat
         /\ CountOf(rows, h) \in Nat
<1>1. CountOf(rows, h) = SumFunctionOnSet(CountsOf(rows), OfHost(rows, h))
  BY DEF CountOf, OfHost, CountsOf
<1>2. OfHost(rows, h) \in SUBSET DOMAIN rows
  BY DEF OfHost
<1>3. IsFiniteSet(OfHost(rows, h))
  BY <1>2, Places
<1>4. \A c \in OfHost(rows, h) : CountsOf(rows)[c] = rows[c].count /\ rows[c].count \in Nat
  <2>1. \A c \in DOMAIN rows : rows[c] \in Candidate
    OBVIOUS
  <2> QED BY <2>1 DEF OfHost, CountsOf, Candidate
<1>5. CountOf(rows, h) \in Nat
  BY <1>1, <1>3, <1>4, SumType
<1> QED BY <1>1, <1>3, <1>4, <1>5

\* What is changed of a candidate may leave its host's count as it is.
LEMMA CountKept ==
  ASSUME NEW rows \in Seq(Candidate), NEW new \in Seq(Candidate), DOMAIN new = DOMAIN rows,
         \A c \in DOMAIN rows : new[c].host = rows[c].host /\ new[c].count = rows[c].count,
         NEW h
  PROVE  CountOf(new, h) = CountOf(rows, h)
<1>1. OfHost(new, h) = OfHost(rows, h)
  BY DEF OfHost
<1>2. CountsOf(new) = CountsOf(rows)
  BY DEF CountsOf
<1> QED BY <1>1, <1>2, CountType

\* One more signal of a candidate is one more of its host.
LEMMA CountedAgain ==
  ASSUME NEW rows \in Seq(Candidate), NEW new \in Seq(Candidate), DOMAIN new = DOMAIN rows,
         NEW c \in DOMAIN rows, new[c].host = rows[c].host, new[c].count = rows[c].count + 1,
         \A b \in DOMAIN rows \ {c} : new[b] = rows[b], NEW h
  PROVE  CountOf(new, h) = CountOf(rows, h) + (IF rows[c].host = h THEN 1 ELSE 0)
<1> DEFINE S == OfHost(rows, h)
           g == CountsOf(rows)
           f == CountsOf(new)
<1>1. OfHost(new, h) = S
  BY DEF OfHost
<1>2. /\ CountOf(rows, h) = SumFunctionOnSet(g, S) /\ CountOf(new, h) = SumFunctionOnSet(f, S)
      /\ IsFiniteSet(S) /\ \A b \in S : g[b] \in Nat /\ f[b] \in Nat
      /\ CountOf(rows, h) \in Nat
  BY <1>1, CountType
<1>3. f[c] = g[c] + 1 /\ \A b \in S \ {c} : f[b] = g[b]
  BY DEF CountsOf, OfHost
<1>4. IsFiniteSet(S \ {c})
  BY <1>2, FS_Subset
<1>5. CASE c \in S
  <2>1. rows[c].host = h
    BY <1>5 DEF OfHost
  <2> HIDE DEF S, f, g
  <2>2. SumFunctionOnSet(f, S \ {c}) = SumFunctionOnSet(g, S \ {c})
    BY <1>3, <1>4, SumEqual
  <2>3. /\ SumFunctionOnSet(f, S) = f[c] + SumFunctionOnSet(f, S \ {c})
        /\ SumFunctionOnSet(g, S) = g[c] + SumFunctionOnSet(g, S \ {c})
    BY <1>2, <1>5, SumWithout
  <2>4. SumFunctionOnSet(g, S \ {c}) \in Nat /\ g[c] \in Nat
    BY <1>2, <1>4, <1>5, SumType
  <2> QED BY <1>2, <1>3, <2>1, <2>2, <2>3, <2>4
<1>6. CASE c \notin S
  <2>1. rows[c].host # h
    BY <1>6 DEF OfHost
  <2>2. \A b \in S : f[b] = g[b]
    BY <1>3, <1>6
  <2> HIDE DEF S, f, g
  <2>3. SumFunctionOnSet(f, S) = SumFunctionOnSet(g, S)
    BY <1>2, <2>2, SumEqual
  <2> QED BY <1>2, <2>1, <2>3
<1> QED BY <1>5, <1>6

\* So is the first signal of a new candidate.
LEMMA CountedFirst ==
  ASSUME NEW rows \in Seq(Candidate), NEW row \in Candidate, row.count = 1,
         NEW h
  PROVE  CountOf(Append(rows, row), h) = CountOf(rows, h) + (IF row.host = h THEN 1 ELSE 0)
<1> DEFINE new == Append(rows, row)
           n == Len(rows) + 1
           S == OfHost(rows, h)
           T == OfHost(new, h)
           g == CountsOf(rows)
           f == CountsOf(new)
<1>1. /\ new \in Seq(Candidate) /\ DOMAIN new = DOMAIN rows \cup {n} /\ n \notin DOMAIN rows
      /\ new[n] = row /\ \A b \in DOMAIN rows : new[b] = rows[b]
  BY RowAdded
<1> SUFFICES CountOf(new, h) = CountOf(rows, h) + (IF row.host = h THEN 1 ELSE 0)
  OBVIOUS
<1> HIDE DEF new
<1>2. /\ CountOf(rows, h) = SumFunctionOnSet(g, S) /\ CountOf(new, h) = SumFunctionOnSet(f, T)
      /\ IsFiniteSet(S) /\ IsFiniteSet(T) /\ \A b \in T : f[b] \in Nat
      /\ CountOf(rows, h) \in Nat
  BY <1>1, CountType
<1>3. f[n] = 1 /\ \A b \in S : f[b] = g[b]
  BY <1>1 DEF CountsOf, OfHost
<1>4. T = S \cup (IF row.host = h THEN {n} ELSE {}) /\ n \notin S
  BY <1>1 DEF OfHost
<1> HIDE DEF n, S, T, f, g
<1>5. SumFunctionOnSet(f, S) = SumFunctionOnSet(g, S)
  BY <1>2, <1>3, SumEqual
<1>6. CASE row.host = h
  <2>1. T \ {n} = S /\ n \in T
    BY <1>4, <1>6
  <2>2. SumFunctionOnSet(f, T) = f[n] + SumFunctionOnSet(f, S)
    BY <1>2, <2>1, SumWithout
  <2> QED BY <1>2, <1>3, <1>5, <1>6, <2>2
<1>7. CASE row.host # h
  BY <1>2, <1>4, <1>5, <1>7
<1> QED BY <1>6, <1>7

\* A new event of a host is one more of them, if no signature matched.
LEMMA EventAdded ==
  ASSUME NEW stored, IsFiniteSet(stored), NEW h, NEW d, NEW m,
         <<h, d, m>> \notin stored, NEW g
  PROVE  /\ IsFiniteSet(stored \cup {<<h, d, m>>})
         /\ Cardinality(EventsOf(stored, g)) \in Nat
         /\ Cardinality(EventsOf(stored \cup {<<h, d, m>>}, g)) =
              Cardinality(EventsOf(stored, g)) + (IF g = h /\ m = "unmatched" THEN 1 ELSE 0)
<1>1. EventsOf(stored, g) \in SUBSET stored
  BY DEF EventsOf
<1>2. IsFiniteSet(EventsOf(stored, g)) /\ Cardinality(EventsOf(stored, g)) \in Nat
  BY <1>1, FS_Subset, FS_CardinalityType
<1>3. IsFiniteSet(stored \cup {<<h, d, m>>})
  BY FS_AddElement
<1>4. CASE g = h /\ m = "unmatched"
  <2>1. EventsOf(stored \cup {<<h, d, m>>}, g) = EventsOf(stored, g) \cup {<<h, d, m>>}
    BY <1>4 DEF EventsOf
  <2>2. <<h, d, m>> \notin EventsOf(stored, g)
    BY <1>1
  <2> QED BY <1>2, <1>3, <1>4, <2>1, <2>2, FS_AddElement
<1>5. CASE ~(g = h /\ m = "unmatched")
  <2>1. EventsOf(stored \cup {<<h, d, m>>}, g) = EventsOf(stored, g)
    BY <1>5 DEF EventsOf
  <2> QED BY <1>2, <1>3, <1>5, <2>1
<1> QED BY <1>4, <1>5

-----------------------------------------------------------------------------
(* The steps.                                                              *)

\* What the invariant says of an ingest that is over, or about to look for a dark service.
LEMMA QuietStep ==
  ASSUME ServicesInv, TypeOK', OneOpen(candidates'), OneHidden(detections', reopened'),
         LinksHold(candidates', detections'), IsFiniteSet(events'),
         ingest'.at \in {"idle", "dark"}, ingest'.at = "dark" => Len(detections') < MaxDetections,
         Cardinality(Abandoned(candidates', detections', reopened', 0)) <= crashes',
         \A h \in Hosts :
           CountOf(candidates', h) <= Cardinality(EventsOf(events', h)) + auditFailures'
  PROVE  ServicesInv'
<1>1. HasRoom(ingest', candidates', detections')
  BY DEF HasRoom
<1>2. ReadsHold(ingest', candidates') /\ LinkHolds(ingest', candidates', detections', reopened')
  BY DEF ReadsHold, LinkHolds
<1>3. Underway(ingest') = 0
  BY DEF Underway
<1>4. \A h \in Hosts : Uncounted(ingest', h) = 0
  BY DEF Uncounted
<1>5. \A h \in Hosts : CountOf(candidates', h) \in Nat
  BY CountType DEF TypeOK
<1> QED BY <1>1, <1>2, <1>3, <1>4, <1>5 DEF ServicesInv

\* The types, and the finite sets whose elements are counted.
LEMMA Types ==
  ASSUME ServicesInv
  PROVE  /\ candidates \in Seq(Candidate) /\ detections \in Seq(Detection) /\ ingest \in Ingest
         /\ \A c \in DOMAIN candidates : candidates[c] \in Candidate
         /\ \A d \in DOMAIN detections : detections[d] \in Detection
         /\ DOMAIN candidates = 1 .. Len(candidates) /\ Len(candidates) \in Nat
         /\ DOMAIN detections = 1 .. Len(detections) /\ Len(detections) \in Nat
         /\ auditFailures \in Nat /\ crashes \in Nat
         /\ \A h : CountOf(candidates, h) \in Nat
         /\ \A h : Cardinality(EventsOf(events, h)) \in Nat
<1>1. candidates \in Seq(Candidate) /\ detections \in Seq(Detection) /\ ingest \in Ingest
  BY DEF ServicesInv, TypeOK
<1>2. auditFailures \in Nat /\ crashes \in Nat
  BY ServicesAssumption DEF ServicesInv, TypeOK
<1>3. \A h : CountOf(candidates, h) \in Nat
  BY <1>1, CountType
<1>4. \A h : Cardinality(EventsOf(events, h)) \in Nat
  <2>1. \A h : EventsOf(events, h) \in SUBSET events
    BY DEF EventsOf
  <2>2. IsFiniteSet(events)
    BY DEF ServicesInv
  <2> QED BY <2>1, <2>2, FS_Subset, FS_CardinalityType
<1> QED BY <1>1, <1>2, <1>3, <1>4

\* Idle is an ingest.
LEMMA IdleType == Idle \in Ingest /\ Idle.at = "idle"
<1>1. (CHOOSE h \in Hosts : TRUE) \in Hosts /\ (CHOOSE d \in Days : TRUE) \in Days
  BY ServicesAssumption
<1> QED BY <1>1 DEF Idle, Ingest

\* Continues leads to the end of the ingest or to the dark AI classifier.
LEMMA ContinuesTo ==
  ASSUME NEW i, i.dark \in BOOLEAN, i.host \in Hosts, i.day \in Days, i.signed \in BOOLEAN,
         answer \in {"none", "accepted", "failed"}, Continues(i)
  PROVE  /\ ingest' \in Ingest /\ ingest'.at \in {"idle", "dark"}
         /\ answer' \in {"none", "accepted", "failed"}
<1>1. CASE i.dark
  <2>1. /\ ingest' = [Idle EXCEPT !.at = "dark", !.host = i.host, !.day = i.day,
                                  !.dark = TRUE, !.signed = i.signed]
        /\ answer' = answer
    BY <1>1 DEF Continues
  <2> QED BY <2>1, IdleType DEF Ingest
<1>2. CASE ~i.dark
  <2>1. ingest' = Idle /\ answer' = "accepted"
    BY <1>2 DEF Continues, Ends
  <2> QED BY <2>1, IdleType
<1> QED BY <1>1, <1>2

\* The ingest ends, or goes on to the dark AI classifier, and changes no table.
LEMMA LeaveStep ==
  ASSUME ServicesInv, UNCHANGED <<events, registry, candidates, detections, reopened>>,
         ingest' \in Ingest, ingest'.at \in {"idle", "dark"},
         ingest'.at = "dark" => ingest.at # "idle",
         answer' \in {"none", "accepted", "failed"},
         auditFailures' \in 0 .. MaxAuditFailures, auditFailures <= auditFailures',
         crashes' \in 0 .. MaxCrashes, crashes <= crashes',
         ingest.at = "link" => crashes' = crashes + 1
  PROVE  ServicesInv'
<1>1. TypeOK'
  BY DEF ServicesInv, TypeOK
<1>2. OneOpen(candidates') /\ OneHidden(detections', reopened') /\ LinksHold(candidates', detections')
      /\ IsFiniteSet(events')
  BY DEF ServicesInv
<1>3. ingest'.at = "dark" => Len(detections') < MaxDetections
  <2>1. ingest.at \in {"idle", "lookup", "upsert", "detect", "link", "dark"}
    BY Types DEF Ingest
  <2> QED BY <2>1, Types, ServicesAssumption DEF ServicesInv, HasRoom
<1>4. Cardinality(Abandoned(candidates', detections', reopened', 0)) <= crashes'
  <2> DEFINE A == Abandoned(candidates, detections, reopened, Underway(ingest))
             B == Abandoned(candidates, detections, reopened, 0)
  <2>1. A \in SUBSET DOMAIN detections /\ B \in SUBSET DOMAIN detections
    BY DEF Abandoned
  <2>2. IsFiniteSet(A) /\ IsFiniteSet(B) /\ Cardinality(A) \in Nat /\ Cardinality(B) \in Nat
    BY <2>1, Types, Places
  <2>3. CASE ingest.at # "link"
    BY <2>3, <2>2, Types, ServicesAssumption DEF Underway, ServicesInv
  <2>4. CASE ingest.at = "link"
    <3>1. B \subseteq A \cup {ingest.detection}
      BY <2>4 DEF Abandoned, Underway
    <3>2. IsFiniteSet(A \cup {ingest.detection})
          /\ Cardinality(A \cup {ingest.detection}) <= Cardinality(A) + 1
          /\ Cardinality(A \cup {ingest.detection}) \in Nat
      <4> HIDE DEF A
      <4> QED BY <2>2, FS_AddElement, FS_CardinalityType
    <3>3. Cardinality(B) <= Cardinality(A) + 1
      BY <3>1, <3>2, <2>2, FS_Subset
    <3>4. Cardinality(A) <= crashes
      BY DEF ServicesInv
    <3> QED BY <3>3, <3>4, <2>2, <2>4, Types
  <2> QED BY <2>3, <2>4
<1>5. ASSUME NEW h \in Hosts
      PROVE  CountOf(candidates', h) <= Cardinality(EventsOf(events', h)) + auditFailures'
  <2>1. CountOf(candidates, h) + Uncounted(ingest, h) <= Cardinality(EventsOf(events, h)) + auditFailures
    BY DEF ServicesInv
  <2>2. Uncounted(ingest, h) \in {0, 1} /\ auditFailures' \in Nat
    BY ServicesAssumption DEF Uncounted
  <2> QED BY <2>1, <2>2, Types
<1> QED BY <1>1, <1>2, <1>3, <1>4, <1>5, QuietStep

\* Links stay links when rows are added, closed or reviewed.
LEMMA LinksStay ==
  ASSUME NEW rows, NEW new, NEW table, NEW changed, LinksHold(rows, table),
         \A b \in DOMAIN new : new[b].link # 0 =>
           b \in DOMAIN rows /\ new[b].link = rows[b].link /\ new[b].host = rows[b].host,
         \A d \in DOMAIN table :
           d \in DOMAIN changed /\ changed[d].kind = table[d].kind /\ changed[d].host = table[d].host
  PROVE  LinksHold(new, changed)
BY DEF LinksHold

\* No link is lost and no detection is added but the one under way: none is abandoned.
LEMMA NoneAbandoned ==
  ASSUME ServicesInv, NEW new, NEW changed, NEW again, reopened \subseteq again, NEW underway,
         \A b \in DOMAIN candidates : b \in DOMAIN new /\ new[b].link = candidates[b].link,
         \A d \in DOMAIN changed \ again :
           changed[d].kind = "zero_day" /\ changed[d].active /\ d # underway =>
             /\ d \in DOMAIN detections /\ d # Underway(ingest)
             /\ detections[d].kind = "zero_day" /\ detections[d].active
  PROVE  Cardinality(Abandoned(new, changed, again, underway)) <= crashes
<1> DEFINE A == Abandoned(candidates, detections, reopened, Underway(ingest))
           B == Abandoned(new, changed, again, underway)
<1>1. B \subseteq A
  BY DEF Abandoned
<1>2. A \in SUBSET DOMAIN detections
  BY DEF Abandoned
<1>3. IsFiniteSet(A) /\ Cardinality(A) \in Nat
  BY <1>2, Types, Places
<1>4. Cardinality(A) <= crashes
  BY DEF ServicesInv
<1> HIDE DEF A, B
<1>5. Cardinality(B) <= Cardinality(A) /\ IsFiniteSet(B)
  BY <1>1, <1>3, FS_Subset
<1>6. Cardinality(B) \in Nat
  BY <1>5, FS_CardinalityType
<1>7. Cardinality(B) <= crashes
  BY <1>3, <1>4, <1>5, <1>6, Types
<1> QED BY <1>7 DEF B

\* A candidate is written as the ingest that holds it writes it: counted once more, and
\* otherwise as it has become since the lookup; or it is new, and the only open one.
LEMMA WrittenByIngest ==
  ASSUME ServicesInv, ingest.at = "detect", candidates' = Upserted
  PROVE  /\ candidates' \in Seq(Candidate) /\ Len(candidates') <= MaxCandidates
         /\ \A b \in DOMAIN candidates :
              /\ b \in DOMAIN candidates' /\ candidates'[b].link = candidates[b].link
              /\ candidates'[b].host = candidates[b].host /\ candidates'[b].status = candidates[b].status
         /\ \A b \in DOMAIN candidates' \ DOMAIN candidates :
              /\ b = Len(candidates) + 1 /\ ingest.existing = 0
              /\ candidates'[b].link = 0 /\ candidates'[b].host = ingest.host
         /\ ingest.existing = 0 => Len(candidates) + 1 \in DOMAIN candidates'
         /\ OneOpen(candidates')
         /\ \A h : CountOf(candidates', h) = CountOf(candidates, h) + Uncounted(ingest, h)
<1>1. ReadsHold(ingest, candidates) /\ HasRoom(ingest, candidates, detections) /\ OneOpen(candidates)
  BY DEF ServicesInv
<1>2. CASE ingest.existing # 0
  <2> DEFINE c == ingest.existing
             row == [candidates[c] EXCEPT !.count = ingest.seen + 1]
  <2>1. c \in DOMAIN candidates /\ candidates[c].host = ingest.host /\ ingest.seen = candidates[c].count
    BY <1>1, <1>2 DEF ReadsHold
  <2>2. row \in Candidate /\ row.count = candidates[c].count + 1 /\ row.host = candidates[c].host
        /\ row.status = candidates[c].status /\ row.link = candidates[c].link
    <3>1. candidates[c] \in Candidate
      BY <2>1, Types
    <3> QED BY <2>1, <3>1 DEF Candidate
  <2>3. candidates' = [candidates EXCEPT ![c] = row]
    BY <1>2 DEF Upserted
  <2> HIDE DEF row
  <2>4. /\ candidates' \in Seq(Candidate) /\ Len(candidates') = Len(candidates)
        /\ DOMAIN candidates' = DOMAIN candidates
        /\ \A b \in DOMAIN candidates : candidates'[b] = IF b = c THEN row ELSE candidates[b]
    BY <2>1, <2>2, <2>3, Types, RowChanged
  <2>5. OneOpen(candidates')
    BY <1>1, <2>2, <2>4 DEF OneOpen, IsOpen
  <2>6. \A h : CountOf(candidates', h) = CountOf(candidates, h) + Uncounted(ingest, h)
    <3>1. candidates'[c].host = candidates[c].host /\ candidates'[c].count = candidates[c].count + 1
          /\ \A b \in DOMAIN candidates \ {c} : candidates'[b] = candidates[b]
      BY <2>1, <2>2, <2>4
    <3>2. \A h : CountOf(candidates', h) = CountOf(candidates, h) + (IF candidates[c].host = h THEN 1 ELSE 0)
      BY <2>1, <2>4, <3>1, Types, CountedAgain
    <3> QED BY <2>1, <3>2 DEF Uncounted
  <2>7. Len(candidates') <= MaxCandidates
    BY <2>4 DEF ServicesInv, TypeOK
  <2> QED BY <1>2, <2>2, <2>4, <2>5, <2>6, <2>7
<1>3. CASE ingest.existing = 0
  <2> DEFINE row == [host |-> ingest.host, status |-> "pending_review", count |-> 1, link |-> 0]
  <2>1. row \in Candidate /\ row.count = 1 /\ row.host = ingest.host /\ row.link = 0
    BY Types DEF Candidate, Ingest
  <2>2. candidates' = Append(candidates, row)
    BY <1>3 DEF Upserted
  <2> HIDE DEF row
  <2>3. /\ candidates' \in Seq(Candidate) /\ Len(candidates') = Len(candidates) + 1
        /\ DOMAIN candidates' = DOMAIN candidates \cup {Len(candidates) + 1}
        /\ Len(candidates) + 1 \notin DOMAIN candidates /\ candidates'[Len(candidates) + 1] = row
        /\ \A b \in DOMAIN candidates : candidates'[b] = candidates[b]
    BY <2>1, <2>2, Types, RowAdded
  <2>4. NoneOpen(candidates, ingest.host)
    BY <1>1, <1>3 DEF ReadsHold
  <2>5. OneOpen(candidates')
    BY <1>1, <2>1, <2>3, <2>4 DEF OneOpen, NoneOpen
  <2>6. \A h : CountOf(candidates', h) = CountOf(candidates, h) + (IF ingest.host = h THEN 1 ELSE 0)
    <3>1. candidates \in Seq(Candidate)
      BY Types
    <3>2. \A h : CountOf(candidates', h) = CountOf(candidates, h) + (IF row.host = h THEN 1 ELSE 0)
      <4> TAKE h
      <4>1. row \in Candidate /\ row.count = 1
        BY <2>1
      <4> QED BY ONLY <2>2, <3>1, <4>1, CountedFirst
    <3> QED BY <2>1, <3>2
  <2>7. Len(candidates') <= MaxCandidates
    BY <1>1, <2>3, Types, ServicesAssumption DEF HasRoom
  <2> QED BY <1>3, <2>1, <2>3, <2>5, <2>6, <2>7 DEF Uncounted
<1> QED BY <1>2, <1>3

\* The event of a signal is stored, or the failure of its audit entry is counted.
LEMMA EventStored ==
  ASSUME ServicesInv, NEW h \in Hosts, NEW d \in Days, Hashed(h, d) \notin events, Stored(h, d)
  PROVE  /\ IsFiniteSet(events') /\ events' \in SUBSET (Hosts \X Days \X Matches)
         /\ auditFailures' \in 0 .. MaxAuditFailures
         /\ \A g \in Hosts :
              Cardinality(EventsOf(events, g)) + auditFailures + (IF g = h /\ h \notin registry THEN 1 ELSE 0)
                <= Cardinality(EventsOf(events', g)) + auditFailures'
<1>1. /\ IsFiniteSet(events) /\ events \in SUBSET (Hosts \X Days \X Matches)
      /\ auditFailures \in 0 .. MaxAuditFailures /\ MaxAuditFailures \in Nat
  BY ServicesAssumption DEF ServicesInv, TypeOK
<1>m. PICK m : m = IF h \in registry THEN "signature" ELSE "unmatched"
  OBVIOUS
<1>2. CASE events' = events \cup {<<h, d, m>>} /\ auditFailures' = auditFailures
  <2>1. <<h, d, m>> \notin events /\ m \in Matches /\ (m = "unmatched" <=> h \notin registry)
    BY <1>m DEF Hashed, Matches
  <2>2. /\ IsFiniteSet(events')
        /\ \A g : /\ Cardinality(EventsOf(events, g)) \in Nat
                  /\ Cardinality(EventsOf(events', g)) =
                       Cardinality(EventsOf(events, g)) + (IF g = h /\ m = "unmatched" THEN 1 ELSE 0)
    BY <1>1, <1>2, <2>1, EventAdded
  <2>3. events' \in SUBSET (Hosts \X Days \X Matches)
    <3>1. <<h, d, m>> \in Hosts \X Days \X Matches
      BY <2>1, Stored(h, d), d \in Days
    <3> QED BY ONLY <1>1, <1>2, <3>1
  <2>4. auditFailures' \in 0 .. MaxAuditFailures /\ auditFailures \in Nat
    BY ONLY <1>1, <1>2
  <2>5. ASSUME NEW g \in Hosts
        PROVE  Cardinality(EventsOf(events, g)) + auditFailures + (IF g = h /\ h \notin registry THEN 1 ELSE 0)
                 <= Cardinality(EventsOf(events', g)) + auditFailures'
    <3>1. (g = h /\ h \notin registry) <=> (g = h /\ m = "unmatched")
      BY ONLY <2>1
    <3>2. /\ Cardinality(EventsOf(events, g)) \in Nat
          /\ Cardinality(EventsOf(events', g)) =
               Cardinality(EventsOf(events, g)) + (IF g = h /\ m = "unmatched" THEN 1 ELSE 0)
      BY ONLY <2>2
    <3> QED BY ONLY <1>2, <2>4, <3>1, <3>2
  <2> QED BY ONLY <2>2, <2>3, <2>4, <2>5
<1>3. CASE AuditFails /\ events' = events
  BY <1>1, <1>3, Types DEF AuditFails
<1> QED BY <1>2, <1>3, <1>m DEF Stored, Hashed

\* What a signal is classified as, and the ingest that it leads to.
LEMMA ClassifiedType ==
  ASSUME NEW h \in Hosts, NEW d \in Days, NEW matched \in BOOLEAN, NEW c \in Classifications(h, matched)
  PROVE  LET i == Classified(h, d, c)
         IN i \in Ingest /\ i.at = "lookup" /\ i.host = h /\ i.day = d /\ i.dark = c.dark
<1>1. PICK signal \in Signals : c = Classification(h, signal, matched)
  BY DEF Classifications
<1>2. c.dark \in BOOLEAN
  BY <1>1 DEF Classification, IsDark
<1> QED BY <1>2, IdleType DEF Classified, Ingest

\* A new signal for a host without a signature.
LEMMA IngestUnknownInv ==
  ASSUME ServicesInv, NEW h \in Hosts, NEW d \in Days, NEW c \in Classifications(h, FALSE),
         IngestUnknown(h, d, c)
  PROVE  ServicesInv'
<1> DEFINE i == Classified(h, d, c)
<1>1. /\ ingest.at = "idle" /\ Hashed(h, d) \notin events /\ Room /\ Stored(h, d)
      /\ candidates' = candidates /\ detections' = detections /\ registry' = registry
      /\ reopened' = reopened /\ crashes' = crashes /\ h \notin registry
  BY DEF IngestUnknown
<1>2. i \in Ingest /\ i.at = "lookup" /\ i.host = h /\ i.day = d /\ i.dark = c.dark
  BY ClassifiedType
<1>3. \/ c.zeroDay /\ ingest' = i /\ answer' = answer
      \/ ~c.zeroDay /\ Continues(i)
  BY DEF IngestUnknown
<1> HIDE DEF i
<1>4. /\ ingest' \in Ingest /\ answer' \in {"none", "accepted", "failed"}
      /\ ingest'.at \in {"idle", "dark"} \/ ingest' = i
  <2>1. answer \in {"none", "accepted", "failed"}
    BY DEF ServicesInv, TypeOK
  <2>2. i.dark \in BOOLEAN /\ i.signed \in BOOLEAN /\ i.host \in Hosts /\ i.day \in Days
    BY <1>2 DEF Ingest
  <2> QED BY <1>2, <1>3, <2>1, <2>2, ContinuesTo
<1>5. /\ IsFiniteSet(events') /\ events' \in SUBSET (Hosts \X Days \X Matches)
      /\ auditFailures' \in 0 .. MaxAuditFailures
      /\ \A g \in Hosts :
           Cardinality(EventsOf(events, g)) + auditFailures + (IF g = h /\ h \notin registry THEN 1 ELSE 0)
             <= Cardinality(EventsOf(events', g)) + auditFailures'
  BY <1>1, EventStored
<1>6. TypeOK'
  BY <1>1, <1>4, <1>5 DEF ServicesInv, TypeOK
<1>7. OneOpen(candidates') /\ OneHidden(detections', reopened') /\ LinksHold(candidates', detections')
  BY <1>1 DEF ServicesInv
<1>8. Cardinality(Abandoned(candidates', detections', reopened', 0)) <= crashes'
  BY <1>1 DEF ServicesInv, Underway
<1>9. ASSUME NEW g \in Hosts
      PROVE  CountOf(candidates', g) + (IF g = h THEN 1 ELSE 0)
               <= Cardinality(EventsOf(events', g)) + auditFailures'
  <2>1. CountOf(candidates, g) + Uncounted(ingest, g) <= Cardinality(EventsOf(events, g)) + auditFailures
        /\ Uncounted(ingest, g) = 0
    BY <1>1 DEF ServicesInv, Uncounted
  <2>2. Cardinality(EventsOf(events', g)) \in Nat
    <3>1. EventsOf(events', g) \in SUBSET events'
      BY DEF EventsOf
    <3> QED BY <1>5, <3>1, FS_Subset, FS_CardinalityType
  <2>3. auditFailures' \in Nat
    BY <1>5, ServicesAssumption
  <2>4. Cardinality(EventsOf(events, g)) + auditFailures + (IF g = h /\ h \notin registry THEN 1 ELSE 0)
             <= Cardinality(EventsOf(events', g)) + auditFailures'
    BY <1>5
  <2>5. CountOf(candidates, g) \in Nat /\ Cardinality(EventsOf(events, g)) \in Nat /\ auditFailures \in Nat
    BY Types
  <2> QED BY <1>1, <2>1, <2>2, <2>3, <2>4, <2>5
<1>10. CASE ingest' = i
  <2>1. HasRoom(ingest', candidates', detections')
    BY <1>1, <1>2, <1>10 DEF HasRoom, Room
  <2>2. ReadsHold(ingest', candidates') /\ LinkHolds(ingest', candidates', detections', reopened')
    BY <1>2, <1>10 DEF ReadsHold, LinkHolds
  <2>3. Underway(ingest') = 0 /\ \A g \in Hosts : Uncounted(ingest', g) = IF g = h THEN 1 ELSE 0
    BY <1>2, <1>10 DEF Underway, Uncounted
  <2> QED BY <1>5, <1>6, <1>7, <1>8, <1>9, <2>1, <2>2, <2>3 DEF ServicesInv
<1>11. CASE ingest'.at \in {"idle", "dark"}
  <2>1. Len(detections') < MaxDetections
    BY <1>1, Types, ServicesAssumption DEF Room
  <2>2. \A g \in Hosts : CountOf(candidates', g) <= Cardinality(EventsOf(events', g)) + auditFailures'
    <3> TAKE g \in Hosts
    <3>1. CountOf(candidates', g) \in Nat
      BY <1>1, Types
    <3>2. Cardinality(EventsOf(events', g)) \in Nat /\ auditFailures' \in Nat
      <4>1. EventsOf(events', g) \in SUBSET events'
        BY DEF EventsOf
      <4> QED BY <1>5, <4>1, FS_Subset, FS_CardinalityType, ServicesAssumption
    <3> QED BY <1>9, <3>1, <3>2
  <2> QED BY <1>5, <1>6, <1>7, <1>8, <1>11, <2>1, <2>2, QuietStep
<1> QED BY <1>4, <1>10, <1>11

\* The ingest goes on to the upsert or to the detection, and changes no table.
LEMMA GoOnStep ==
  ASSUME ServicesInv, UNCHANGED <<events, registry, candidates, detections, reopened, answer, auditFailures, crashes>>,
         ingest.at \in {"lookup", "upsert"}, ingest' \in Ingest, ingest'.at \in {"upsert", "detect"},
         ingest'.host = ingest.host, ReadsHold(ingest', candidates)
  PROVE  ServicesInv'
<1>1. TypeOK'
  BY DEF ServicesInv, TypeOK
<1>2. HasRoom(ingest', candidates', detections')
  BY DEF ServicesInv, HasRoom
<1>3. LinkHolds(ingest', candidates', detections', reopened')
  BY DEF LinkHolds
<1>4. Underway(ingest') = Underway(ingest) /\ \A h \in Hosts : Uncounted(ingest', h) = Uncounted(ingest, h)
  BY DEF Underway, Uncounted
<1> QED BY <1>1, <1>2, <1>3, <1>4 DEF ServicesInv

\* A candidate that is open is one of the open candidates of its host.
LEMMA OpenRows == \A h : OpenCandidates(h) = {c \in DOMAIN candidates : candidates[c].host = h /\ IsOpen(candidates[c])}
BY DEF OpenCandidates, Open, IsOpen

\* The lookup reads what no other ingest can change.
LEMMA LookupInv == ServicesInv /\ Lookup => ServicesInv'
<1> SUFFICES ASSUME ServicesInv, Lookup PROVE ServicesInv'
  OBVIOUS
<1> DEFINE pending == {c \in OpenCandidates(ingest.host) : candidates[c].status = "pending_review"}
           found == CHOOSE c \in pending : TRUE
<1>1. CASE pending = {}
  <2>1. ingest' = [ingest EXCEPT !.at = "upsert", !.existing = 0, !.seen = 0]
    BY <1>1 DEF Lookup
  <2>2. ingest' \in Ingest /\ ingest'.at = "upsert" /\ ingest'.existing = 0 /\ ingest'.host = ingest.host
    BY <2>1, Types DEF Ingest
  <2>3. ReadsHold(ingest', candidates)
    BY <2>2 DEF ReadsHold
  <2> QED BY <2>2, <2>3, GoOnStep DEF Lookup
<1>2. CASE pending # {}
  <2>1. found \in pending
    BY <1>2
  <2>2. ingest' = [ingest EXCEPT !.at = "upsert", !.existing = found, !.seen = candidates[found].count]
    BY <1>2 DEF Lookup
  <2>3. found \in DOMAIN candidates /\ candidates[found].host = ingest.host
    BY <2>1, OpenRows
  <2> HIDE DEF found
  <2>4. found \in Nat /\ candidates[found].count \in Nat
    BY <2>3, Types DEF Candidate
  <2>5. /\ ingest' \in Ingest /\ ingest'.at = "upsert" /\ ingest'.existing = found
        /\ ingest'.seen = candidates[found].count /\ ingest'.host = ingest.host
    BY <2>2, <2>4, Types DEF Ingest
  <2>6. ReadsHold(ingest', candidates)
    BY <2>3, <2>5 DEF ReadsHold
  <2> QED BY <2>5, <2>6, GoOnStep DEF Lookup
<1> QED BY <1>1, <1>2

\* The flush takes the row, or the place of the host in the unique index.
LEMMA UpsertInv == ServicesInv /\ Upsert => ServicesInv'
<1> SUFFICES ASSUME ServicesInv, Upsert PROVE ServicesInv'
  OBVIOUS
<1>1. /\ ingest.at = "upsert"
      /\ UNCHANGED <<events, registry, candidates, detections, reopened, auditFailures, crashes>>
  BY DEF Upsert
<1>2. CASE Ends("failed")
  <2>1. ingest' = Idle /\ answer' = "failed"
    BY <1>2 DEF Ends
  <2>2. auditFailures \in 0 .. MaxAuditFailures /\ crashes \in 0 .. MaxCrashes
    BY DEF ServicesInv, TypeOK
  <2> QED BY <1>1, <2>1, <2>2, IdleType, Types, LeaveStep
<1>3. CASE /\ ingest.existing # 0 \/ OpenCandidates(ingest.host) = {}
           /\ ingest' = [ingest EXCEPT !.at = "detect"] /\ answer' = answer
  <2>1. /\ ingest' \in Ingest /\ ingest'.at = "detect" /\ ingest'.existing = ingest.existing
        /\ ingest'.host = ingest.host /\ ingest'.seen = ingest.seen
    BY <1>3, Types DEF Ingest
  <2>2. ReadsHold(ingest, candidates)
    BY DEF ServicesInv
  <2>3. ingest.existing = 0 => NoneOpen(candidates, ingest.host)
    BY <1>3, OpenRows DEF NoneOpen
  <2>4. ReadsHold(ingest', candidates)
    BY <1>1, <2>1, <2>2, <2>3 DEF ReadsHold
  <2> QED BY <1>1, <1>3, <2>1, <2>4, GoOnStep
<1> QED BY <1>2, <1>3 DEF Upsert

\* The signal of a stored event, and every other ingest that ends with no table changed.
LEMMA LeaveInv ==
  ASSUME ServicesInv,
         \/ \E h \in Hosts, d \in Days : Duplicate(h, d)
         \/ DetectFails \/ DetectRolledBack \/ DarkSkips \/ DarkConflicts \/ DarkRolledBack \/ Crash
  PROVE  ServicesInv'
<1>1. /\ answer \in {"none", "accepted", "failed"} /\ auditFailures \in 0 .. MaxAuditFailures
      /\ crashes \in 0 .. MaxCrashes /\ MaxAuditFailures \in Nat /\ MaxCrashes \in Nat
  BY ServicesAssumption DEF ServicesInv, TypeOK
<1>2. ASSUME NEW outcome \in {"none", "accepted", "failed"}, Ends(outcome)
      PROVE  ingest' \in Ingest /\ ingest'.at = "idle" /\ answer' \in {"none", "accepted", "failed"}
  BY <1>2, IdleType DEF Ends
<1>3. AuditFails => auditFailures' \in 0 .. MaxAuditFailures /\ auditFailures <= auditFailures'
  BY <1>1 DEF AuditFails
<1>4. ASSUME NEW h \in Hosts, NEW d \in Days, Duplicate(h, d)
      PROVE  ServicesInv'
  BY <1>1, <1>2, <1>4, LeaveStep DEF Duplicate
<1>5. CASE DetectFails
  BY <1>1, <1>2, <1>5, LeaveStep DEF DetectFails
<1>6. CASE DetectRolledBack
  <2>1. ingest.at = "detect" /\ AuditFails
        /\ UNCHANGED <<events, registry, candidates, detections, reopened, crashes>>
    BY <1>6 DEF DetectRolledBack
  <2>2. ingest.dark \in BOOLEAN /\ ingest.signed \in BOOLEAN /\ ingest.host \in Hosts /\ ingest.day \in Days
    BY Types DEF Ingest
  <2>3. Continues(ingest) \/ Ends("failed")
    BY <1>6 DEF DetectRolledBack
  <2>4. /\ ingest' \in Ingest /\ ingest'.at \in {"idle", "dark"}
        /\ answer' \in {"none", "accepted", "failed"}
    BY <1>1, <1>2, <2>2, <2>3, ContinuesTo
  <2> QED BY <1>1, <1>3, <2>1, <2>4, LeaveStep
<1>7. CASE DarkSkips
  BY <1>1, <1>2, <1>7, LeaveStep DEF DarkSkips
<1>8. CASE DarkConflicts
  BY <1>1, <1>2, <1>8, LeaveStep DEF DarkConflicts
<1>9. CASE DarkRolledBack
  BY <1>1, <1>2, <1>3, <1>9, LeaveStep DEF DarkRolledBack
<1>10. CASE Crash
  <2>1. crashes' \in 0 .. MaxCrashes /\ crashes' = crashes + 1 /\ crashes <= crashes'
    BY <1>1, <1>10 DEF Crash
  <2> QED BY <1>1, <1>2, <1>10, <2>1, LeaveStep DEF Crash
<1> QED BY <1>4, <1>5, <1>6, <1>7, <1>8, <1>9, <1>10

\* The candidates are counted up, and a detection of the host is active already.
LEMMA DetectNothingInv == ServicesInv /\ DetectNothing => ServicesInv'
<1> SUFFICES ASSUME ServicesInv, DetectNothing PROVE ServicesInv'
  OBVIOUS
<1>1. /\ ingest.at = "detect" /\ candidates' = Upserted /\ Continues(ingest)
      /\ UNCHANGED <<events, registry, detections, reopened, auditFailures, crashes>>
  BY DEF DetectNothing
<1>2. /\ candidates' \in Seq(Candidate) /\ Len(candidates') <= MaxCandidates
      /\ \A b \in DOMAIN candidates :
           /\ b \in DOMAIN candidates' /\ candidates'[b].link = candidates[b].link
           /\ candidates'[b].host = candidates[b].host
      /\ \A b \in DOMAIN candidates' \ DOMAIN candidates : candidates'[b].link = 0
      /\ OneOpen(candidates')
      /\ \A h : CountOf(candidates', h) = CountOf(candidates, h) + Uncounted(ingest, h)
  BY <1>1, WrittenByIngest
<1>3. /\ ingest' \in Ingest /\ ingest'.at \in {"idle", "dark"}
      /\ answer' \in {"none", "accepted", "failed"}
  <2>1. /\ ingest.dark \in BOOLEAN /\ ingest.signed \in BOOLEAN /\ ingest.host \in Hosts
        /\ ingest.day \in Days
    BY Types DEF Ingest
  <2>2. answer \in {"none", "accepted", "failed"}
    BY DEF ServicesInv, TypeOK
  <2> QED BY <1>1, <2>1, <2>2, ContinuesTo
<1>4. \A c \in DOMAIN candidates' : candidates'[c].link \in 0 .. Len(detections')
  BY <1>1, <1>2, Types DEF ServicesInv, TypeOK
<1>5. TypeOK'
  BY <1>1, <1>2, <1>3, <1>4 DEF ServicesInv, TypeOK
<1>6. LinksHold(candidates', detections')
  BY <1>1, <1>2, LinksStay DEF ServicesInv
<1>7. Cardinality(Abandoned(candidates', detections', reopened', 0)) <= crashes'
  <2>1. Underway(ingest) = 0
    BY <1>1 DEF Underway
  <2>2. \A d \in DOMAIN detections' :
          detections'[d].kind = "zero_day" /\ detections'[d].active /\ d # 0 =>
            /\ d \in DOMAIN detections /\ d # Underway(ingest)
            /\ detections[d].kind = "zero_day" /\ detections[d].active
    BY <1>1, <2>1
  <2> QED BY <1>1, <1>2, <2>2, NoneAbandoned
<1>8. \A h \in Hosts : CountOf(candidates', h) <= Cardinality(EventsOf(events', h)) + auditFailures'
  BY <1>1, <1>2 DEF ServicesInv
<1>9. Len(detections') < MaxDetections
  BY <1>1, Types, ServicesAssumption DEF ServicesInv, HasRoom
<1> QED BY <1>1, <1>2, <1>3, <1>5, <1>6, <1>7, <1>8, <1>9, QuietStep DEF ServicesInv

\* Hidden, in the words of the invariant.
LEMMA HiddenRows ==
  \A h : Hidden(h) = {d \in DOMAIN detections : Hides(detections[d], h)}
BY DEF Hidden, Hides

\* A detection is added of a host that has no such detection.
LEMMA DetectionAdded ==
  ASSUME ServicesInv, NEW h \in Hosts, NEW kind \in {"standard", "zero_day", "dark"},
         NEW signed \in BOOLEAN, Len(detections) < MaxDetections,
         kind # "standard" =>
           \A d \in DOMAIN detections : Hides(detections[d], h) => detections[d].kind # kind,
         detections' = Append(detections, NewDetection(h, kind, signed)), reopened' = reopened
  PROVE  /\ detections' \in Seq(Detection) /\ Len(detections') = Len(detections) + 1
         /\ Len(detections') <= MaxDetections
         /\ DOMAIN detections' = DOMAIN detections \cup {Len(detections) + 1}
         /\ Len(detections) + 1 \notin DOMAIN detections /\ Len(detections) \in Nat
         /\ detections'[Len(detections) + 1] = NewDetection(h, kind, signed)
         /\ \A d \in DOMAIN detections : detections'[d] = detections[d]
         /\ OneHidden(detections', reopened')
<1> DEFINE row == NewDetection(h, kind, signed)
<1>1. row \in Detection /\ row.host = h /\ row.kind = kind
  BY DEF NewDetection, Detection
<1> HIDE DEF row
<1>2. /\ detections' \in Seq(Detection) /\ Len(detections') = Len(detections) + 1
      /\ DOMAIN detections' = DOMAIN detections \cup {Len(detections) + 1}
      /\ Len(detections) + 1 \notin DOMAIN detections
      /\ detections'[Len(detections) + 1] = row
      /\ \A d \in DOMAIN detections : detections'[d] = detections[d]
  <2>1. detections' = Append(detections, row)
    BY DEF row
  <2> QED BY <1>1, <2>1, Types, RowAdded
<1>3. Len(detections') <= MaxDetections
  BY <1>2, Types, ServicesAssumption
<1>4. OneHidden(detections, reopened)
  BY DEF ServicesInv
<1>5. OneHidden(detections', reopened')
  BY <1>1, <1>2, <1>4 DEF OneHidden, Hides
<1> QED BY <1>2, <1>3, <1>5, Types DEF row

\* A new zero-day detection is the only one that hides its host, and is about to be linked.
LEMMA DetectCreatesInv == ServicesInv /\ DetectCreates => ServicesInv'
<1> SUFFICES ASSUME ServicesInv, DetectCreates PROVE ServicesInv'
  OBVIOUS
<1> DEFINE n == Len(detections) + 1
           c == IF ingest.existing = 0 THEN Len(candidates) + 1 ELSE ingest.existing
<1>1. /\ ingest.at = "detect" /\ Hidden(ingest.host) = {} /\ candidates' = Upserted
      /\ detections' = Append(detections, NewDetection(ingest.host, "zero_day", FALSE))
      /\ ingest' = [ingest EXCEPT !.at = "link", !.detection = n, !.existing = c]
      /\ UNCHANGED <<events, registry, reopened, answer, auditFailures, crashes>>
  BY DEF DetectCreates
<1>2. /\ candidates' \in Seq(Candidate) /\ Len(candidates') <= MaxCandidates
      /\ \A b \in DOMAIN candidates :
           /\ b \in DOMAIN candidates' /\ candidates'[b].link = candidates[b].link
           /\ candidates'[b].host = candidates[b].host
      /\ \A b \in DOMAIN candidates' \ DOMAIN candidates :
           /\ b = Len(candidates) + 1 /\ candidates'[b].link = 0 /\ candidates'[b].host = ingest.host
      /\ ingest.existing = 0 => Len(candidates) + 1 \in DOMAIN candidates'
      /\ OneOpen(candidates')
      /\ \A h : CountOf(candidates', h) = CountOf(candidates, h) + Uncounted(ingest, h)
  BY <1>1, WrittenByIngest
<1>3. \A d \in DOMAIN detections : ~Hides(detections[d], ingest.host)
  BY <1>1, HiddenRows
<1>4. Len(detections) + 1 < MaxDetections /\ MaxDetections \in Nat
  BY <1>1, ServicesAssumption DEF ServicesInv, HasRoom
<1>5. /\ detections' \in Seq(Detection) /\ Len(detections') = n /\ Len(detections') <= MaxDetections
      /\ DOMAIN detections' = DOMAIN detections \cup {n} /\ n \notin DOMAIN detections
      /\ Len(detections) \in Nat /\ n \in Nat
      /\ detections'[n].kind = "zero_day" /\ detections'[n].host = ingest.host
      /\ \A d \in DOMAIN detections : detections'[d] = detections[d]
      /\ OneHidden(detections', reopened')
  <2>1. ingest.host \in Hosts /\ Len(detections) < MaxDetections
    BY <1>4, Types DEF Ingest
  <2>2. /\ NewDetection(ingest.host, "zero_day", FALSE).kind = "zero_day"
        /\ NewDetection(ingest.host, "zero_day", FALSE).host = ingest.host
    BY DEF NewDetection
  <2>3. "zero_day" \in {"standard", "zero_day", "dark"} /\ FALSE \in BOOLEAN
    OBVIOUS
  <2>4. \A d \in DOMAIN detections :
          Hides(detections[d], ingest.host) => detections[d].kind # "zero_day"
    BY <1>3
  <2>5. /\ ServicesInv /\ reopened' = reopened
        /\ detections' = Append(detections, NewDetection(ingest.host, "zero_day", FALSE))
    BY <1>1
  <2>6. /\ detections' \in Seq(Detection) /\ Len(detections') = Len(detections) + 1
        /\ Len(detections') <= MaxDetections
        /\ DOMAIN detections' = DOMAIN detections \cup {Len(detections) + 1}
        /\ Len(detections) + 1 \notin DOMAIN detections /\ Len(detections) \in Nat
        /\ detections'[Len(detections) + 1] = NewDetection(ingest.host, "zero_day", FALSE)
        /\ \A d \in DOMAIN detections : detections'[d] = detections[d]
        /\ OneHidden(detections', reopened')
    BY ONLY <2>1, <2>3, <2>4, <2>5, DetectionAdded
  <2>7. /\ detections'[Len(detections) + 1].kind = "zero_day"
        /\ detections'[Len(detections) + 1].host = ingest.host
    BY ONLY <2>2, <2>6
  <2>8. Len(detections) + 1 \in Nat
    BY <2>6
  <2> QED BY ONLY <2>6, <2>7, <2>8
<1>6. /\ c \in DOMAIN candidates' /\ candidates'[c].host = ingest.host /\ c # 0 /\ c \in Nat
  <2>1. ingest.existing # 0 => ingest.existing \in DOMAIN candidates /\ candidates[ingest.existing].host = ingest.host
    BY <1>1 DEF ServicesInv, ReadsHold
  <2>2. ingest.existing = 0 => Len(candidates) + 1 \notin DOMAIN candidates
    BY Types
  <2> QED BY <1>2, <2>1, <2>2, Types
<1> HIDE DEF n, c
<1>7. /\ ingest' \in Ingest /\ ingest'.at = "link" /\ ingest'.detection = n /\ ingest'.existing = c
      /\ ingest'.host = ingest.host
  BY <1>1, <1>5, <1>6, Types DEF Ingest
<1>8. \A b \in DOMAIN candidates' : candidates'[b].link \in 0 .. Len(detections)
  <2>1. \A b \in DOMAIN candidates : candidates[b].link \in 0 .. Len(detections)
    BY <1>1 DEF ServicesInv, TypeOK
  <2>2. Len(detections) \in Nat
    BY ONLY <1>5
  <2>3. 0 \in 0 .. Len(detections)
    BY ONLY <2>2
  <2> QED BY ONLY <1>2, <2>1, <2>3
<1>9. TypeOK'
  <2>1. \A b \in DOMAIN candidates' : candidates'[b].link \in 0 .. Len(detections')
    BY <1>5, <1>8 DEF n
  <2>2. reopened' \subseteq DOMAIN detections'
    <3>1. reopened \subseteq DOMAIN detections /\ reopened' = reopened
      BY <1>1 DEF ServicesInv, TypeOK
    <3> QED BY ONLY <1>5, <3>1
  <2>3. /\ events' \in SUBSET (Hosts \X Days \X Matches) /\ registry' \in SUBSET Hosts
        /\ answer' \in {"none", "accepted", "failed"}
        /\ auditFailures' \in 0 .. MaxAuditFailures /\ crashes' \in 0 .. MaxCrashes
    BY <1>1 DEF ServicesInv, TypeOK
  <2>4. candidates' \in Seq(Candidate) /\ Len(candidates') <= MaxCandidates
    BY <1>1, <1>2 DEF ServicesInv, TypeOK
  <2> QED BY ONLY <1>5, <1>7, <2>1, <2>2, <2>3, <2>4 DEF TypeOK
<1>10. LinksHold(candidates', detections')
  BY <1>2, <1>5, LinksStay DEF ServicesInv
<1>11. Cardinality(Abandoned(candidates', detections', reopened', n)) <= crashes
  <2>1. Underway(ingest) = 0
    BY <1>1 DEF Underway
  <2>2. \A d \in DOMAIN detections' :
          detections'[d].kind = "zero_day" /\ detections'[d].active /\ d # n =>
            /\ d \in DOMAIN detections /\ d # Underway(ingest)
            /\ detections[d].kind = "zero_day" /\ detections[d].active
    BY <1>5, <2>1, Types
  <2>3. reopened' = reopened
    BY <1>1
  <2> QED BY <1>2, <2>2, <2>3, NoneAbandoned
<1>12. LinkHolds(ingest', candidates', detections', reopened')
  <2>1. \A b \in DOMAIN candidates' : candidates'[b].link # n
    BY <1>5, <1>8 DEF n
  <2>2. \A d \in DOMAIN detections' : Hides(detections'[d], ingest.host) => d = n
    BY <1>3, <1>5
  <2> QED BY <1>5, <1>6, <1>7, <2>1, <2>2 DEF LinkHolds
<1>13. HasRoom(ingest', candidates', detections') /\ ReadsHold(ingest', candidates')
  BY <1>4, <1>5, <1>6, <1>7 DEF HasRoom, ReadsHold, n
<1>14. \A h \in Hosts : CountOf(candidates', h) + Uncounted(ingest', h)
                          <= Cardinality(EventsOf(events', h)) + auditFailures'
  <2>1. \A h \in Hosts : Uncounted(ingest', h) = 0 /\ CountOf(candidates', h) \in Nat
    BY <1>2, <1>7, CountType DEF Uncounted
  <2>2. \A h \in Hosts : CountOf(candidates', h) <= Cardinality(EventsOf(events, h)) + auditFailures
    BY <1>2 DEF ServicesInv
  <2> QED BY <1>1, <2>1, <2>2
<1>15. Underway(ingest') = n
  BY <1>7 DEF Underway
<1> QED BY <1>1, <1>2, <1>5, <1>9, <1>10, <1>11, <1>12, <1>13, <1>14, <1>15 DEF ServicesInv

\* The link is the new detection's first, and the closed one that it may replace was linked
\* by this candidate only.
LEMMA LinkInv == ServicesInv /\ Link => ServicesInv'
<1> SUFFICES ASSUME ServicesInv, Link PROVE ServicesInv'
  OBVIOUS
<1> DEFINE c == ingest.existing
           n == ingest.detection
           row == [candidates[c] EXCEPT !.link = n]
<1>1. /\ ingest.at = "link" /\ candidates' = [candidates EXCEPT ![c] = row] /\ Continues(ingest)
      /\ UNCHANGED <<events, registry, detections, reopened, auditFailures, crashes>>
  BY DEF Link
<1>2. /\ c \in DOMAIN candidates /\ candidates[c].host = ingest.host /\ n \in DOMAIN detections
      /\ detections[n].kind = "zero_day" /\ detections[n].host = ingest.host
      /\ \A b \in DOMAIN candidates : candidates[b].link # n
      /\ \A d \in DOMAIN detections \ reopened : Hides(detections[d], ingest.host) => d = n
  BY <1>1 DEF ServicesInv, ReadsHold, LinkHolds
<1>3. /\ row \in Candidate /\ row.link = n /\ row.host = candidates[c].host
      /\ row.status = candidates[c].status /\ row.count = candidates[c].count
  <2>1. candidates[c] \in Candidate /\ n \in Nat
    BY <1>2, Types
  <2> QED BY <2>1 DEF Candidate
<1> HIDE DEF row
<1>4. /\ candidates' \in Seq(Candidate) /\ Len(candidates') = Len(candidates)
      /\ DOMAIN candidates' = DOMAIN candidates
      /\ \A b \in DOMAIN candidates : candidates'[b] = IF b = c THEN row ELSE candidates[b]
  BY <1>1, <1>2, <1>3, Types, RowChanged
<1>5. /\ ingest' \in Ingest /\ ingest'.at \in {"idle", "dark"}
      /\ answer' \in {"none", "accepted", "failed"}
  <2>1. /\ ingest.dark \in BOOLEAN /\ ingest.signed \in BOOLEAN /\ ingest.host \in Hosts
        /\ ingest.day \in Days
    BY Types DEF Ingest
  <2>2. answer \in {"none", "accepted", "failed"}
    BY DEF ServicesInv, TypeOK
  <2> QED BY <1>1, <2>1, <2>2, ContinuesTo
<1>6. \A b \in DOMAIN candidates' : candidates'[b].link \in 0 .. Len(detections')
  <2>1. n \in 0 .. Len(detections)
    BY <1>2, Types
  <2> QED BY <1>1, <1>3, <1>4, <2>1 DEF ServicesInv, TypeOK
<1>7. TypeOK'
  BY <1>1, <1>4, <1>5, <1>6 DEF ServicesInv, TypeOK
<1>8. OneOpen(candidates')
  BY <1>3, <1>4 DEF ServicesInv, OneOpen, IsOpen
<1>9. LinksHold(candidates', detections')
  <2>1. LinksHold(candidates, detections)
    BY DEF ServicesInv
  <2> QED BY <1>1, <1>2, <1>3, <1>4, <2>1 DEF LinksHold
<1>10. Cardinality(Abandoned(candidates', detections', reopened', 0)) <= crashes'
  <2> DEFINE A == Abandoned(candidates, detections, reopened, n)
             B == Abandoned(candidates', detections', reopened', 0)
  <2>1. B \subseteq A
    <3>1. ASSUME NEW d \in B
          PROVE  d \in A
      <4>1. /\ d \in DOMAIN detections \ reopened /\ detections[d].kind = "zero_day" /\ detections[d].active
            /\ \A b \in DOMAIN candidates : candidates'[b].link # d
        BY <1>1, <1>4, <3>1 DEF Abandoned
      <4>2. d # n
        BY <1>2, <1>3, <1>4, <4>1
      <4>3. \A b \in DOMAIN candidates \ {c} : candidates[b].link # d
        BY <1>4, <4>1
      <4>4. candidates[c].link # d
        <5> SUFFICES ASSUME candidates[c].link = d PROVE FALSE
          OBVIOUS
        <5>1. d # 0
          BY <4>1, Types
        <5>2. detections[d].host = ingest.host
          BY <1>2, <5>1 DEF ServicesInv, LinksHold
        <5> QED BY <1>2, <4>1, <4>2, <5>2 DEF Hides
      <4> QED BY <4>1, <4>2, <4>3, <4>4 DEF Abandoned
    <3> QED BY <3>1
  <2>2. Cardinality(A) <= crashes
    BY <1>1 DEF ServicesInv, Underway
  <2>3. A \in SUBSET DOMAIN detections
    BY DEF Abandoned
  <2>4. IsFiniteSet(A) /\ Cardinality(A) \in Nat
    BY <2>3, Types, Places
  <2> HIDE DEF A, B
  <2>5. Cardinality(B) <= Cardinality(A) /\ IsFiniteSet(B)
    BY <2>1, <2>4, FS_Subset
  <2>6. Cardinality(B) \in Nat
    BY <2>5, FS_CardinalityType
  <2>7. Cardinality(B) <= crashes'
    BY <1>1, <2>2, <2>4, <2>5, <2>6, Types
  <2> QED BY <2>7 DEF B
<1>11. \A h \in Hosts : CountOf(candidates', h) <= Cardinality(EventsOf(events', h)) + auditFailures'
  <2>1. \A h : CountOf(candidates', h) = CountOf(candidates, h)
    BY <1>3, <1>4, Types, CountKept
  <2>2. \A h : Uncounted(ingest, h) = 0
    BY <1>1 DEF Uncounted
  <2>3. \A h \in Hosts : CountOf(candidates, h) + Uncounted(ingest, h)
                           <= Cardinality(EventsOf(events, h)) + auditFailures
    BY DEF ServicesInv
  <2>4. ASSUME NEW h \in Hosts
        PROVE  CountOf(candidates', h) <= Cardinality(EventsOf(events', h)) + auditFailures'
    <3>1. CountOf(candidates, h) \in Nat /\ CountOf(candidates, h) + 0
                           <= Cardinality(EventsOf(events, h)) + auditFailures
      BY <2>2, <2>3, Types
    <3>2. CountOf(candidates, h) <= Cardinality(EventsOf(events, h)) + auditFailures
      BY <3>1
    <3> QED BY <1>1, <2>1, <3>2
  <2> QED BY <2>4
<1>12. Len(detections') < MaxDetections
  BY <1>1 DEF ServicesInv, HasRoom
<1> QED BY <1>1, <1>5, <1>7, <1>8, <1>9, <1>10, <1>11, <1>12, QuietStep DEF ServicesInv

\* A standard or a dark detection is added, and the candidates stay as they are.
LEMMA OtherDetectionAdded ==
  ASSUME ServicesInv, ingest.at \in {"idle", "dark"}, candidates' = candidates,
         registry' = registry, reopened' = reopened, crashes' = crashes,
         NEW h \in Hosts, NEW kind \in {"standard", "dark"}, NEW signed \in BOOLEAN,
         Len(detections) < MaxDetections,
         kind # "standard" =>
           \A d \in DOMAIN detections : Hides(detections[d], h) => detections[d].kind # kind,
         detections' = Append(detections, NewDetection(h, kind, signed)),
         ingest' \in Ingest, ingest'.at \in {"idle", "dark"},
         ingest'.at = "dark" => Len(detections) + 1 < MaxDetections,
         answer' \in {"none", "accepted", "failed"}, auditFailures' \in 0 .. MaxAuditFailures,
         events' \in SUBSET (Hosts \X Days \X Matches), IsFiniteSet(events'),
         \A g \in Hosts :
           Cardinality(EventsOf(events, g)) + auditFailures
             <= Cardinality(EventsOf(events', g)) + auditFailures'
  PROVE  ServicesInv'
<1> DEFINE n == Len(detections) + 1
<1>1. /\ detections' \in Seq(Detection) /\ Len(detections') = n /\ Len(detections') <= MaxDetections
      /\ DOMAIN detections' = DOMAIN detections \cup {n} /\ n \notin DOMAIN detections
      /\ Len(detections) \in Nat
      /\ detections'[n] = NewDetection(h, kind, signed)
      /\ \A d \in DOMAIN detections : detections'[d] = detections[d]
      /\ OneHidden(detections', reopened')
  BY DetectionAdded
<1>2. detections'[n].kind = kind
  <2>1. NewDetection(h, kind, signed).kind = kind
    BY DEF NewDetection
  <2> QED BY ONLY <1>1, <2>1
<1> HIDE DEF n
<1>3. \A b \in DOMAIN candidates' : candidates'[b].link \in 0 .. Len(detections')
  BY <1>1 DEF n, ServicesInv, TypeOK
<1>4. TypeOK'
  BY <1>1, <1>3 DEF ServicesInv, TypeOK
<1>5. LinksHold(candidates', detections')
  BY <1>1, LinksStay DEF ServicesInv
<1>6. Cardinality(Abandoned(candidates', detections', reopened', 0)) <= crashes'
  <2>1. Underway(ingest) = 0
    BY DEF Underway
  <2>2. \A d \in DOMAIN detections' :
          detections'[d].kind = "zero_day" /\ detections'[d].active /\ d # 0 =>
            /\ d \in DOMAIN detections /\ d # Underway(ingest)
            /\ detections[d].kind = "zero_day" /\ detections[d].active
    BY <1>1, <1>2, <2>1
  <2> QED BY <2>2, NoneAbandoned
<1>7. \A g \in Hosts : CountOf(candidates', g) <= Cardinality(EventsOf(events', g)) + auditFailures'
  <2> TAKE g \in Hosts
  <2>1. CountOf(candidates, g) + Uncounted(ingest, g) <= Cardinality(EventsOf(events, g)) + auditFailures
        /\ Uncounted(ingest, g) = 0
    BY DEF ServicesInv, Uncounted
  <2>2. EventsOf(events', g) \in SUBSET events'
    BY DEF EventsOf
  <2>3. Cardinality(EventsOf(events', g)) \in Nat /\ auditFailures' \in Nat
    BY <2>2, FS_Subset, FS_CardinalityType, ServicesAssumption
  <2> QED BY <2>1, <2>3, Types
<1>8. OneOpen(candidates')
  BY DEF ServicesInv
<1>9. ingest'.at = "dark" => Len(detections') < MaxDetections
  BY <1>1 DEF n
<1> QED BY <1>1, <1>4, <1>5, <1>6, <1>7, <1>8, <1>9, QuietStep

\* A new signal that matches a signature.
LEMMA IngestKnownInv ==
  ASSUME ServicesInv, NEW h \in Hosts, NEW d \in Days, NEW c \in Classifications(h, TRUE),
         IngestKnown(h, d, c)
  PROVE  ServicesInv'
<1> DEFINE i == [Classified(h, d, c) EXCEPT !.signed = TRUE]
<1>1. /\ ingest.at = "idle" /\ Hashed(h, d) \notin events /\ Room /\ Stored(h, d) /\ Continues(i)
      /\ candidates' = candidates /\ registry' = registry /\ reopened' = reopened
      /\ crashes' = crashes /\ h \in registry
  BY DEF IngestKnown
<1>2. i.dark \in BOOLEAN /\ i.signed \in BOOLEAN /\ i.host \in Hosts /\ i.day \in Days
  <2>1. Classified(h, d, c) \in Ingest
    BY ClassifiedType
  <2> HIDE DEF Classified
  <2> QED BY <2>1 DEF Ingest
<1> HIDE DEF i
<1>3. /\ ingest' \in Ingest /\ ingest'.at \in {"idle", "dark"}
      /\ answer' \in {"none", "accepted", "failed"}
  <2>1. answer \in {"none", "accepted", "failed"}
    BY DEF ServicesInv, TypeOK
  <2> QED BY <1>1, <1>2, <2>1, ContinuesTo
<1>4. /\ IsFiniteSet(events') /\ events' \in SUBSET (Hosts \X Days \X Matches)
      /\ auditFailures' \in 0 .. MaxAuditFailures
      /\ \A g \in Hosts :
           Cardinality(EventsOf(events, g)) + auditFailures + (IF g = h /\ h \notin registry THEN 1 ELSE 0)
             <= Cardinality(EventsOf(events', g)) + auditFailures'
  BY <1>1, EventStored
<1>5. \A g \in Hosts :
        Cardinality(EventsOf(events, g)) + auditFailures
          <= Cardinality(EventsOf(events', g)) + auditFailures'
  <2> TAKE g \in Hosts
  <2>1. EventsOf(events', g) \in SUBSET events'
    BY DEF EventsOf
  <2>2. Cardinality(EventsOf(events', g)) \in Nat /\ auditFailures' \in Nat
    BY <1>4, <2>1, FS_Subset, FS_CardinalityType, ServicesAssumption
  <2>3. Cardinality(EventsOf(events, g)) \in Nat /\ auditFailures \in Nat
    BY Types
  <2>4. Cardinality(EventsOf(events, g)) + auditFailures + (IF g = h /\ h \notin registry THEN 1 ELSE 0)
          <= Cardinality(EventsOf(events', g)) + auditFailures'
    BY <1>4
  <2> QED BY <2>2, <2>3, <2>4
<1>6. Len(detections) + 1 < MaxDetections /\ Len(detections) \in Nat /\ MaxDetections \in Nat
  BY <1>1, Types, ServicesAssumption DEF Room
<1>7. CASE detections' = detections
  <2>1. TypeOK'
    BY <1>1, <1>3, <1>4, <1>7 DEF ServicesInv, TypeOK
  <2>2. OneOpen(candidates') /\ OneHidden(detections', reopened') /\ LinksHold(candidates', detections')
    BY <1>1, <1>7 DEF ServicesInv
  <2>3. Cardinality(Abandoned(candidates', detections', reopened', 0)) <= crashes'
    BY <1>1, <1>7 DEF ServicesInv, Underway
  <2>4. ASSUME NEW g \in Hosts
        PROVE  CountOf(candidates', g) <= Cardinality(EventsOf(events', g)) + auditFailures'
    <3>1. CountOf(candidates, g) + Uncounted(ingest, g) <= Cardinality(EventsOf(events, g)) + auditFailures
          /\ Uncounted(ingest, g) = 0
      BY <1>1 DEF ServicesInv, Uncounted
    <3>2. EventsOf(events', g) \in SUBSET events'
      BY DEF EventsOf
    <3>3. Cardinality(EventsOf(events', g)) \in Nat /\ auditFailures' \in Nat
      BY <1>4, <3>2, FS_Subset, FS_CardinalityType, ServicesAssumption
    <3>4. Cardinality(EventsOf(events, g)) + auditFailures
            <= Cardinality(EventsOf(events', g)) + auditFailures'
      BY <1>5
    <3> QED BY <1>1, <3>1, <3>3, <3>4, Types
  <2>5. Len(detections') < MaxDetections
    BY <1>6, <1>7
  <2> QED BY <1>3, <1>4, <2>1, <2>2, <2>3, <2>4, <2>5, QuietStep
<1>8. CASE detections' = Append(detections, NewDetection(h, "standard", TRUE))
  <2>1. "standard" \in {"standard", "dark"} /\ TRUE \in BOOLEAN /\ ("standard" # "standard" => FALSE)
        /\ Len(detections) < MaxDetections /\ ingest.at \in {"idle", "dark"}
    BY <1>1, <1>6
  <2> QED BY <1>1, <1>3, <1>4, <1>5, <1>6, <1>8, <2>1, OtherDetectionAdded
<1> QED BY <1>7, <1>8 DEF IngestKnown

\* The dark AI classifier adds a detection of a host that has none of its kind.
LEMMA DarkCreatesInv == ServicesInv /\ DarkCreates => ServicesInv'
<1> SUFFICES ASSUME ServicesInv, DarkCreates PROVE ServicesInv'
  OBVIOUS
<1>1. /\ ingest.at = "dark" /\ ~DarkExists(ingest.host) /\ Ends("accepted")
      /\ detections' = Append(detections, NewDetection(ingest.host, "dark", ingest.signed))
      /\ UNCHANGED <<events, registry, candidates, reopened, auditFailures, crashes>>
  BY DEF DarkCreates
<1>2. ingest' \in Ingest /\ ingest'.at = "idle" /\ answer' = "accepted"
  BY <1>1, IdleType DEF Ends
<1>3. ingest.host \in Hosts /\ ingest.signed \in BOOLEAN
  BY Types DEF Ingest
<1>4. \A d \in DOMAIN detections : Hides(detections[d], ingest.host) => detections[d].kind # "dark"
  BY <1>1, HiddenRows DEF DarkExists
<1>5. Len(detections) < MaxDetections
  BY <1>1 DEF ServicesInv, HasRoom
<1>6. /\ events \in SUBSET (Hosts \X Days \X Matches) /\ IsFiniteSet(events)
      /\ auditFailures \in 0 .. MaxAuditFailures
  BY DEF ServicesInv, TypeOK
<1>7. \A g \in Hosts :
        Cardinality(EventsOf(events, g)) + auditFailures
          <= Cardinality(EventsOf(events', g)) + auditFailures'
  <2> TAKE g \in Hosts
  <2>1. Cardinality(EventsOf(events, g)) \in Nat /\ auditFailures \in Nat
    BY Types
  <2> QED BY <1>1, <2>1
<1>8. "dark" \in {"standard", "dark"}
  OBVIOUS
<1> QED BY <1>1, <1>2, <1>3, <1>4, <1>5, <1>6, <1>7, <1>8, OtherDetectionAdded

\* A review changes the status of a candidate that the ingest does not hold.
LEMMA ReviewInv ==
  ASSUME ServicesInv, NEW c \in DOMAIN candidates,
         NEW status \in {"added_to_registry", "dismissed", "monitoring"},
         status = "monitoring" => Open(c) \/ OpenCandidates(candidates[c].host) = {},
         Reviewed(c, status), registry' \in SUBSET Hosts
  PROVE  ServicesInv'
<1> DEFINE row == [candidates[c] EXCEPT !.status = status]
<1>1. /\ ~Locked(c) /\ candidates' = [candidates EXCEPT ![c] = row]
      /\ UNCHANGED <<events, detections, reopened, ingest, answer, auditFailures, crashes>>
  BY DEF Reviewed
<1>2. /\ row \in Candidate /\ row.link = candidates[c].link /\ row.host = candidates[c].host
      /\ row.status = status /\ row.count = candidates[c].count
  <2>1. candidates[c] \in Candidate
    BY Types
  <2> QED BY <2>1 DEF Candidate
<1> HIDE DEF row
<1>3. /\ candidates' \in Seq(Candidate) /\ Len(candidates') = Len(candidates)
      /\ DOMAIN candidates' = DOMAIN candidates
      /\ \A b \in DOMAIN candidates : candidates'[b] = IF b = c THEN row ELSE candidates[b]
  BY <1>1, <1>2, Types, RowChanged
<1>4. TypeOK'
  <2>1. \A b \in DOMAIN candidates' : candidates'[b].link \in 0 .. Len(detections')
    BY <1>1, <1>2, <1>3 DEF ServicesInv, TypeOK
  <2> QED BY <1>1, <1>3, <2>1 DEF ServicesInv, TypeOK
<1>5. OneOpen(candidates')
  <2>1. OneOpen(candidates)
    BY DEF ServicesInv
  <2>2. IsOpen(row) => IsOpen(candidates[c]) \/ NoneOpen(candidates, candidates[c].host)
    BY <1>2, OpenRows DEF IsOpen, Open, NoneOpen
  <2> QED BY <1>2, <1>3, <2>1, <2>2 DEF OneOpen, NoneOpen
<1>6. LinksHold(candidates', detections')
  BY <1>1, <1>2, <1>3, LinksStay DEF ServicesInv
<1>7. ReadsHold(ingest', candidates')
  <2>1. ReadsHold(ingest, candidates)
    BY DEF ServicesInv
  <2>2. ingest.at = "detect" /\ ingest.existing = 0 => candidates[c].host # ingest.host
    BY <1>1 DEF Locked
  <2> QED BY <1>1, <1>2, <1>3, <2>1, <2>2 DEF ReadsHold, NoneOpen
<1>8. LinkHolds(ingest', candidates', detections', reopened') /\ HasRoom(ingest', candidates', detections')
  BY <1>1, <1>2, <1>3 DEF ServicesInv, LinkHolds, HasRoom
<1>9. Cardinality(Abandoned(candidates', detections', reopened', Underway(ingest'))) <= crashes'
  <2>1. \A b \in DOMAIN candidates : b \in DOMAIN candidates' /\ candidates'[b].link = candidates[b].link
    BY <1>2, <1>3
  <2> QED BY <1>1, <2>1, NoneAbandoned
<1>10. \A h : CountOf(candidates', h) = CountOf(candidates, h)
  BY <1>2, <1>3, Types, CountKept
<1>11. \A h \in Hosts : CountOf(candidates', h) + Uncounted(ingest', h)
                          <= Cardinality(EventsOf(events', h)) + auditFailures'
  BY <1>1, <1>10 DEF ServicesInv
<1> QED BY <1>1, <1>4, <1>5, <1>6, <1>7, <1>8, <1>9, <1>11 DEF ServicesInv

\* A detection is closed.
LEMMA CloseDetectionInv ==
  ASSUME ServicesInv, NEW d \in DOMAIN detections, CloseDetection(d)
  PROVE  ServicesInv'
<1> DEFINE row == [detections[d] EXCEPT !.active = FALSE]
<1>1. /\ detections' = [detections EXCEPT ![d] = row]
      /\ UNCHANGED <<events, registry, candidates, reopened, ingest, answer, auditFailures, crashes>>
  BY DEF CloseDetection
<1>2. row \in Detection /\ ~row.active /\ row.kind = detections[d].kind /\ row.host = detections[d].host
  <2>1. detections[d] \in Detection
    BY Types
  <2> QED BY <2>1 DEF Detection
<1> HIDE DEF row
<1>3. /\ detections' \in Seq(Detection) /\ Len(detections') = Len(detections)
      /\ DOMAIN detections' = DOMAIN detections
      /\ \A e \in DOMAIN detections : detections'[e] = IF e = d THEN row ELSE detections[e]
  BY <1>1, <1>2, Types, RowChanged
<1>4. TypeOK'
  BY <1>1, <1>3 DEF ServicesInv, TypeOK
<1>5. OneHidden(detections', reopened')
  <2>1. OneHidden(detections, reopened) /\ reopened' = reopened
    BY <1>1 DEF ServicesInv
  <2> QED BY ONLY <1>2, <1>3, <2>1 DEF OneHidden, Hides
<1>6. LinksHold(candidates', detections')
  <2>1. LinksHold(candidates, detections)
    BY DEF ServicesInv
  <2>2. \A e \in DOMAIN detections :
          /\ e \in DOMAIN detections'
          /\ detections'[e].kind = detections[e].kind /\ detections'[e].host = detections[e].host
    BY <1>2, <1>3
  <2> QED BY ONLY <1>1, <2>1, <2>2 DEF LinksHold
<1>7. LinkHolds(ingest', candidates', detections', reopened')
  BY <1>1, <1>2, <1>3 DEF ServicesInv, LinkHolds, Hides
<1>8. HasRoom(ingest', candidates', detections') /\ ReadsHold(ingest', candidates')
  BY <1>1, <1>3 DEF ServicesInv, HasRoom, ReadsHold
<1>9. Cardinality(Abandoned(candidates', detections', reopened', Underway(ingest'))) <= crashes'
  <2>1. \A e \in DOMAIN detections' :
          detections'[e].kind = "zero_day" /\ detections'[e].active /\ e # Underway(ingest) =>
            /\ e \in DOMAIN detections /\ e # Underway(ingest)
            /\ detections[e].kind = "zero_day" /\ detections[e].active
    BY <1>2, <1>3
  <2> QED BY <1>1, <2>1, NoneAbandoned
<1>10. \A h \in Hosts : CountOf(candidates', h) + Uncounted(ingest', h)
                          <= Cardinality(EventsOf(events', h)) + auditFailures'
  BY <1>1 DEF ServicesInv
<1> QED BY <1>1, <1>4, <1>5, <1>6, <1>7, <1>8, <1>9, <1>10 DEF ServicesInv

\* A closed detection is active again, and counted as such.
LEMMA ReopenDetectionInv ==
  ASSUME ServicesInv, NEW d \in DOMAIN detections, ReopenDetection(d)
  PROVE  ServicesInv'
<1> DEFINE row == [detections[d] EXCEPT !.active = TRUE]
<1>1. /\ detections' = [detections EXCEPT ![d] = row] /\ reopened' = reopened \cup {d}
      /\ UNCHANGED <<events, registry, candidates, ingest, answer, auditFailures, crashes>>
  BY DEF ReopenDetection
<1>2. row \in Detection /\ row.kind = detections[d].kind /\ row.host = detections[d].host
  <2>1. detections[d] \in Detection
    BY Types
  <2> QED BY <2>1 DEF Detection
<1> HIDE DEF row
<1>3. /\ detections' \in Seq(Detection) /\ Len(detections') = Len(detections)
      /\ DOMAIN detections' = DOMAIN detections
      /\ \A e \in DOMAIN detections : detections'[e] = IF e = d THEN row ELSE detections[e]
  BY <1>1, <1>2, Types, RowChanged
<1>4. TypeOK'
  BY <1>1, <1>3 DEF ServicesInv, TypeOK
<1>5. \A e \in DOMAIN detections' \ reopened' : e \in DOMAIN detections \ reopened /\ detections'[e] = detections[e]
  BY <1>1, <1>3
<1>6. OneHidden(detections', reopened')
  <2>1. OneHidden(detections, reopened)
    BY DEF ServicesInv
  <2> QED BY ONLY <1>5, <2>1 DEF OneHidden
<1>7. LinksHold(candidates', detections')
  <2>1. LinksHold(candidates, detections)
    BY DEF ServicesInv
  <2>2. \A e \in DOMAIN detections :
          /\ e \in DOMAIN detections'
          /\ detections'[e].kind = detections[e].kind /\ detections'[e].host = detections[e].host
    BY <1>2, <1>3
  <2> QED BY ONLY <1>1, <2>1, <2>2 DEF LinksHold
<1>8. LinkHolds(ingest', candidates', detections', reopened')
  <2>1. LinkHolds(ingest, candidates, detections, reopened)
    BY DEF ServicesInv
  <2> QED BY <1>1, <1>2, <1>3, <1>5, <2>1 DEF LinkHolds
<1>9. HasRoom(ingest', candidates', detections') /\ ReadsHold(ingest', candidates')
  BY <1>1, <1>3 DEF ServicesInv, HasRoom, ReadsHold
<1>10. Cardinality(Abandoned(candidates', detections', reopened', Underway(ingest'))) <= crashes'
  <2>1. \A e \in DOMAIN detections' \ reopened' :
          detections'[e].kind = "zero_day" /\ detections'[e].active /\ e # Underway(ingest) =>
            /\ e \in DOMAIN detections /\ e # Underway(ingest)
            /\ detections[e].kind = "zero_day" /\ detections[e].active
    BY <1>5
  <2> QED BY <1>1, <2>1, NoneAbandoned
<1>11. \A h \in Hosts : CountOf(candidates', h) + Uncounted(ingest', h)
                          <= Cardinality(EventsOf(events', h)) + auditFailures'
  BY <1>1 DEF ServicesInv
<1> QED BY <1>1, <1>4, <1>6, <1>7, <1>8, <1>9, <1>10, <1>11 DEF ServicesInv

-----------------------------------------------------------------------------
(* The theorems.                                                           *)

\* At the start nothing is counted, open or linked.
LEMMA InitServices == Init => ServicesInv
<1> SUFFICES ASSUME Init PROVE ServicesInv
  OBVIOUS
<1>1. /\ events = {} /\ registry = KnownHosts /\ candidates = <<>> /\ detections = <<>>
      /\ reopened = {} /\ ingest = Idle /\ answer = "none" /\ auditFailures = 0 /\ crashes = 0
  BY DEF Init
<1>2. /\ candidates \in Seq(Candidate) /\ Len(candidates) = 0 /\ DOMAIN candidates = {}
      /\ detections \in Seq(Detection) /\ Len(detections) = 0 /\ DOMAIN detections = {}
  BY <1>1
<1>3. ingest \in Ingest /\ ingest.at = "idle"
  BY <1>1, IdleType
<1>4. TypeOK
  BY <1>1, <1>2, <1>3, ServicesAssumption DEF TypeOK
<1>5. /\ HasRoom(ingest, candidates, detections) /\ OneOpen(candidates)
      /\ OneHidden(detections, reopened)
      /\ LinksHold(candidates, detections) /\ ReadsHold(ingest, candidates)
      /\ LinkHolds(ingest, candidates, detections, reopened)
  BY <1>2, <1>3 DEF HasRoom, OneOpen, OneHidden, LinksHold, ReadsHold, LinkHolds
<1>6. Cardinality(Abandoned(candidates, detections, reopened, Underway(ingest))) <= crashes
  <2>1. Abandoned(candidates, detections, reopened, Underway(ingest)) = {}
    BY <1>2 DEF Abandoned
  <2> QED BY <1>1, <2>1, FS_EmptySet
<1>7. ASSUME NEW h \in Hosts
      PROVE  CountOf(candidates, h) + Uncounted(ingest, h) <= Cardinality(EventsOf(events, h)) + auditFailures
  <2>1. OfHost(candidates, h) = {}
    BY <1>2 DEF OfHost
  <2>2. CountOf(candidates, h) = 0
    BY <1>2, <2>1, CountType, SumUnfolds, FS_EmptySet
  <2>3. EventsOf(events, h) = {}
    BY <1>1 DEF EventsOf
  <2> QED BY <1>1, <1>3, <2>2, <2>3, FS_EmptySet DEF Uncounted
<1>8. IsFiniteSet(events)
  BY <1>1, FS_EmptySet
<1> QED BY <1>4, <1>5, <1>6, <1>7, <1>8 DEF ServicesInv

\* Every step keeps the invariant.
LEMMA StepServices == ServicesInv /\ [Next]_vars => ServicesInv'
<1> SUFFICES ASSUME ServicesInv, [Next]_vars PROVE ServicesInv'
  OBVIOUS
<1>1. ASSUME NEW h \in Hosts, NEW d \in Days, NEW c \in Classifications(h, FALSE), IngestUnknown(h, d, c)
      PROVE  ServicesInv'
  BY <1>1, IngestUnknownInv
<1>2. ASSUME NEW h \in Hosts, NEW d \in Days, NEW c \in Classifications(h, TRUE), IngestKnown(h, d, c)
      PROVE  ServicesInv'
  BY <1>2, IngestKnownInv
<1>3. CASE \/ \E h \in Hosts, d \in Days : Duplicate(h, d)
           \/ DetectFails \/ DetectRolledBack \/ DarkSkips \/ DarkConflicts \/ DarkRolledBack \/ Crash
  BY <1>3, LeaveInv
<1>4. CASE Lookup \/ Upsert \/ DetectNothing \/ DetectCreates \/ Link \/ DarkCreates
  BY <1>4, LookupInv, UpsertInv, DetectNothingInv, DetectCreatesInv, LinkInv, DarkCreatesInv
<1>5. ASSUME NEW c \in DOMAIN candidates, AddToRegistry(c) \/ Dismiss(c) \/ Monitor(c)
      PROVE  ServicesInv'
  <2>1. registry \in SUBSET Hosts /\ candidates[c].host \in Hosts
    <3>1. candidates[c] \in Candidate
      BY Types
    <3> QED BY <3>1 DEF ServicesInv, TypeOK, Candidate
  <2>2. CASE AddToRegistry(c)
    <3>1. Reviewed(c, "added_to_registry") /\ registry' \in SUBSET Hosts
      BY <2>1, <2>2 DEF AddToRegistry
    <3> QED BY <3>1, ReviewInv
  <2>3. CASE Dismiss(c)
    <3>1. Reviewed(c, "dismissed") /\ registry' \in SUBSET Hosts
      BY <2>1, <2>3 DEF Dismiss
    <3> QED BY <3>1, ReviewInv
  <2>4. CASE Monitor(c)
    <3>1. /\ Reviewed(c, "monitoring") /\ registry' \in SUBSET Hosts
          /\ Open(c) \/ OpenCandidates(candidates[c].host) = {}
      BY <2>1, <2>4 DEF Monitor
    <3> QED BY <3>1, ReviewInv
  <2> QED BY <1>5, <2>2, <2>3, <2>4
<1>6. ASSUME NEW d \in DOMAIN detections, CloseDetection(d) \/ ReopenDetection(d)
      PROVE  ServicesInv'
  BY <1>6, CloseDetectionInv, ReopenDetectionInv
<1>7. CASE UNCHANGED vars
  BY <1>7 DEF vars, ServicesInv, TypeOK, OpenCandidates, Open
<1> QED BY <1>1, <1>2, <1>3, <1>4, <1>5, <1>6, <1>7 DEF Next

\* The invariant holds throughout.
THEOREM ServicesInvariance == Spec => []ServicesInv
<1>1. Init => ServicesInv
  BY InitServices
<1>2. ServicesInv /\ [Next]_vars => ServicesInv'
  BY StepServices
<1> QED BY <1>1, <1>2, PTL DEF Spec

\* Type correctness of the classification of unknown services, for every number of
\* hosts, days, candidates, detections, failures and restarts.
THEOREM ServicesTypes == Spec => []TypeOK
<1>1. ServicesInv => TypeOK
  BY DEF ServicesInv
<1> QED BY <1>1, ServicesInvariance, PTL

\* A set whose elements are all the same has one at most.
LEMMA OneAtMost ==
  ASSUME NEW S, \A x, y \in S : x = y
  PROVE  Cardinality(S) <= 1
<1>1. CASE S = {}
  BY <1>1, FS_EmptySet
<1>2. CASE S # {}
  <2>1. PICK x \in S : TRUE
    BY <1>2
  <2>2. S = {x}
    BY <2>1
  <2> QED BY <2>2, FS_Singleton
<1> QED BY <1>1, <1>2

\* A host has one open candidate and, but for what an outdated session stored as active
\* again, one active zero-day and dark detection at most, although nothing but a lookup
\* keeps a second detection away.
THEOREM OneOpenCaseHolds == Spec => []OneOpenCase
<1>1. ServicesInv => OneOpenCase
  <2> SUFFICES ASSUME ServicesInv, NEW h \in Hosts
               PROVE  /\ Cardinality(OpenCandidates(h)) <= 1
                      /\ \A kind \in {"zero_day", "dark"} :
                           Cardinality({d \in Hidden(h) \ reopened : detections[d].kind = kind}) <= 1
    BY DEF OneOpenCase
  <2>1. \A b, c \in OpenCandidates(h) : b = c
    BY OpenRows DEF ServicesInv, OneOpen
  <2>2. ASSUME NEW kind \in {"zero_day", "dark"}
        PROVE  \A d, e \in {x \in Hidden(h) \ reopened : detections[x].kind = kind} : d = e
    BY HiddenRows DEF ServicesInv, OneHidden, Hides
  <2> QED BY <2>1, <2>2, OneAtMost
<1> QED BY <1>1, ServicesInvariance, PTL

\* No signal is counted twice, whatever is retried, rolled back or cut off.
THEOREM NeverCountedTwiceHolds == Spec => []NeverCountedTwice
<1>1. ServicesInv => NeverCountedTwice
  <2> SUFFICES ASSUME ServicesInv, NEW h \in Hosts
               PROVE  SumFunctionOnSet(Counts, {c \in DOMAIN candidates : candidates[c].host = h})
                        <= Cardinality({e \in events : e[1] = h /\ e[3] = "unmatched"}) + auditFailures
    BY DEF NeverCountedTwice
  <2>1. CountOf(candidates, h) = SumFunctionOnSet(Counts, {c \in DOMAIN candidates : candidates[c].host = h})
    BY DEF CountOf, Counts
  <2>2. EventsOf(events, h) = {e \in events : e[1] = h /\ e[3] = "unmatched"}
    BY DEF EventsOf
  <2>3. CountOf(candidates, h) + Uncounted(ingest, h) <= Cardinality(EventsOf(events, h)) + auditFailures
    BY DEF ServicesInv
  <2>4. Uncounted(ingest, h) \in {0, 1}
    BY DEF Uncounted
  <2>5. CountOf(candidates, h) <= Cardinality(EventsOf(events, h)) + auditFailures
    BY <2>3, <2>4, Types
  <2> QED BY <2>1, <2>2, <2>5
<1> QED BY <1>1, ServicesInvariance, PTL

\* An active zero-day detection is linked unless the server stopped between the commit
\* of the detection and that of the link or an outdated session stored it as active
\* again, and no two candidates share a link.
THEOREM LinkedUnlessCrashHolds == Spec => []LinkedUnlessCrash
<1>1. ServicesInv => LinkedUnlessCrash
  <2> SUFFICES ASSUME ServicesInv PROVE LinkedUnlessCrash
    OBVIOUS
  <2> DEFINE L == {d \in ZeroDays \ (Linked \cup reopened) : detections[d].active}
             A == Abandoned(candidates, detections, reopened, Underway(ingest))
  <2>1. L \subseteq A \cup (IF ingest.at = "link" THEN {ingest.detection} ELSE {})
    <3>1. DOMAIN detections \subseteq Nat \ {0}
      BY Types, Places
    <3> QED BY <3>1 DEF ZeroDays, Linked, Abandoned, Underway
  <2>2. A \in SUBSET DOMAIN detections
    BY DEF Abandoned
  <2>3. IsFiniteSet(A) /\ Cardinality(A) \in Nat
    BY <2>2, Types, Places
  <2>4. Cardinality(A) <= crashes
    BY DEF ServicesInv
  <2>5. Cardinality(L) <= crashes + (IF ingest.at = "link" THEN 1 ELSE 0)
    <3> HIDE DEF A, L
    <3>1. CASE ingest.at # "link"
      <4>1. L \subseteq A
        BY <2>1, <3>1
      <4>2. Cardinality(L) <= Cardinality(A) /\ Cardinality(L) \in Nat
        BY <2>3, <4>1, FS_Subset, FS_CardinalityType
      <4> QED BY <2>3, <2>4, <3>1, <4>2, Types
    <3>2. CASE ingest.at = "link"
      <4> DEFINE B == A \cup {ingest.detection}
      <4>1. L \subseteq B
        BY <2>1, <3>2
      <4>2. IsFiniteSet(B) /\ Cardinality(B) <= Cardinality(A) + 1 /\ Cardinality(B) \in Nat
        <5>1. IsFiniteSet(B)
                /\ Cardinality(B) = IF ingest.detection \in A THEN Cardinality(A) ELSE Cardinality(A) + 1
          BY <2>3, FS_AddElement
        <5> QED BY <2>3, <5>1
      <4> HIDE DEF B
      <4>3. Cardinality(L) <= Cardinality(B) /\ Cardinality(L) \in Nat
        BY <4>1, <4>2, FS_Subset, FS_CardinalityType
      <4> QED BY <2>3, <2>4, <3>2, <4>2, <4>3, Types
    <3> QED BY <3>1, <3>2
  <2>6. \A c \in DOMAIN candidates : candidates[c].link # 0 =>
          /\ candidates[c].link \in ZeroDays
          /\ detections[candidates[c].link].host = candidates[c].host
          /\ \A b \in DOMAIN candidates : candidates[b].link = candidates[c].link => b = c
    BY DEF ServicesInv, LinksHold, ZeroDays
  <2> QED BY <2>5, <2>6 DEF LinkedUnlessCrash
<1> QED BY <1>1, ServicesInvariance, PTL

\* No step of an ingest changes the status of a candidate that was there before.
THEOREM ReviewsStickHolds == Spec => ReviewsStick
<1>1. ServicesInv /\ [Next]_vars =>
        [ingest' # ingest =>
           \A c \in DOMAIN candidates : candidates'[c].status = candidates[c].status]_vars
  <2> SUFFICES ASSUME ServicesInv, Next, ingest' # ingest, NEW c \in DOMAIN candidates
               PROVE  candidates'[c].status = candidates[c].status
    OBVIOUS
  <2>1. CASE DetectNothing \/ DetectCreates
    <3>1. ingest.at = "detect" /\ candidates' = Upserted
      BY <2>1 DEF DetectNothing, DetectCreates
    <3> QED BY <3>1, WrittenByIngest
  <2>2. CASE Link
    <3> DEFINE e == ingest.existing
               row == [candidates[e] EXCEPT !.link = ingest.detection]
    <3>1. ingest.at = "link" /\ candidates' = [candidates EXCEPT ![e] = row]
      BY <2>2 DEF Link
    <3>2. e \in DOMAIN candidates
      BY <3>1 DEF ServicesInv, LinkHolds, ReadsHold
    <3>3. row.status = candidates[e].status
      <4>1. candidates[e] \in Candidate
        BY <3>2, Types
      <4> QED BY <4>1 DEF Candidate
    <3> QED BY <3>1, <3>2, <3>3
  <2>3. CASE candidates' = candidates
    BY <2>3
  <2>4. ASSUME NEW b \in DOMAIN candidates, AddToRegistry(b) \/ Dismiss(b) \/ Monitor(b)
        PROVE  ingest' = ingest
    BY <2>4 DEF AddToRegistry, Dismiss, Monitor, Reviewed
  <2>5. ASSUME NEW d \in DOMAIN detections, CloseDetection(d) \/ ReopenDetection(d)
        PROVE  ingest' = ingest
    BY <2>5 DEF CloseDetection, ReopenDetection
  <2>6. \/ DetectNothing \/ DetectCreates \/ Link \/ candidates' = candidates
        \/ \E b \in DOMAIN candidates : AddToRegistry(b) \/ Dismiss(b) \/ Monitor(b)
        \/ \E d \in DOMAIN detections : CloseDetection(d) \/ ReopenDetection(d)
    BY DEF Next, IngestUnknown, IngestKnown, Duplicate, Lookup, Upsert, DetectFails, DetectRolledBack,
           DarkSkips, DarkConflicts, DarkCreates, DarkRolledBack, Crash
  <2> QED BY <2>1, <2>2, <2>3, <2>4, <2>5, <2>6
<1> QED BY <1>1, ServicesInvariance, PTL DEF Spec, ReviewsStick

-----------------------------------------------------------------------------
(* The contamination of vendors: the invariant.                           *)

\* s has flushed an update of the agreement.
Holding(s) == s.dpa /\ s.at \notin {"idle", "record"}

\* A session may be in state s.
Holds(s) ==
  /\ s.row # NoRow => index[s.vendor] # NoRow
  /\ s.at = "agreement" => ~s.dpa
  /\ ~s.stale /\ s.at = "record" /\ s.dpa => s.record = agreements[s.vendor]
  /\ ~s.stale /\ s.at = "store" /\ ~s.dpa => s.record = agreements[s.vendor]
  /\ ~s.stale /\ Holding(s) => s.record = s.said
  /\ Holding(s) /\ s.at = "store" /\ s.row # NoRow /\ s.vendor \notin outdated =>
       s.row.contractual = ContractualScore(agreements[s.vendor])

\* One session at a time holds the agreement of a vendor.
Exclusive ==
  \A q, r \in Requests :
    q # r /\ Locks(q) /\ Locks(r) => sessions[q].vendor # sessions[r].vendor

VendorInv ==
  /\ VendorTypeOK
  /\ \A r \in Requests : Holds(sessions[r])
  /\ Exclusive
  /\ AgreementIsAssessed
  /\ SignalsAddUp

-----------------------------------------------------------------------------
(* The scores.                                                             *)

Internals == {0, 400, 600, 700, 900}
Externals == {100, 500, 600, 900}
Contractuals == {0, 500, 1000}

\* The fields of a session, with the sets of scores by name.
LEMMA SessionFields ==
  Session =
    [at : {"idle", "record", "row", "agreement", "store"}, vendor : Vendors, dpa : BOOLEAN,
     scan : BOOLEAN, said : Agreements, record : Agreements, row : Row \cup {NoRow},
     internal : Internals, external : Externals, stale : BOOLEAN]
BY DEF Session, Internals, Externals

\* The weighted sum of three signals is a score.
LEMMA WeightedType ==
  ASSUME NEW internal \in Internals, NEW external \in Externals, NEW contractual \in Contractuals
  PROVE  Weighted(internal, external, contractual) \in 0 .. 1000
<1> DEFINE sum == 30 * internal + 30 * external + 40 * contractual
<1>1. /\ internal \in Int /\ 0 <= internal /\ internal <= 1000
      /\ external \in Int /\ 0 <= external /\ external <= 1000
      /\ contractual \in Int /\ 0 <= contractual /\ contractual <= 1000
  BY DEF Internals, Externals, Contractuals
<1>2. sum \in Int /\ 0 <= sum /\ sum <= 100000
  BY <1>1
<1> HIDE DEF sum
<1>3. sum \div 100 \in 0 .. 1000
  BY <1>2
<1>. QED
  BY <1>3 DEF sum, Weighted

\* Each signal, band and score has the type of its column.
LEMMA ScoreTypes ==
  /\ \A agreement \in Agreements : ContractualScore(agreement) \in Contractuals
  /\ \A score \in 0 .. 1000 : ClassifyBand(score) \in Bands
  /\ \A mentions \in Nat : ExternalScore(mentions) \in Externals
  /\ \A finding \in Finding : InternalScore(finding) \in Internals
  /\ NotScanned \in Externals
<1>1. \A agreement \in Agreements : ContractualScore(agreement) \in Contractuals
  BY DEF ContractualScore, Agreements, Contractuals
<1>2. \A score \in 0 .. 1000 : ClassifyBand(score) \in Bands
  BY DEF ClassifyBand, Bands
<1>3. \A mentions \in Nat : ExternalScore(mentions) \in Externals
  BY DEF ExternalScore, Externals
<1>4. \A finding \in Finding : InternalScore(finding) \in Internals
  BY DEF InternalScore, Finding, Internals
<1>. QED
  BY <1>1, <1>2, <1>3, <1>4 DEF NotScanned, Externals

\* The signals of a row add up.
Sound(row) ==
  /\ row.score = Weighted(row.internal, row.external, row.contractual)
  /\ row.band = ClassifyBand(row.score)

\* An assessment is a row whose score follows from its signals.
LEMMA AssessedRow ==
  ASSUME NEW s \in Session
  PROVE  /\ Assessed(s) \in Row /\ Sound(Assessed(s))
         /\ Assessed(s).contractual = ContractualScore(s.record)
<1> DEFINE contractual == ContractualScore(s.record)
           score == Weighted(s.internal, s.external, contractual)
<1>1. /\ s.internal \in Internals /\ s.external \in Externals
      /\ s.record \in Agreements
  BY DEF Session, Internals, Externals
<1>2. contractual \in Contractuals
  BY <1>1, ScoreTypes
<1> HIDE DEF contractual
<1>3. score \in 0 .. 1000
  BY <1>1, <1>2, WeightedType
<1> HIDE DEF score
<1>4. ClassifyBand(score) \in Bands
  BY <1>3, ScoreTypes
<1>5. Assessed(s) = [score |-> score, band |-> ClassifyBand(score), internal |-> s.internal,
                     external |-> s.external, contractual |-> contractual]
  BY DEF Assessed, score, contractual
<1>6. Assessed(s) \in Row
  BY <1>1, <1>2, <1>3, <1>4, <1>5 DEF Row, Internals, Externals, Contractuals
<1>7. Sound(Assessed(s))
  BY <1>5 DEF Sound, score
<1>. QED
  BY <1>5, <1>6, <1>7 DEF contractual

\* The absence of a row is no row.
LEMMA NoRowIsNone == NoRow \notin Row
BY DEF NoRow, Row

\* Merged over the row that the session has read is what it has computed; the
\* contractual signal already if that column is as it was read.
LEMMA MergedRow ==
  ASSUME NEW row \in Row, NEW read \in Row, NEW new \in Row
  PROVE  /\ Merged(row, read, new) \in Row
         /\ row = read => Merged(row, read, new) = new
         /\ row.contractual \in {read.contractual, new.contractual} =>
              Merged(row, read, new).contractual = new.contractual
<1>1. \A a, b, c : MergedScore(a, b, c) \in {a, c} /\ MergedScore(a, a, c) = c
                   /\ MergedScore(c, b, c) = c
  BY DEF MergedScore
<1> HIDE DEF MergedScore
<1>2. Merged(row, read, new) \in Row
  BY <1>1 DEF Merged, Row
<1>3. ASSUME row = read PROVE Merged(row, read, new) = new
  BY <1>1, <1>3 DEF Merged, Row
<1>4. Merged(row, read, new).contractual = MergedScore(row.contractual, read.contractual, new.contractual)
  BY DEF Merged
<1>. QED
  BY <1>1, <1>2, <1>3, <1>4

-----------------------------------------------------------------------------
(* The initial state, and the steps that change one session only.          *)

\* A session without a request holds nothing.
LEMMA NoRequestHolds == NoRequest \in Session /\ NoRequest.at = "idle" /\ Holds(NoRequest)
<1>1. (CHOOSE v \in Vendors : TRUE) \in Vendors
  BY VendorAssumption
<1>2. /\ NoRequest \in Session /\ NoRequest.at = "idle" /\ NoRequest.row = NoRow /\ ~NoRequest.dpa
  BY <1>1 DEF NoRequest, Session, Agreements
<1>. QED
  BY <1>2 DEF Holds, Holding

\* No vendor has been assessed at the start.
LEMMA VendorInitInv == VendorInit => VendorInv
<1> SUFFICES ASSUME VendorInit PROVE VendorInv
  OBVIOUS
<1>1. VendorTypeOK
  <2>1. agreements \in [Vendors -> Agreements] /\ index \in [Vendors -> Row \cup {NoRow}]
    BY DEF VendorInit, Agreements
  <2>2. sessions \in [Requests -> Session]
    BY NoRequestHolds DEF VendorInit
  <2>. QED
    BY <2>1, <2>2 DEF VendorInit, VendorTypeOK
<1>2. \A r \in Requests : Holds(sessions[r])
  BY NoRequestHolds DEF VendorInit
<1>3. Exclusive
  BY NoRequestHolds DEF VendorInit, Exclusive, Locks
<1>4. AgreementIsAssessed /\ SignalsAddUp
  BY DEF VendorInit, AgreementIsAssessed, SignalsAddUp
<1>. QED
  BY <1>1, <1>2, <1>3, <1>4 DEF VendorInv

\* r goes on to a state that it may be in, and what it holds no other session does.
LEMMA SessionStep ==
  ASSUME VendorInv, NEW r \in Requests, NEW s \in Session,
         sessions' = [sessions EXCEPT ![r] = s],
         UNCHANGED <<agreements, index, outdated, mixed>>,
         Holds(s),
         Holding(s) => \A q \in Requests \ {r} : Locks(q) => sessions[q].vendor # s.vendor
  PROVE  VendorInv'
<1>1. sessions \in [Requests -> Session]
  BY DEF VendorInv, VendorTypeOK
<1>2. VendorTypeOK'
  BY <1>1 DEF VendorInv, VendorTypeOK
<1>3. ASSUME NEW q \in Requests PROVE Holds(sessions[q])'
  <2>1. Holds(sessions'[q])
    BY <1>1 DEF VendorInv
  <2>. QED
    BY <2>1 DEF Holds
<1>4. Exclusive'
  <2> SUFFICES ASSUME NEW p \in Requests, NEW q \in Requests, p # q, Locks(p)', Locks(q)'
               PROVE  sessions'[p].vendor # sessions'[q].vendor
    BY DEF Exclusive
  <2>1. \A x \in Requests : sessions'[x] = IF x = r THEN s ELSE sessions[x]
    BY <1>1
  <2>2. \A x \in Requests : Locks(x)' <=> IF x = r THEN Holding(s) ELSE Locks(x)
    BY <2>1 DEF Locks, Holding
  <2>3. CASE p = r
    BY <2>1, <2>2, <2>3
  <2>4. CASE q = r
    BY <2>1, <2>2, <2>4
  <2>5. CASE p # r /\ q # r
    BY <2>1, <2>2, <2>5 DEF VendorInv, Exclusive
  <2>. QED
    BY <2>3, <2>4, <2>5
<1>5. AgreementIsAssessed' /\ SignalsAddUp'
  BY DEF VendorInv, AgreementIsAssessed, SignalsAddUp
<1>. QED
  BY <1>2, <1>3, <1>4, <1>5 DEF VendorInv

\* A request that ends without a write preserves the invariant.
LEMMA RequestEnds ==
  ASSUME VendorInv, NEW r \in Requests, sessions' = [sessions EXCEPT ![r] = NoRequest],
         UNCHANGED <<agreements, index, outdated, mixed>>
  PROVE  VendorInv'
BY NoRequestHolds, SessionStep DEF Holding

\* An assessment begins and holds nothing yet that others could change.
LEMMA AssessVendorInv ==
  ASSUME VendorInv, NEW r \in Requests, NEW v \in Vendors, NEW scan \in BOOLEAN,
         NEW finding \in Findings, AssessVendor(r, v, scan, finding)
  PROVE  VendorInv'
<1> DEFINE s == [NoRequest EXCEPT !.at = "row", !.vendor = v, !.scan = scan,
                             !.internal = InternalScore(finding)]
<1>1. InternalScore(finding) \in Internals
  BY ScoreTypes, VendorAssumption
<1>2. s \in Session
  BY <1>1, NoRequestHolds, SessionFields
<1>3. s.at = "row" /\ ~s.dpa /\ s.row = NoRow
  BY DEF NoRequest
<1>4. Holds(s) /\ ~Holding(s)
  BY <1>3 DEF Holds, Holding
<1>5. sessions' = [sessions EXCEPT ![r] = s] /\ UNCHANGED <<agreements, index, outdated, mixed>>
  BY DEF AssessVendor
<1> HIDE DEF s
<1>. QED
  BY <1>2, <1>4, <1>5, SessionStep

\* The first read of an update of the agreement.
LEMMA UpdateDpaInv ==
  ASSUME VendorInv, NEW r \in Requests, NEW v \in Vendors, NEW said \in Agreements,
         UpdateDpa(r, v, said)
  PROVE  VendorInv'
<1> DEFINE s == [NoRequest EXCEPT !.at = "record", !.vendor = v, !.dpa = TRUE, !.said = said,
                             !.record = agreements[v]]
<1>1. agreements[v] \in Agreements
  BY DEF VendorInv, VendorTypeOK
<1>2. s \in Session
  BY <1>1, NoRequestHolds, SessionFields
<1>3. s.at = "record" /\ s.row = NoRow /\ s.record = agreements[s.vendor]
  BY DEF NoRequest
<1>4. Holds(s) /\ ~Holding(s)
  BY <1>3 DEF Holds, Holding
<1>5. sessions' = [sessions EXCEPT ![r] = s] /\ UNCHANGED <<agreements, index, outdated, mixed>>
  BY DEF UpdateDpa
<1> HIDE DEF s
<1>. QED
  BY <1>2, <1>4, <1>5, SessionStep

\* The flush takes the lock that no other session holds, over the agreement as it is.
LEMMA FlushDpaInv ==
  ASSUME VendorInv, NEW r \in Requests, NEW finding \in Findings, FlushDpa(r, finding)
  PROVE  VendorInv'
<1> DEFINE o == sessions[r]
           s == [sessions[r] EXCEPT !.at = "row", !.record = Written(r),
                                    !.internal = InternalScore(finding)]
<1>1. /\ o \in Session /\ Holds(o) /\ o.at = "record" /\ ~AgreementLocked(o.vendor)
      /\ agreements[o.vendor] \in Agreements
  BY DEF VendorInv, VendorTypeOK, FlushDpa, Session
<1>2. InternalScore(finding) \in Internals
  BY ScoreTypes, VendorAssumption
<1>3. Written(r) \in Agreements
  BY <1>1 DEF Written, Session
<1>4. s \in Session
  BY <1>1, <1>2, <1>3, SessionFields
<1>5. /\ s.at = "row" /\ s.record = Written(r) /\ s.vendor = o.vendor /\ s.dpa = o.dpa
      /\ s.row = o.row /\ s.stale = o.stale /\ s.said = o.said
  BY <1>1, SessionFields
<1>6. ~s.stale /\ s.dpa => s.record = s.said
  BY <1>1, <1>5 DEF Written, Holds
<1> HIDE DEF s
<1>7. Holds(s)
  BY <1>1, <1>5, <1>6 DEF Holds, Holding
<1>8. \A q \in Requests \ {r} : Locks(q) => sessions[q].vendor # s.vendor
  BY <1>1, <1>5 DEF AgreementLocked
<1>9. sessions' = [sessions EXCEPT ![r] = s] /\ UNCHANGED <<agreements, index, outdated, mixed>>
  BY DEF FlushDpa, s
<1>. QED
  BY <1>4, <1>7, <1>8, <1>9, SessionStep

\* The read of the index row.
LEMMA HasRowInv ==
  ASSUME VendorInv, NEW r \in Requests, NEW external \in Externals,
         sessions[r].at = "row", HasRow(r, external)
  PROVE  VendorInv'
<1> DEFINE o == sessions[r]
           s == [sessions[r] EXCEPT !.at = IF o.dpa THEN "store" ELSE "agreement",
                   !.scan = FALSE, !.row = index[o.vendor], !.external = external]
<1>1. /\ o \in Session /\ Holds(o) /\ o.at = "row"
      /\ index[o.vendor] \in Row \cup {NoRow}
  BY DEF VendorInv, VendorTypeOK, Session
<1>2. s \in Session
  BY <1>1, SessionFields
<1>3. /\ s.at = (IF o.dpa THEN "store" ELSE "agreement") /\ s.row = index[o.vendor]
      /\ s.vendor = o.vendor /\ s.dpa = o.dpa /\ s.record = o.record
      /\ s.stale = o.stale /\ s.said = o.said
  BY <1>1, SessionFields
<1> HIDE DEF s
<1>4. o.vendor \in Vendors
  BY <1>1, SessionFields
<1>5. s.row # NoRow /\ s.vendor \notin outdated =>
        s.row.contractual = ContractualScore(agreements[s.vendor])
  BY <1>3, <1>4 DEF VendorInv, AgreementIsAssessed
<1>6. Holds(s)
  BY <1>1, <1>3, <1>5 DEF Holds, Holding
<1>7. Holding(s) => Locks(r)
  BY <1>1, <1>3 DEF Holding, Locks
<1>8. Holding(s) => \A q \in Requests \ {r} : Locks(q) => sessions[q].vendor # s.vendor
  BY <1>3, <1>7 DEF VendorInv, Exclusive
<1>9. sessions' = [sessions EXCEPT ![r] = s] /\ UNCHANGED <<agreements, index, outdated, mixed>>
  BY DEF HasRow, s
<1>. QED
  BY <1>2, <1>6, <1>8, <1>9, SessionStep

\* A session reads the committed agreement, or the one that it has flushed itself.
LEMMA ReadAgreementInv ==
  ASSUME VendorInv, NEW r \in Requests, ReadAgreement(r)
  PROVE  VendorInv'
<1> DEFINE o == sessions[r]
           s == [sessions[r] EXCEPT !.at = "store", !.record = agreements[o.vendor]]
<1>1. /\ o \in Session /\ Holds(o) /\ o.at = "agreement"
      /\ agreements[o.vendor] \in Agreements
  BY DEF VendorInv, VendorTypeOK, Session, ReadAgreement
<1>2. s \in Session
  BY <1>1, SessionFields
<1>3. /\ s.at = "store" /\ s.row = o.row /\ s.vendor = o.vendor /\ s.dpa = o.dpa
      /\ s.record = agreements[o.vendor] /\ s.stale = o.stale
  BY <1>1, SessionFields
<1> HIDE DEF s
<1>4. Holds(s) /\ ~Holding(s)
  BY <1>1, <1>3 DEF Holds, Holding
<1>5. sessions' = [sessions EXCEPT ![r] = s] /\ UNCHANGED <<agreements, index, outdated, mixed>>
  BY DEF ReadAgreement, s
<1>. QED
  BY <1>2, <1>4, <1>5, SessionStep

-----------------------------------------------------------------------------
(* The commit of an assessment.                                            *)

\* What r stores in the row, in one word.
Result(r) ==
  LET s == sessions[r]
      new == Assessed([s EXCEPT !.record = IF s.dpa THEN s.said ELSE @])
  IN  IF s.row = NoRow THEN new ELSE Merged(index[s.vendor], s.row, new)

\* It is a row; one that was read as it is becomes what was computed; and unless the vendor
\* stays outdated, the agreement that is committed with it is the one it was computed from.
LEMMA ResultOfStore ==
  ASSUME VendorInv, NEW r \in Requests, Store(r)
  PROVE  LET s == sessions[r] IN
           /\ s \in Session /\ Result(r) \in Row
           /\ s.row = index[s.vendor] => Sound(Result(r))
           /\ s.vendor \notin outdated' =>
                Result(r).contractual = ContractualScore(IF s.dpa THEN s.record ELSE agreements[s.vendor])
<1> DEFINE s == sessions[r]
           believed == IF s.dpa THEN s.said ELSE s.record
           t == [s EXCEPT !.record = believed]
           new == Assessed(t)
           row == index[s.vendor]
           agreement == IF s.dpa THEN s.record ELSE agreements[s.vendor]
<1>1. s \in Session /\ Holds(s) /\ s.at = "store" /\ (s.row = NoRow => row = NoRow)
  BY DEF VendorInv, VendorTypeOK, Store
<1>2. s.vendor \in Vendors /\ s.said \in Agreements /\ s.record \in Agreements
      /\ s.row \in Row \cup {NoRow} /\ s.dpa \in BOOLEAN
  BY <1>1, SessionFields
<1>3. t \in Session /\ t.record = believed
  BY <1>1, <1>2, SessionFields
<1>4. new \in Row /\ Sound(new) /\ new.contractual = ContractualScore(believed)
  BY <1>3, AssessedRow
<1>5. row \in Row \cup {NoRow} /\ (s.row # NoRow => row # NoRow)
  BY <1>1, <1>2 DEF VendorInv, VendorTypeOK, Holds
<1>6. Result(r) = IF s.row = NoRow THEN new ELSE Merged(row, s.row, new)
  BY <1>1, <1>2 DEF Result
<1>7. outdated' = IF s.stale THEN outdated \cup {s.vendor}
                  ELSE IF Undisturbed(r) THEN outdated \ {s.vendor} ELSE outdated
  BY DEF Store
<1>8. Undisturbed(r) => s.row = row
  BY DEF Undisturbed
<1>9. ~s.stale => believed = agreement
  BY <1>1, <1>2 DEF Holds, Holding
<1>10. s.vendor \notin outdated /\ row # NoRow =>
         row.contractual = ContractualScore(agreements[s.vendor])
  BY <1>2 DEF VendorInv, AgreementIsAssessed
<1>11. s.vendor \notin outdated /\ s.row # NoRow /\ s.dpa =>
         s.row.contractual = ContractualScore(agreements[s.vendor])
  BY <1>1 DEF Holds, Holding
<1> HIDE DEF t, new, row
<1>12. s.row # NoRow =>
         /\ Merged(row, s.row, new) \in Row
         /\ row = s.row => Merged(row, s.row, new) = new
         /\ row.contractual \in {s.row.contractual, new.contractual} =>
              Merged(row, s.row, new).contractual = new.contractual
  BY <1>2, <1>4, <1>5, MergedRow
<1>13. Result(r) \in Row /\ (s.row = row => Result(r) = new)
  BY <1>4, <1>6, <1>12
<1>14. ASSUME s.vendor \notin outdated' PROVE Result(r).contractual = ContractualScore(agreement)
  <2>1. ~s.stale
    BY <1>7, <1>14
  <2>2. new.contractual = ContractualScore(agreement)
    BY <1>4, <1>9, <2>1
  <2>3. CASE s.row = NoRow \/ s.row = row
    BY <1>6, <1>13, <2>2, <2>3
  <2>4. CASE s.row # NoRow /\ s.row # row
    <3>1. s.vendor \notin outdated
      BY <1>7, <1>8, <1>14, <2>1, <2>4
    <3>2. row.contractual \in {s.row.contractual, new.contractual}
      BY <1>5, <1>10, <1>11, <2>2, <2>4, <3>1
    <3>. QED
      BY <1>6, <1>12, <2>2, <2>4, <3>2
  <2>. QED
    BY <2>3, <2>4
<1>. QED
  BY <1>1, <1>4, <1>13, <1>14 DEF row


\* The commit merges columns into a row that may have changed since it was read.
LEMMA StoreInv ==
  ASSUME VendorInv, NEW r \in Requests, Store(r)
  PROVE  VendorInv'
<1> DEFINE s == sessions[r]
           agreement == IF s.dpa THEN s.record ELSE agreements[s.vendor]
           Stale(q) == sessions[q].stale \/ (sessions[q].vendor = s.vendor /\ HasRead(q)
                                             /\ agreement # agreements[s.vendor])
           result == Result(r)
<1>1. /\ s \in Session /\ result \in Row
      /\ s.row = index[s.vendor] => Sound(result)
      /\ s.vendor \notin outdated' => result.contractual = ContractualScore(agreement)
  BY ResultOfStore
<1>2. /\ s.vendor \in Vendors /\ s.record \in Agreements /\ s.dpa \in BOOLEAN
  BY <1>1, SessionFields
<1>3. /\ sessions \in [Requests -> Session] /\ agreements \in [Vendors -> Agreements]
      /\ index \in [Vendors -> Row \cup {NoRow}] /\ outdated \subseteq Vendors /\ mixed \subseteq Vendors
  BY DEF VendorInv, VendorTypeOK
<1>4. agreement \in Agreements
  BY <1>2, <1>3
<1>5. s.at = "store"
  BY DEF Store
<1>6. /\ agreements' = [agreements EXCEPT ![s.vendor] = agreement]
      /\ sessions' = [q \in Requests |->
           IF q = r THEN NoRequest ELSE [sessions[q] EXCEPT !.stale = Stale(q)]]
      /\ outdated' = IF s.stale THEN outdated \cup {s.vendor}
                     ELSE IF Undisturbed(r) THEN outdated \ {s.vendor} ELSE outdated
      /\ mixed' = IF s.row = index[s.vendor] THEN mixed \ {s.vendor} ELSE mixed \cup {s.vendor}
  BY DEF Store
<1>7. index' = [index EXCEPT ![s.vendor] = result]
  BY <1>2, <1>3 DEF Store, Result
<1>8. \A q \in Requests : Stale(q) \in BOOLEAN
  BY <1>3, SessionFields DEF HasRead
<1> HIDE DEF s, agreement, result, Stale
<1>9. VendorTypeOK'
  <2>1. \A q \in Requests : sessions[q] \in Session => [sessions[q] EXCEPT !.stale = Stale(q)] \in Session
    BY <1>8, SessionFields
  <2>2. sessions' \in [Requests -> Session]
    BY <1>3, <1>6, <2>1, NoRequestHolds
  <2>3. agreements' \in [Vendors -> Agreements] /\ index' \in [Vendors -> Row \cup {NoRow}]
    BY <1>1, <1>2, <1>3, <1>4, <1>6, <1>7
  <2>4. outdated' \subseteq Vendors /\ mixed' \subseteq Vendors
    BY <1>2, <1>3, <1>6
  <2>. QED
    BY <2>2, <2>3, <2>4 DEF VendorTypeOK
<1>10. /\ \A v \in Vendors \ {s.vendor} : agreements'[v] = agreements[v] /\ index'[v] = index[v]
       /\ agreements'[s.vendor] = agreement /\ index'[s.vendor] = result
       /\ result # NoRow
  BY <1>1, <1>2, <1>3, <1>6, <1>7, NoRowIsNone
<1>11. \A v \in Vendors \ {s.vendor} : /\ v \in outdated' <=> v \in outdated
                                       /\ v \in mixed' <=> v \in mixed
  BY <1>6
<1>12. \A q \in Requests \ {r} :
         LET t == sessions'[q] IN
         /\ t.at = sessions[q].at /\ t.vendor = sessions[q].vendor /\ t.dpa = sessions[q].dpa
         /\ t.said = sessions[q].said /\ t.record = sessions[q].record /\ t.row = sessions[q].row
         /\ t.stale = Stale(q)
  BY <1>3, <1>6, SessionFields
<1>13. sessions'[r] = NoRequest
  BY <1>6
<1>14. ASSUME NEW q \in Requests PROVE Holds(sessions[q])'
  <2>1. CASE q = r
    BY <1>13, <2>1, NoRequestHolds DEF Holds, Holding, NoRequest
  <2>2. CASE q # r
    <3> DEFINE t == sessions[q]
    <3>1. Holds(t) /\ t \in Session /\ t.vendor \in Vendors
      BY <1>3, SessionFields DEF VendorInv
    <3>2. t.row # NoRow => index'[t.vendor] # NoRow
      BY <1>10, <3>1 DEF Holds
    <3>3. ~Stale(q) => ~t.stale
      BY DEF Stale
    <3>4. ~Stale(q) /\ HasRead(q) => agreements'[t.vendor] = agreements[t.vendor]
      BY <1>10, <3>1 DEF Stale
    <3>5. t.at = "store" \/ (t.at = "record" /\ t.dpa) => HasRead(q)
      BY DEF HasRead
    <3>6. ASSUME Holding(t), t.at = "store", t.row # NoRow, t.vendor \notin outdated'
          PROVE  t.row.contractual = ContractualScore(agreements'[t.vendor])
      <4>1. CASE t.vendor # s.vendor
        BY <1>10, <1>11, <3>1, <3>6, <4>1 DEF Holds
      <4>2. CASE t.vendor = s.vendor
        <5>1. ~Undisturbed(r)
          BY <2>2, <3>6, <4>2 DEF Undisturbed, s
        <5>2. t.vendor \notin outdated
          BY <1>6, <3>6, <4>2, <5>1
        <5>3. ~s.dpa
          BY <1>5, <2>2, <3>6, <4>2 DEF VendorInv, Exclusive, Locks, Holding, s
        <5>4. agreements'[t.vendor] = agreements[t.vendor]
          BY <1>10, <4>2, <5>3 DEF agreement
        <5>. QED
          BY <3>1, <3>6, <5>2, <5>4 DEF Holds
      <4>. QED
        BY <4>1, <4>2
    <3> DEFINE u == sessions'[q]
    <3>7. /\ u.at = t.at /\ u.vendor = t.vendor /\ u.dpa = t.dpa /\ u.said = t.said
          /\ u.record = t.record /\ u.row = t.row /\ u.stale = Stale(q)
      BY <1>12, <2>2
    <3> HIDE DEF t, u
    <3>8. /\ u.row # NoRow => index'[u.vendor] # NoRow
          /\ u.at = "agreement" => ~u.dpa
          /\ ~u.stale /\ u.at = "record" /\ u.dpa => u.record = agreements'[u.vendor]
          /\ ~u.stale /\ u.at = "store" /\ ~u.dpa => u.record = agreements'[u.vendor]
          /\ ~u.stale /\ Holding(u) => u.record = u.said
      BY <3>1, <3>2, <3>3, <3>4, <3>5, <3>7 DEF Holds, Holding
    <3>9. Holding(u) /\ u.at = "store" /\ u.row # NoRow /\ u.vendor \notin outdated' =>
            u.row.contractual = ContractualScore(agreements'[u.vendor])
      BY <3>6, <3>7 DEF Holding
    <3>. QED
      BY <3>8, <3>9 DEF Holds, Holding, u
  <2>. QED
    BY <2>1, <2>2
<1>15. Exclusive'
  <2>1. \A q \in Requests : Locks(q)' => q # r /\ Locks(q)
    BY <1>12, <1>13, NoRequestHolds DEF Locks
  <2>. QED
    BY <1>12, <2>1 DEF VendorInv, Exclusive
<1>16. AgreementIsAssessed'
  <2> SUFFICES ASSUME NEW v \in Vendors, v \notin outdated'
               PROVE  index'[v] = NoRow \/ index'[v].contractual = ContractualScore(agreements'[v])
    BY DEF AgreementIsAssessed
  <2>1. CASE v = s.vendor
    BY <1>1, <1>10, <2>1
  <2>2. CASE v # s.vendor
    BY <1>10, <1>11, <2>2 DEF VendorInv, AgreementIsAssessed
  <2>. QED
    BY <2>1, <2>2
<1>17. SignalsAddUp'
  <2> SUFFICES ASSUME NEW v \in Vendors, v \notin mixed', index'[v] # NoRow
               PROVE  Sound(index'[v])
    BY DEF SignalsAddUp, Sound
  <2>1. CASE v = s.vendor
    BY <1>1, <1>6, <1>10, <2>1
  <2>2. CASE v # s.vendor
    BY <1>10, <1>11, <2>2 DEF VendorInv, SignalsAddUp, Sound
  <2>. QED
    BY <2>1, <2>2
<1>. QED
  BY <1>9, <1>14, <1>15, <1>16, <1>17 DEF VendorInv

\* A restart ends every session and takes back what it flushed.
LEMMA RestartInv == VendorInv /\ Restart => VendorInv'
<1> SUFFICES ASSUME VendorInv, Restart PROVE VendorInv'
  OBVIOUS
<1>1. UNCHANGED <<agreements, index, outdated, mixed>> /\ \A r \in Requests : sessions'[r] = NoRequest
  BY DEF Restart
<1>2. VendorTypeOK'
  BY <1>1, NoRequestHolds DEF VendorInv, VendorTypeOK, Restart
<1>3. \A r \in Requests : Holds(sessions[r])'
  BY <1>1, NoRequestHolds DEF Holds, Holding, NoRequest
<1>4. Exclusive'
  BY <1>1, NoRequestHolds DEF Exclusive, Locks
<1>5. AgreementIsAssessed' /\ SignalsAddUp'
  BY <1>1 DEF VendorInv, AgreementIsAssessed, SignalsAddUp
<1>. QED
  BY <1>2, <1>3, <1>4, <1>5 DEF VendorInv

\* Every step preserves the invariant.
LEMMA VendorStepInv == VendorInv /\ [VendorNext]_vendorVars => VendorInv'
<1> SUFFICES ASSUME VendorInv, [VendorNext]_vendorVars PROVE VendorInv'
  OBVIOUS
<1>1. ASSUME NEW r \in Requests, NEW v \in Vendors, NEW scan \in BOOLEAN, NEW finding \in Findings,
             AssessVendor(r, v, scan, finding)
      PROVE  VendorInv'
  BY <1>1, AssessVendorInv
<1>2. ASSUME NEW r \in Requests, NEW v \in Vendors, NEW said \in Agreements \ {"none"},
             UpdateDpa(r, v, said)
      PROVE  VendorInv'
  BY <1>2, UpdateDpaInv
<1>3. ASSUME NEW r \in Requests, NEW finding \in Findings, FlushDpa(r, finding) PROVE VendorInv'
  BY <1>3, FlushDpaInv
<1>4. ASSUME NEW r \in Requests, NEW mentions \in Mentions, ReadRowAndScan(r, mentions) PROVE VendorInv'
  <2>1. ExternalScore(mentions) \in Externals
    BY ScoreTypes, VendorAssumption
  <2>. QED
    BY <1>4, <2>1, HasRowInv DEF ReadRowAndScan
<1>5. ASSUME NEW r \in Requests, ReadRow(r) PROVE VendorInv'
  BY <1>5, ScoreTypes, HasRowInv DEF ReadRow
<1>6. ASSUME NEW r \in Requests, DpaConflicts(r) \/ StoreConflicts(r) \/ StoreRolledBack(r) PROVE VendorInv'
  BY <1>6, RequestEnds DEF DpaConflicts, StoreConflicts, StoreRolledBack
<1>7. ASSUME NEW r \in Requests, ReadAgreement(r) PROVE VendorInv'
  BY <1>7, ReadAgreementInv
<1>8. ASSUME NEW r \in Requests, Store(r) PROVE VendorInv'
  BY <1>8, StoreInv
<1>9. CASE Restart
  BY <1>9, RestartInv
<1>10. CASE UNCHANGED vendorVars
  BY <1>10 DEF vendorVars, VendorInv, VendorTypeOK, Holds, Exclusive, Locks, AgreementIsAssessed, SignalsAddUp
<1>. QED
  BY <1>1, <1>2, <1>3, <1>4, <1>5, <1>6, <1>7, <1>8, <1>9, <1>10 DEF VendorNext

-----------------------------------------------------------------------------
(* The theorems.                                                           *)

\* The invariant of the sessions and the index holds throughout.
LEMMA VendorInvariance == VendorSpec => []VendorInv
BY VendorInitInv, VendorStepInv, PTL DEF VendorSpec

\* The index, the agreements and the sessions have the types of their tables' columns.
THEOREM VendorTypes == VendorSpec => []VendorTypeOK
<1>1. VendorInv => VendorTypeOK
  BY DEF VendorInv
<1>. QED
  BY <1>1, VendorInvariance, PTL

\* However many requests overlap, fail or are undone: an assessed vendor that no late session
\* has overwritten has the contractual signal of its agreement.
THEOREM AgreementIsKnown == VendorSpec => []AgreementIsAssessed
<1>1. VendorInv => AgreementIsAssessed
  BY DEF VendorInv
<1>. QED
  BY <1>1, VendorInvariance, PTL

\* The score of a row is the weighted sum of the signals stored beside it, and the band its
\* band, wherever the last session to write the row had read it as it was.
THEOREM ScoreAddsUp == VendorSpec => []SignalsAddUp
<1>1. VendorInv => SignalsAddUp
  BY DEF VendorInv
<1>. QED
  BY <1>1, VendorInvariance, PTL
=============================================================================
