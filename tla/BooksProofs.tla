---------------------------- MODULE BooksProofs ----------------------------
(***************************************************************************)
(* What is proved of a space's books: its chart is complete once it says   *)
(* it is ready, a recurrence turns each occurrence into money at most      *)
(* once, a statement file is imported whole and booked once, and so is a   *)
(* bank's statement.                                                       *)
(***************************************************************************)
EXTENDS Chart, Recurrences, Imports, Statement, FiniteSetTheorems, WellFoundedInduction, TLAPS

----------------------------------------------------------------------------
(* The chart.                                                              *)

(* The rows are there to be read: a row that is there has a key field.     *)
ChartShape(C) ==
    /\ C = [id \in AllIds |-> C[id]]
    /\ \A id \in AllIds : /\ "there" \in DOMAIN C[id] /\ C[id].there \in BOOLEAN
                          /\ C[id].there => "key" \in DOMAIN C[id]

(* A default is dealt with: it is there with its key, or was left out.     *)
DefaultsDone(C, S) ==
    \A id \in DefaultIds \ S : C[id].there /\ (id \in KeyedIds => C[id].key)

(* What a seeding that has read the chart is bound to finish: whatever it  *)
(* does not hold is dealt with.                                            *)
SeedingOK(s, C, S) ==
    /\ DOMAIN s = {"at", "left", "keys"}
    /\ s.keys \subseteq KeyedIds /\ s.left \subseteq DefaultIds
    /\ \A id \in DefaultIds : C[id].there \/ id \in s.left \/ id \in S
    /\ \A id \in KeyedIds : C[id].there => C[id].key \/ id \in s.keys
    /\ \A id \in s.keys : C[id].there

SessionOK(s, C, S) == s.at = "put" => SeedingOK(s, C, S)

ChartInv ==
    /\ DOMAIN space = {"there", "seed", "default", "post"}
    /\ ChartShape(chart)
    /\ session = [c \in ChartUsers |-> session[c]]
    /\ \A c \in ChartUsers : SessionOK(session[c], chart, skipped)
    /\ space.there => \A id \in SystemIds : In(id)
    /\ space.seed \in Nat
    /\ space.seed >= SeedVersion => DefaultsDone(chart, skipped)

(* Rows only come and gain keys, and a default with a key comes with it.   *)
Grows(C, D) ==
    /\ ChartShape(D)
    /\ \A id \in AllIds : C[id].there => D[id].there
    /\ \A id \in KeyedIds : (C[id].there /\ C[id].key) => D[id].key
    /\ \A id \in KeyedIds : (~C[id].there /\ D[id].there) => D[id].key

(* What a seeding has read stays true of a chart that grows.               *)
LEMMA SeedingSurvives ==
  ASSUME NEW s, NEW C, NEW D, NEW S, NEW T, ChartShape(C), Grows(C, D), S \subseteq T, SessionOK(s, C, S)
  PROVE  SessionOK(s, D, T)
<1>1. KeyedIds \subseteq DefaultIds /\ DefaultIds \subseteq AllIds
  BY ChartAssumption DEF AllIds
<1> SUFFICES ASSUME s.at = "put" PROVE SeedingOK(s, D, T)
  BY DEF SessionOK
<1>2. SeedingOK(s, C, S)
  BY DEF SessionOK
<1>3. \A id \in KeyedIds : D[id].there => D[id].key \/ id \in s.keys
  BY <1>1, <1>2 DEF Grows, SeedingOK, ChartShape
<1> QED
  BY <1>1, <1>2, <1>3 DEF Grows, SeedingOK

LEMMA DoneSurvives ==
  ASSUME NEW C, NEW D, NEW S, NEW T, ChartShape(C), Grows(C, D), S \subseteq T, DefaultsDone(C, S)
  PROVE  DefaultsDone(D, T)
<1>1. KeyedIds \subseteq DefaultIds /\ DefaultIds \subseteq AllIds
  BY ChartAssumption DEF AllIds
<1> QED
  BY <1>1 DEF Grows, DefaultsDone

(* A request moves on, the chart and the list of what was left out at most *)
(* grow, and the space's row says no more than is so.                      *)
LEMMA ChartMoves ==
  ASSUME ChartInv, NEW c \in ChartUsers, NEW r, Moves(c, r),
         Grows(chart, chart'), skipped \subseteq skipped', SessionOK(r, chart', skipped'),
         DOMAIN space' = {"there", "seed", "default", "post"},
         space'.there => \A id \in SystemIds : chart'[id].there,
         space'.seed \in Nat,
         (space'.seed >= SeedVersion) => (space.seed >= SeedVersion \/ DefaultsDone(chart', skipped'))
  PROVE  ChartInv'
<1>1. session' = [d \in ChartUsers |-> IF d = c THEN r ELSE session[d]]
  BY DEF Moves, ChartInv
<1>2. session' = [d \in ChartUsers |-> session'[d]]
  BY <1>1
<1>3. \A d \in ChartUsers : SessionOK(session'[d], chart', skipped')
  <2> TAKE d \in ChartUsers
  <2>1. CASE d = c
    BY <2>1, <1>1
  <2>2. CASE d # c
    <3>1. session'[d] = session[d]
      BY <2>2, <1>1
    <3>2. SessionOK(session[d], chart, skipped) /\ ChartShape(chart)
      BY DEF ChartInv
    <3> QED
      BY <3>1, <3>2, SeedingSurvives
  <2> QED
    BY <2>1, <2>2
<1>4. (space'.seed >= SeedVersion) => DefaultsDone(chart', skipped')
  <2>1. ChartShape(chart) /\ (space.seed >= SeedVersion => DefaultsDone(chart, skipped))
    BY DEF ChartInv
  <2> QED
    BY <2>1, DoneSurvives
<1>5. ChartShape(chart')
  BY DEF Grows
<1> QED
  BY <1>2, <1>3, <1>4, <1>5 DEF ChartInv, In


LEMMA ChartInitially == ASSUME ChartInit PROVE ChartInv
<1> PICK v \in OldSeed, gone \in SUBSET DefaultIds :
         IF v = 0 THEN /\ space = [there |-> FALSE, seed |-> 0, default |-> NoAccount, post |-> TRUE]
                       /\ chart = [id \in AllIds |-> Absent]
         ELSE /\ space = [there |-> TRUE, seed |-> v, default |-> NoAccount, post |-> TRUE]
              /\ chart = [id \in AllIds |->
                            IF id \in SystemIds \/ (id \in DefaultIds /\ v > 1)
                            THEN [Row(NameOf[id], ClassOf(id), FALSE) EXCEPT !.archived = id \in gone]
                            ELSE Absent]
  BY DEF ChartInit
<1>1. v \in Nat /\ ~(v >= SeedVersion) /\ ~(0 >= SeedVersion)
  BY ChartAssumption DEF SeedVersion
<1>2. ChartShape(chart) /\ (v # 0 => \A id \in SystemIds : In(id))
  <2>0. SystemIds \subseteq AllIds
    BY DEF AllIds
  <2>1. chart = [id \in AllIds |-> chart[id]]
    <3>1. CASE v = 0
      BY <3>1
    <3>2. CASE v # 0
      BY <3>2
    <3> QED
      BY <3>1, <3>2
  <2>2. "there" \in DOMAIN Absent /\ Absent.there = FALSE
    BY DEF Absent
  <2>3. \A id \in AllIds : LET R == [Row(NameOf[id], ClassOf(id), FALSE) EXCEPT !.archived = id \in gone]
                           IN  "there" \in DOMAIN R /\ "key" \in DOMAIN R /\ R.there = TRUE
    BY DEF Row
  <2>4. CASE v = 0
    BY <2>1, <2>2, <2>4 DEF ChartShape
  <2>5. CASE v # 0
    <3>1. \A id \in AllIds : chart[id] = IF id \in SystemIds \/ (id \in DefaultIds /\ v > 1)
                            THEN [Row(NameOf[id], ClassOf(id), FALSE) EXCEPT !.archived = id \in gone]
                            ELSE Absent
      BY <2>5
    <3> HIDE DEF Absent, Row
    <3>2. \A id \in AllIds : /\ "there" \in DOMAIN chart[id] /\ chart[id].there \in BOOLEAN
                             /\ chart[id].there => "key" \in DOMAIN chart[id]
      BY <3>1, <2>2, <2>3
    <3>3. \A id \in SystemIds : chart[id].there
      BY <2>0, <3>1, <2>3
    <3> QED
      BY <2>1, <3>2, <3>3 DEF ChartShape, In
  <2> QED
    BY <2>4, <2>5
<1>4. space.there => \A id \in SystemIds : In(id)
  <2>1. CASE v = 0
    BY <2>1
  <2>2. CASE v # 0
    BY <2>2, <1>2
  <2> QED
    BY <2>1, <2>2
<1>5. DOMAIN space = {"there", "seed", "default", "post"}
  <2>1. CASE v = 0
    BY <2>1
  <2>2. CASE v # 0
    BY <2>2
  <2> QED
    BY <2>1, <2>2
<1>6. space.seed \in Nat /\ ~(space.seed >= SeedVersion)
  <2>1. CASE v = 0
    BY <1>1, <2>1
  <2>2. CASE v # 0
    BY <1>1, <2>2
  <2> QED
    BY <2>1, <2>2
<1>7. session = [c \in ChartUsers |-> session[c]] /\ \A c \in ChartUsers : session[c].at # "put"
  BY DEF ChartInit, Resting
<1> QED
  BY <1>2, <1>4, <1>5, <1>6, <1>7 DEF ChartInv, SessionOK

(* A chart that stays as it is, gains a row, or keeps its rows' keys, has  *)
(* grown.                                                                  *)
LEMMA SameGrows == ASSUME ChartShape(chart), chart' = chart PROVE Grows(chart, chart')
  BY DEF Grows

LEMMA RowGrows ==
  ASSUME ChartShape(chart), NEW id \in AllIds, NEW name, NEW class, NEW key \in BOOLEAN, ~In(id), id \in KeyedIds => key,
         chart' = [chart EXCEPT ![id] = Row(name, class, key)]
  PROVE  Grows(chart, chart') /\ chart'[id].there /\ (id \in KeyedIds => chart'[id].key)
<1>1. chart' = [x \in AllIds |-> IF x = id THEN Row(name, class, key) ELSE chart[x]]
  BY DEF ChartShape
<1>2. KeyedIds \subseteq AllIds
  BY ChartAssumption DEF AllIds
<1> DEFINE R == Row(name, class, key)
<1>4. "there" \in DOMAIN R /\ "key" \in DOMAIN R /\ R.there = TRUE /\ R.key = key
  BY DEF Row
<1>5. \A x \in AllIds : chart'[x] = IF x = id THEN R ELSE chart[x]
  BY <1>1
<1> HIDE DEF R
<1>3. ChartShape(chart')
  <2>1. chart' = [x \in AllIds |-> chart'[x]]
    BY <1>1
  <2> QED
    BY <2>1, <1>4, <1>5 DEF ChartShape
<1> QED
  BY <1>2, <1>3, <1>4, <1>5 DEF Grows, In

LEMMA FieldGrows ==
  ASSUME ChartShape(chart), NEW id, NEW f \in {"archived", "name"}, NEW v,
         chart' = [chart EXCEPT ![id] = [@ EXCEPT ![f] = v]]
  PROVE  Grows(chart, chart')
<1>1. chart' = [x \in AllIds |-> IF x = id THEN [chart[x] EXCEPT ![f] = v] ELSE chart[x]]
  BY DEF ChartShape
<1>2. KeyedIds \subseteq AllIds
  BY ChartAssumption DEF AllIds
<1>3. \A x \in AllIds : DOMAIN chart'[x] = DOMAIN chart[x] /\ chart'[x].there = chart[x].there
                        /\ (chart[x].there => chart'[x].key = chart[x].key)
  BY <1>1 DEF ChartShape
<1>4. ChartShape(chart')
  <2>1. chart' = [x \in AllIds |-> chart'[x]]
    BY <1>1
  <2> QED
    BY <1>3, <2>1 DEF ChartShape
<1> QED
  BY <1>2, <1>3, <1>4 DEF Grows, In

LEMMA KeyGrows ==
  ASSUME ChartShape(chart), NEW id \in KeyedIds, In(id), chart' = [chart EXCEPT ![id].key = TRUE]
  PROVE  Grows(chart, chart') /\ chart'[id].key /\ chart'[id].there
<1>1. chart' = [x \in AllIds |-> IF x = id THEN [chart[x] EXCEPT !.key = TRUE] ELSE chart[x]]
  BY DEF ChartShape
<1>2. KeyedIds \subseteq AllIds
  BY ChartAssumption DEF AllIds
<1>3. \A x \in AllIds : DOMAIN chart'[x] = DOMAIN chart[x] /\ chart'[x].there = chart[x].there
  BY <1>1 DEF ChartShape
<1>4. \A x \in AllIds : chart[x].there /\ x # id => chart'[x].key = chart[x].key
  BY <1>1 DEF ChartShape
<1>5. chart'[id].key = TRUE
  BY <1>1, <1>2 DEF ChartShape, In
<1>6. ChartShape(chart')
  <2>1. chart' = [x \in AllIds |-> chart'[x]]
    BY <1>1
  <2> QED
    BY <1>3, <2>1 DEF ChartShape
<1> QED
  BY <1>2, <1>3, <1>4, <1>5, <1>6 DEF Grows, In

(* A request that reads, or writes accounts, and is not seeding.           *)
LEMMA ChartCalm ==
  ASSUME ChartInv, NEW c \in ChartUsers, NEW r, Moves(c, r), r.at # "put",
         Grows(chart, chart'), UNCHANGED <<space, skipped>>
  PROVE  ChartInv'
<1>0. SystemIds \subseteq AllIds
  BY DEF AllIds
<1>1. SessionOK(r, chart', skipped')
  BY DEF SessionOK
<1>2. space'.there => \A id \in SystemIds : chart'[id].there
  BY <1>0 DEF ChartInv, Grows, In
<1>3. DOMAIN space' = {"there", "seed", "default", "post"} /\ space'.seed \in Nat /\ skipped \subseteq skipped'
  BY DEF ChartInv
<1>4. (space'.seed >= SeedVersion) => (space.seed >= SeedVersion \/ DefaultsDone(chart', skipped'))
  OBVIOUS
<1> QED
  BY <1>1, <1>2, <1>3, <1>4, ChartMoves

(* Only the settings are written.                                          *)
LEMMA SettingsMove ==
  ASSUME ChartInv, NEW c \in ChartUsers, NEW r, Moves(c, r), r.at # "put", NEW f \in {"post", "default"}, NEW v,
         space' = [space EXCEPT ![f] = v], UNCHANGED <<chart, skipped>>
  PROVE  ChartInv'
<1>1. Grows(chart, chart')
  BY SameGrows DEF ChartInv
<1>2. SessionOK(r, chart', skipped')
  BY DEF SessionOK
<1>3. DOMAIN space' = {"there", "seed", "default", "post"} /\ space'.seed = space.seed /\ space'.there = space.there
  BY DEF ChartInv
<1>4. space'.there => \A id \in SystemIds : chart'[id].there
  BY <1>3 DEF ChartInv, In
<1>5. space'.seed \in Nat /\ skipped \subseteq skipped'
  BY <1>3 DEF ChartInv
<1>6. (space'.seed >= SeedVersion) => (space.seed >= SeedVersion \/ DefaultsDone(chart', skipped'))
  BY <1>3
<1> QED
  BY <1>1, <1>2, <1>3, <1>4, <1>5, <1>6, ChartMoves

LEMMA EnsureSpaceKeeps == ASSUME ChartInv, NEW c \in ChartUsers, EnsureSpace(c) PROVE ChartInv'
<1> DEFINE absent == ~space.there /\ \A id \in SystemIds : ~In(id)
<1>1. Moves(c, [at |-> "seed"]) /\ [at |-> "seed"].at # "put" /\ skipped' = skipped
  BY DEF EnsureSpace
<1>2. CASE ~absent
  <2>1. space' = space /\ chart' = chart
    BY <1>2 DEF EnsureSpace
  <2>2. Grows(chart, chart')
    BY <2>1, SameGrows DEF ChartInv
  <2> QED
    BY <1>1, <2>1, <2>2, ChartCalm
<1>3. CASE absent
  <2>0. SystemIds \subseteq AllIds /\ KeyedIds \subseteq AllIds
    BY ChartAssumption DEF AllIds
  <2>1. space' = [space EXCEPT !.there = TRUE]
    BY <1>3 DEF EnsureSpace
  <2>2. chart' = [id \in AllIds |-> IF id \in SystemIds THEN Row(NameOf[id], "system", TRUE) ELSE chart[id]]
    BY <1>3 DEF EnsureSpace
  <2>3. \A id \in AllIds : LET R == Row(NameOf[id], "system", TRUE)
                           IN  "there" \in DOMAIN R /\ "key" \in DOMAIN R /\ R.there = TRUE /\ R.key = TRUE
    BY DEF Row
  <2>4. chart' = [id \in AllIds |-> chart'[id]]
    BY <2>2
  <2>5. \A id \in AllIds : chart'[id] = IF id \in SystemIds THEN Row(NameOf[id], "system", TRUE) ELSE chart[id]
    BY <2>2
  <2>6. ChartShape(chart')
    BY <2>3, <2>4, <2>5 DEF ChartShape, ChartInv
  <2>7. Grows(chart, chart')
    BY <2>0, <2>3, <2>5, <2>6 DEF Grows
  <2>8. DOMAIN space' = {"there", "seed", "default", "post"} /\ space'.seed = space.seed
    BY <2>1 DEF ChartInv
  <2>9. space'.there => \A id \in SystemIds : chart'[id].there
    BY <2>0, <2>3, <2>5
  <2>10. space'.seed \in Nat /\ skipped \subseteq skipped' /\ SessionOK([at |-> "seed"], chart', skipped')
    BY <1>1, <2>8 DEF ChartInv, SessionOK
  <2>11. (space'.seed >= SeedVersion) => (space.seed >= SeedVersion \/ DefaultsDone(chart', skipped'))
    BY <2>8
  <2> QED
    BY <1>1, <2>7, <2>8, <2>9, <2>10, <2>11, ChartMoves
<1> QED
  BY <1>2, <1>3

LEMMA SeedReadsKeeps == ASSUME ChartInv, NEW c \in ChartUsers, SeedReads(c) PROVE ChartInv'
<1>0. chart' = chart /\ space' = space /\ Grows(chart, chart')
  BY SameGrows DEF SeedReads, ChartInv
<1>1. CASE space.seed >= SeedVersion
  <2>1. Moves(c, [at |-> "ready"]) /\ skipped' = skipped /\ [at |-> "ready"].at # "put"
    BY <1>1 DEF SeedReads
  <2> QED
    BY <1>0, <2>1, ChartCalm
<1>2. CASE ~(space.seed >= SeedVersion)
  <2> DEFINE missing == {id \in DefaultIds : ~In(id)}
             free    == {id \in missing : ~Taken(NameOf[id])}
             r == [at |-> "put", left |-> free, keys |-> {id \in KeyedIds : In(id) /\ ~chart[id].key}]
  <2>1. Moves(c, r) /\ skipped' = skipped \cup (missing \ free)
    BY <1>2 DEF SeedReads
  <2>2. SeedingOK(r, chart, skipped')
    <3>1. DOMAIN r = {"at", "left", "keys"} /\ r.left = free /\ r.keys = {id \in KeyedIds : In(id) /\ ~chart[id].key}
      OBVIOUS
    <3>2. free \subseteq DefaultIds /\ \A id \in DefaultIds : In(id) \/ id \in free \/ id \in skipped'
      BY <2>1
    <3> HIDE DEF r, free
    <3> QED
      BY <3>1, <3>2 DEF SeedingOK, In
  <2> HIDE DEF r, missing, free
  <2>3. SessionOK(r, chart', skipped') /\ skipped \subseteq skipped'
    BY <1>0, <2>1, <2>2 DEF SessionOK
  <2>4. DOMAIN space' = {"there", "seed", "default", "post"} /\ space'.seed \in Nat
    BY <1>0 DEF ChartInv
  <2>5. space'.there => \A id \in SystemIds : chart'[id].there
    BY <1>0 DEF ChartInv, In
  <2>6. (space'.seed >= SeedVersion) => (space.seed >= SeedVersion \/ DefaultsDone(chart', skipped'))
    BY <1>0, <1>2
  <2> QED
    BY <1>0, <2>1, <2>3, <2>4, <2>5, <2>6, ChartMoves
<1> QED
  BY <1>1, <1>2

(* A seeding puts one of the defaults it holds, or one of the keys.        *)
LEMMA SeedPutsKeeps == ASSUME ChartInv, NEW c \in ChartUsers, SeedPuts(c) PROVE ChartInv'
<1> DEFINE s == session[c]
<1>0. KeyedIds \subseteq AllIds /\ DefaultIds \subseteq AllIds /\ SystemIds \subseteq AllIds
  BY ChartAssumption DEF AllIds
<1>1. s.at = "put" /\ SeedingOK(s, chart, skipped) /\ ChartShape(chart)
  BY DEF SeedPuts, Sits, ChartInv, SessionOK
<1>2. space' = space /\ skipped' = skipped
  BY DEF SeedPuts
<1>3. ASSUME NEW id \in s.left,
             chart' = IF In(id) THEN chart
                      ELSE [chart EXCEPT ![id] = Row(NameOf[id], "category", id \in KeyedIds)],
             Moves(c, [s EXCEPT !.left = @ \ {id}])
      PROVE  \E r : Moves(c, r) /\ Grows(chart, chart') /\ SessionOK(r, chart', skipped)
  <2> DEFINE r == [s EXCEPT !.left = @ \ {id}]
  <2>0. id \in DefaultIds /\ id \in AllIds
    BY <1>0, <1>1 DEF SeedingOK
  <2>1. DOMAIN r = {"at", "left", "keys"} /\ r.left = s.left \ {id} /\ r.keys = s.keys
    BY <1>1 DEF SeedingOK
  <2>2. Grows(chart, chart') /\ chart'[id].there /\ (id \in KeyedIds => (chart'[id].key \/ id \in s.keys))
    <3>1. CASE In(id)
      BY <3>1, <1>3, <1>1, SameGrows DEF In, SeedingOK
    <3>2. CASE ~In(id)
      <4> DEFINE k == id \in KeyedIds
      <4>1. k \in BOOLEAN /\ (id \in KeyedIds => k)
        OBVIOUS
      <4>2. chart' = [chart EXCEPT ![id] = Row(NameOf[id], "category", k)]
        BY <3>2, <1>3
      <4> HIDE DEF k
      <4> QED
        BY <3>2, <4>1, <4>2, <2>0, <1>1, RowGrows
    <3> QED
      BY <3>1, <3>2
  <2> HIDE DEF r
  <2>3. SeedingOK(r, chart', skipped)
    <3>1. SessionOK(s, chart', skipped)
      BY <1>1, <2>2, SeedingSurvives DEF SessionOK
    <3> QED
      BY <1>1, <2>1, <2>2, <3>1 DEF SeedingOK, SessionOK
  <2> QED
    BY <1>3, <2>2, <2>3 DEF r, SessionOK
<1>4. ASSUME NEW id \in s.keys, chart' = [chart EXCEPT ![id].key = TRUE], Moves(c, [s EXCEPT !.keys = @ \ {id}])
      PROVE  \E r : Moves(c, r) /\ Grows(chart, chart') /\ SessionOK(r, chart', skipped)
  <2> DEFINE r == [s EXCEPT !.keys = @ \ {id}]
  <2>0. id \in KeyedIds /\ In(id)
    BY <1>1 DEF SeedingOK, In
  <2>1. DOMAIN r = {"at", "left", "keys"} /\ r.left = s.left /\ r.keys = s.keys \ {id}
    BY <1>1 DEF SeedingOK
  <2>2. Grows(chart, chart') /\ chart'[id].there /\ chart'[id].key
    BY <1>1, <1>4, <2>0, KeyGrows
  <2> HIDE DEF r
  <2>3. SeedingOK(r, chart', skipped)
    <3>1. SessionOK(s, chart', skipped)
      BY <1>1, <2>2, SeedingSurvives DEF SessionOK
    <3> QED
      BY <1>1, <2>1, <2>2, <3>1 DEF SeedingOK, SessionOK
  <2> QED
    BY <1>4, <2>2, <2>3 DEF r, SessionOK
<1>5. PICK r : Moves(c, r) /\ Grows(chart, chart') /\ SessionOK(r, chart', skipped)
  BY <1>3, <1>4 DEF SeedPuts
<1>6. DOMAIN space' = {"there", "seed", "default", "post"} /\ space'.seed \in Nat
  BY <1>2 DEF ChartInv
<1>7. space'.there => \A id \in SystemIds : chart'[id].there
  BY <1>0, <1>2, <1>5 DEF ChartInv, In, Grows
<1>8. (space'.seed >= SeedVersion) => (space.seed >= SeedVersion \/ DefaultsDone(chart', skipped'))
  BY <1>2
<1>9. SessionOK(r, chart', skipped') /\ skipped \subseteq skipped'
  BY <1>2, <1>5
<1> QED
  BY <1>5, <1>6, <1>7, <1>8, <1>9, ChartMoves

(* Only a seeding with nothing left writes the version.                    *)
LEMMA SeedEndsKeeps == ASSUME ChartInv, NEW c \in ChartUsers, SeedEnds(c) PROVE ChartInv'
<1> DEFINE s == session[c]
<1>0. KeyedIds \subseteq DefaultIds
  BY ChartAssumption
<1>1. s.at = "put" /\ SeedingOK(s, chart, skipped) /\ s.left = {} /\ s.keys = {}
  BY DEF SeedEnds, Sits, ChartInv, SessionOK
<1>2. chart' = chart /\ skipped' = skipped /\ Moves(c, [at |-> "ready"]) /\ Grows(chart, chart')
  BY SameGrows DEF SeedEnds, ChartInv
<1>3. DefaultsDone(chart', skipped')
  BY <1>0, <1>1, <1>2 DEF DefaultsDone, SeedingOK
<1>4. DOMAIN space' = {"there", "seed", "default", "post"} /\ space'.there = space.there /\ space'.seed \in Nat
  BY DEF SeedEnds, ChartInv, SeedVersion
<1>5. space'.there => \A id \in SystemIds : chart'[id].there
  BY <1>2, <1>4 DEF ChartInv, In
<1>6. SessionOK([at |-> "ready"], chart', skipped') /\ skipped \subseteq skipped'
  BY <1>2 DEF SessionOK
<1> QED
  BY <1>2, <1>3, <1>4, <1>5, <1>6, ChartMoves

(* Accounts and settings.                                                  *)
LEMMA AccountsKeep ==
  ASSUME ChartInv, NEW c \in ChartUsers, NEW id \in AllIds,
         \/ CreateAccount(c, id) \/ EnsureByokAccount(c, id) \/ EnsureCategory(c, id)
         \/ ArchiveChartAccount(c, id)
  PROVE  ChartInv'
<1>1. Moves(c, Resting) /\ Resting.at # "put" /\ space' = space /\ skipped' = skipped /\ ChartShape(chart)
  BY DEF CreateAccount, EnsureByokAccount, EnsureCategory, ArchiveChartAccount, Resting, ChartInv
<1>2. Grows(chart, chart')
  <2>1. CASE CreateAccount(c, id) \/ EnsureByokAccount(c, id)
    <3>1. ~In(id) /\ id \notin KeyedIds /\ chart' = [chart EXCEPT ![id] = Row(NameOf[id], "asset", FALSE)]
      BY <2>1, ChartAssumption DEF CreateAccount, EnsureByokAccount
    <3> QED
      BY <1>1, <3>1, RowGrows
  <2>2. CASE EnsureCategory(c, id)
    <3>1. CASE In(id)
      <4>1. chart' = chart
        BY <2>2, <3>1 DEF EnsureCategory
      <4> QED
        BY <1>1, <4>1, SameGrows
    <3>2. CASE ~In(id)
      <4>1. chart' = [chart EXCEPT ![id] = Row(NameOf[id], "category", TRUE)]
        BY <2>2, <3>2 DEF EnsureCategory
      <4> QED
        BY <1>1, <3>2, <4>1, RowGrows
    <3> QED
      BY <3>1, <3>2
  <2>3. CASE ArchiveChartAccount(c, id)
    <3>1. chart' = [chart EXCEPT ![id] = [@ EXCEPT !["archived"] = TRUE]]
      BY <2>3 DEF ArchiveChartAccount
    <3> QED
      BY <1>1, <3>1, FieldGrows
  <2> QED
    BY <2>1, <2>2, <2>3
<1> QED
  BY <1>1, <1>2, ChartCalm

LEMMA ChartStepKeeps == ASSUME ChartInv, NEW c \in ChartUsers, ChartStep(c) PROVE ChartInv'
<1>0. chart' = chart => Grows(chart, chart')
  BY SameGrows DEF ChartInv
<1>1. CASE SpaceState(c)
  <2>1. PICK r : Moves(c, r) /\ r = [at |-> IF space.there /\ space.seed >= SeedVersion THEN "ready"
                                            ELSE IF space.there THEN "seed" ELSE "create"]
    BY <1>1 DEF SpaceState
  <2>2. r.at # "put" /\ UNCHANGED <<space, chart, skipped>>
    BY <1>1, <2>1 DEF SpaceState
  <2> QED
    BY <1>0, <2>1, <2>2, ChartCalm
<1>2. CASE Dies(c)
  <2>1. Moves(c, Resting) /\ Resting.at # "put" /\ UNCHANGED <<space, chart, skipped>>
    BY <1>2 DEF Dies, Resting
  <2> QED
    BY <1>0, <2>1, ChartCalm
<1>3. ASSUME NEW id \in AllIds, ReadDefaultReceiving(c, id) \/ \E name \in NewNames : ReadRename(c, id, name)
      PROVE  ChartInv'
  <2>1. PICK r : Moves(c, r) /\ r.at # "put"
    <3>1. CASE ReadDefaultReceiving(c, id)
      <4>1. Moves(c, [at |-> "default", id |-> id]) /\ [at |-> "default", id |-> id].at # "put"
        BY <3>1 DEF ReadDefaultReceiving
      <4> QED
        BY <4>1
    <3>2. CASE \E name \in NewNames : ReadRename(c, id, name)
      <4>1. PICK name \in NewNames : Moves(c, [at |-> "rename", id |-> id, name |-> name])
        BY <3>2 DEF ReadRename
      <4>2. [at |-> "rename", id |-> id, name |-> name].at # "put"
        OBVIOUS
      <4> QED
        BY <4>1, <4>2
    <3> QED
      BY <1>3, <3>1, <3>2
  <2>2. UNCHANGED <<space, chart, skipped>>
    BY <1>3 DEF ReadDefaultReceiving, ReadRename
  <2> QED
    BY <1>0, <2>1, <2>2, ChartCalm
<1>4. CASE RenameAccount(c)
  <2>1. Moves(c, Resting) /\ Resting.at # "put" /\ UNCHANGED <<space, skipped>>
    BY <1>4 DEF RenameAccount, Resting
  <2>2. \/ chart' = chart
        \/ chart' = [chart EXCEPT ![session[c].id] = [@ EXCEPT !["name"] = session[c].name]]
    BY <1>4 DEF RenameAccount
  <2>3. Grows(chart, chart')
    <3>1. CASE chart' = chart
      BY <3>1, <1>0
    <3>2. CASE chart' = [chart EXCEPT ![session[c].id] = [@ EXCEPT !["name"] = session[c].name]]
      <4> DEFINE id == session[c].id
                 v  == session[c].name
      <4>1. chart' = [chart EXCEPT ![id] = [@ EXCEPT !["name"] = v]]
        BY <3>2
      <4> HIDE DEF id, v
      <4> QED
        BY <4>1, FieldGrows DEF ChartInv
    <3> QED
      BY <2>2, <3>1, <3>2
  <2> QED
    BY <2>1, <2>3, ChartCalm
<1>5. CASE SetDefaultReceivingAccount(c) \/ ClearDefaultReceivingAccount(c) \/ \E on \in BOOLEAN : SetPostCTechInvoices(c, on)
  <2>1. PICK f \in {"post", "default"} : \E v : space' = [space EXCEPT ![f] = v]
    <3>1. CASE SetDefaultReceivingAccount(c)
      <4>1. space' = [space EXCEPT !["default"] = session[c].id]
        BY <3>1 DEF SetDefaultReceivingAccount
      <4> QED
        BY <4>1
    <3>2. CASE ClearDefaultReceivingAccount(c)
      <4>1. space' = [space EXCEPT !["default"] = NoAccount]
        BY <3>2 DEF ClearDefaultReceivingAccount
      <4> QED
        BY <4>1
    <3>3. CASE \E on \in BOOLEAN : SetPostCTechInvoices(c, on)
      <4>1. PICK on \in BOOLEAN : space' = [space EXCEPT !["post"] = on]
        BY <3>3 DEF SetPostCTechInvoices
      <4> QED
        BY <4>1
    <3> QED
      BY <1>5, <3>1, <3>2, <3>3
  <2>2. Moves(c, Resting) /\ Resting.at # "put" /\ UNCHANGED <<chart, skipped>>
    BY <1>5 DEF SetDefaultReceivingAccount, ClearDefaultReceivingAccount, SetPostCTechInvoices, Resting
  <2> QED
    BY <2>1, <2>2, SettingsMove
<1> QED
  BY <1>1, <1>2, <1>3, <1>4, <1>5, EnsureSpaceKeeps, SeedReadsKeeps, SeedPutsKeeps, SeedEndsKeeps, AccountsKeep
     DEF ChartStep

LEMMA ChartUnchanged == ASSUME ChartInv, UNCHANGED chartVars PROVE ChartInv'
  BY DEF ChartInv, chartVars, In, SessionOK, SeedingOK, DefaultsDone, ChartShape

LEMMA ChartComplete == ASSUME ChartInv PROVE ReadyIsComplete
<1>1. (space.there /\ space.seed >= SeedVersion) =>
         /\ \A id \in SystemIds : In(id)
         /\ \A id \in DefaultIds \ skipped : In(id) /\ (id \in KeyedIds => chart[id].key)
  BY DEF ChartInv, DefaultsDone, In
<1>2. ReceivingAccount # NoAccount => UsableCash(ReceivingAccount)
  <2> DEFINE usable == {id \in AllIds : UsableCash(id)}
  <2>1. Cardinality(usable) = 1 => usable # {}
    BY FS_EmptySet
  <2>2. usable # {} => (CHOOSE id \in usable : TRUE) \in usable
    OBVIOUS
  <2> QED
    BY <2>1, <2>2 DEF ReceivingAccount
<1> QED
  BY <1>1, <1>2 DEF ReadyIsComplete

(* However many first requests seed a space at once, wherever they die and *)
(* whatever people create, rename and archive meanwhile: a space whose row *)
(* carries the current seed version has its system accounts and every      *)
(* default category with its system key, but for those whose name was      *)
(* taken (EnsureSpace and SeedCategories of repositories/ledger.go).       *)
THEOREM ReadySpaceIsComplete == ChartSpec => []ReadyIsComplete
<1>1. ChartInit => ChartInv
  BY ChartInitially
<1>2. ChartInv /\ [ChartNext]_chartVars => ChartInv'
  BY ChartStepKeeps, ChartUnchanged DEF ChartNext
<1>3. ChartInv => ReadyIsComplete
  BY ChartComplete
<1> QED
  BY <1>1, <1>2, <1>3, PTL DEF ChartSpec

----------------------------------------------------------------------------
(* Recurrences.                                                            *)

(* A set of months that is not empty has a first one.                      *)
LEMMA FirstMonth ==
  ASSUME NEW S, S \subseteq Months, S # {}
  PROVE  LET m == CHOOSE n \in S : \A k \in S : n <= k
         IN  m \in S /\ \A k \in S : m <= k
<1>0. Months \subseteq Nat
  BY RecurrencesAssumption DEF Months
<1>1. \E x \in S : \A y \in S : ~(<<y, x>> \in OpToRel(<, Nat))
  BY <1>0, NatLessThanWellFounded, WFMin, Zenon
<1>2. PICK x \in S : \A y \in S : ~(<<y, x>> \in OpToRel(<, Nat))
  BY <1>1
<1>3. \A y \in S : ~(y < x)
  BY <1>0, <1>2 DEF OpToRel
<1>4. \A y \in S : x <= y
  BY <1>0, <1>3
<1> QED
  BY <1>4

(* What is known of each table.                                            *)
LocksType == [Months -> {"none", "bill", "purchase", "skipped"}]
WaitsType == [Months -> Nat]
MadeRow   == [nominal : Months, what : {"bill", "purchase"}, amt : Nat, status : {"forecast", "paid", "canceled"}]
MadeType  == Seq(MadeRow)

(* An occurrence is dealt with: its lock says how, or an amount waits.     *)
Handled(L, W, n) == L[n] # "none" \/ W[n] # 0
UpTo(L, W, k)    == \A n \in 1..k : Handled(L, W, n)

Cursors == 0..(LastRecMonth + 1)
Active  == ~ended /\ ~rec.archived

RowOK ==
    /\ DOMAIN rec = {"amt", "target", "mode", "auto", "end", "archived", "cursor", "flagged", "sched"}
    /\ rec.amt \in Nat \ {0} /\ rec.cursor \in Cursors /\ rec.archived \in BOOLEAN
    /\ ended \in BOOLEAN /\ (~ended => rec.end = NoEnd)
    /\ month \in 1..LastRecMonth

(* What was made holds the lock of its occurrence, and is the only one.    *)
OnceOK(M, L) ==
    /\ M \in MadeType
    /\ \A i \in 1..Len(M) : L[M[i].nominal] # "none"
    /\ \A i, k \in 1..Len(M) : M[i].nominal = M[k].nominal => i = k

(* How far a run goes, by the rule it read.                                *)
Reach(x) == IF x.rule.target = "card" \/ x.rule.mode = "expected" THEN x.today ELSE x.today + 1

(* A run has dealt with everything up to its own cursor, and holds         *)
(* everything from there to its reach.                                     *)
DraftsOK(x, active, L, W) ==
    /\ DOMAIN x = {"at", "today", "rule", "left", "cursor", "none"}
    /\ x.today \in 1..LastRecMonth /\ x.cursor \in Cursors /\ x.left \subseteq Months
    /\ x.rule.amt \in Nat \ {0}
    /\ \A n \in x.left : n > x.cursor /\ n <= Reach(x)
    /\ active => /\ UpTo(L, W, x.cursor)
                 /\ \A n \in Months : n <= Reach(x) => n <= x.cursor \/ n \in x.left

MarkOK(x, active, L, W) == x.cursor \in Cursors /\ (active => UpTo(L, W, x.cursor))

RunOK(x, active, L, W) ==
    /\ x.at = "drafts" => DraftsOK(x, active, L, W)
    /\ x.at = "mark" => MarkOK(x, active, L, W)

(* A request that names no end writes back the cursor it is conditioned    *)
(* on.                                                                     *)
PersonOK(w) ==
    /\ w.at = "update" => /\ w.next.amt \in Nat \ {0} /\ w.cursor \in Cursors
                          /\ "end" \notin DOMAIN w.patch => w.cursor = w.read
    /\ w.at = "confirm" => w.nominal \in Months /\ w.amt \in Nat
    /\ w.at = "cancel" => DOMAIN w = {"at", "end", "left"}
    /\ w.at = "skip" => DOMAIN w = {"at", "left"} /\ w.left \subseteq Months

RecInv ==
    /\ RowOK
    /\ lock \in LocksType /\ waiting \in WaitsType
    /\ OnceOK(made, lock)
    /\ run = [j \in RecJobs |-> run[j]] /\ \A j \in RecJobs : RunOK(run[j], Active, lock, waiting)
    /\ person = [c \in RecUsers |-> person[c]] /\ \A c \in RecUsers : PersonOK(person[c])
    /\ Active => UpTo(lock, waiting, rec.cursor)

(* What was dealt with stays dealt with.                                   *)
Advances(L, W, L2, W2) == \A n \in Months : Handled(L, W, n) => Handled(L2, W2, n)

LEMMA UpToSurvives ==
  ASSUME NEW L, NEW W, NEW L2, NEW W2, Advances(L, W, L2, W2), NEW k \in Cursors, UpTo(L, W, k)
  PROVE  UpTo(L2, W2, k)
<1>1. 1..k \subseteq Months
  BY RecurrencesAssumption DEF Cursors, Months
<1> QED
  BY <1>1 DEF Advances, UpTo

LEMMA RunSurvives ==
  ASSUME NEW x, NEW a, NEW b, NEW L, NEW W, NEW L2, NEW W2, Advances(L, W, L2, W2), b => a, RunOK(x, a, L, W)
  PROVE  RunOK(x, b, L2, W2)
<1>1. ASSUME x.at = "drafts" PROVE DraftsOK(x, b, L2, W2)
  <2>1. DraftsOK(x, a, L, W)
    BY <1>1 DEF RunOK
  <2>2. b => UpTo(L2, W2, x.cursor)
    BY <2>1, UpToSurvives DEF DraftsOK
  <2> QED
    BY <2>1, <2>2 DEF DraftsOK
<1>2. ASSUME x.at = "mark" PROVE MarkOK(x, b, L2, W2)
  <2>1. MarkOK(x, a, L, W)
    BY <1>2 DEF RunOK
  <2> QED
    BY <2>1, UpToSurvives DEF MarkOK
<1> QED
  BY <1>1, <1>2 DEF RunOK

(* A step moves at most the runs and requests it leaves in order.          *)
LEMMA RecMoves ==
  ASSUME RecInv, RowOK', lock' \in LocksType, waiting' \in WaitsType, OnceOK(made', lock'),
         Advances(lock, waiting, lock', waiting'), Active' => Active,
         Active' => UpTo(lock', waiting', rec'.cursor),
         run' = [j \in RecJobs |-> run'[j]],
         \A j \in RecJobs : run'[j] = run[j] \/ RunOK(run'[j], Active', lock', waiting'),
         person' = [c \in RecUsers |-> person'[c]],
         \A c \in RecUsers : person'[c] = person[c] \/ PersonOK(person'[c])
  PROVE  RecInv'
<1>1. \A j \in RecJobs : RunOK(run'[j], Active', lock', waiting')
  <2> TAKE j \in RecJobs
  <2>1. RunOK(run[j], Active, lock, waiting)
    BY DEF RecInv
  <2> HIDE DEF Active
  <2>2. RunOK(run[j], Active', lock', waiting')
    BY <2>1, RunSurvives
  <2> QED
    BY <2>2
<1>2. \A c \in RecUsers : PersonOK(person'[c])
  BY DEF RecInv
<1> QED
  BY <1>1, <1>2 DEF RecInv

LEMMA RecInitially == ASSUME RecurrencesInit PROVE RecInv
<1>1. PICK r \in Rules : rec = NewRecurrence(r)
  BY DEF RecurrencesInit
<1>2. r.amt \in Nat \ {0}
  BY RecurrencesAssumption DEF ValidRule
<1>3. /\ DOMAIN rec = {"amt", "target", "mode", "auto", "end", "archived", "cursor", "flagged", "sched"}
      /\ rec.amt = r.amt /\ rec.cursor = 0 /\ rec.archived = FALSE
  BY <1>1 DEF NewRecurrence
<1>4. RowOK
  <2>1. ended \in BOOLEAN /\ (~ended => rec.end = NoEnd)
    BY Zenon DEF RecurrencesInit
  <2>2. rec.amt \in Nat \ {0} /\ rec.cursor \in Cursors /\ rec.archived \in BOOLEAN /\ month \in 1..LastRecMonth
    <3>1. month = 1 /\ LastRecMonth \in Nat \ {0}
      BY RecurrencesAssumption DEF RecurrencesInit
    <3>2. 0 \in Cursors /\ month \in 1..LastRecMonth
      BY <3>1 DEF Cursors
    <3>3. rec.amt = r.amt /\ rec.cursor = 0 /\ rec.archived = FALSE
      BY <1>3
    <3> QED
      BY <1>2, <3>2, <3>3, Zenon
  <2> QED
    BY <1>3, <2>1, <2>2, Zenon DEF RowOK
<1>5. lock \in LocksType /\ waiting \in WaitsType
  BY DEF RecurrencesInit, LocksType, WaitsType
<1>6. OnceOK(made, lock)
  BY DEF RecurrencesInit, OnceOK, MadeType
<1>7. run = [j \in RecJobs |-> run[j]] /\ \A j \in RecJobs : RunOK(run[j], Active, lock, waiting)
  BY DEF RecurrencesInit, RunOK, Off
<1>8. person = [c \in RecUsers |-> person[c]] /\ \A c \in RecUsers : PersonOK(person[c])
  BY DEF RecurrencesInit, PersonOK, Off
<1>9. UpTo(lock, waiting, rec.cursor)
  BY <1>3 DEF UpTo
<1> QED
  BY <1>4, <1>5, <1>6, <1>7, <1>8, <1>9 DEF RecInv


(* A run moves on, and the row is left alone or keeps its promise.         *)
LEMMA JobMoves ==
  ASSUME RecInv, NEW j \in RecJobs, NEW r, Goes(j, r), RunOK(r, Active', lock', waiting'),
         RowOK', lock' \in LocksType, waiting' \in WaitsType, OnceOK(made', lock'),
         Advances(lock, waiting, lock', waiting'), Active' => Active,
         Active' => UpTo(lock', waiting', rec'.cursor)
  PROVE  RecInv'
<1>1. run' = [k \in RecJobs |-> IF k = j THEN r ELSE run[k]] /\ person' = person
  BY DEF Goes, RecInv
<1>2. run' = [k \in RecJobs |-> run'[k]]
  BY <1>1
<1>3. \A k \in RecJobs : run'[k] = run[k] \/ RunOK(run'[k], Active', lock', waiting')
  <2> HIDE DEF Active
  <2> QED
    BY <1>1
<1>4. person' = [c \in RecUsers |-> person'[c]] /\ \A c \in RecUsers : person'[c] = person[c]
  BY <1>1 DEF RecInv
<1> QED
  BY <1>2, <1>3, <1>4, RecMoves

LEMMA PersonMoves ==
  ASSUME RecInv, NEW c \in RecUsers, NEW w, Turns(c, w), PersonOK(w),
         RowOK', lock' \in LocksType, waiting' \in WaitsType, OnceOK(made', lock'),
         Advances(lock, waiting, lock', waiting'), Active' => Active,
         Active' => UpTo(lock', waiting', rec'.cursor)
  PROVE  RecInv'
<1>1. person' = [d \in RecUsers |-> IF d = c THEN w ELSE person[d]] /\ run' = run
  BY DEF Turns, RecInv
<1>2. person' = [d \in RecUsers |-> person'[d]]
  BY <1>1
<1>3. \A d \in RecUsers : person'[d] = person[d] \/ PersonOK(person'[d])
  BY <1>1
<1>4. run' = [j \in RecJobs |-> run'[j]] /\ \A j \in RecJobs : run'[j] = run[j]
  BY <1>1 DEF RecInv
<1> QED
  BY <1>2, <1>3, <1>4, RecMoves

LEMMA SameAdvances == Advances(lock, waiting, lock, waiting)
  BY DEF Advances

(* Nothing but the run, or the request, moves.                             *)
LEMMA RowStays ==
  ASSUME RecInv, rec' = rec, ended' = ended, month' = month
  PROVE  RowOK' /\ (Active' => Active) /\ rec'.cursor = rec.cursor
  BY DEF RecInv, RowOK, Active

LEMMA WorkStays ==
  ASSUME RecInv, lock' = lock, waiting' = waiting, made' = made
  PROVE  /\ lock' \in LocksType /\ waiting' \in WaitsType /\ OnceOK(made', lock')
         /\ Advances(lock, waiting, lock', waiting')
  BY SameAdvances DEF RecInv

(* The cursor stays good while occurrences are dealt with.                 *)
LEMMA CursorStays ==
  ASSUME RecInv, rec'.cursor = rec.cursor, Active' => Active, Advances(lock, waiting, lock', waiting')
  PROVE  Active' => UpTo(lock', waiting', rec'.cursor)
<1>1. rec.cursor \in Cursors /\ (Active => UpTo(lock, waiting, rec.cursor))
  BY DEF RecInv, RowOK
<1> HIDE DEF Active
<1> QED
  BY <1>1, UpToSurvives

LEMMA JobReadsOnly ==
  ASSUME RecInv, NEW j \in RecJobs, NEW r, Goes(j, r), RunOK(r, Active, lock, waiting),
         UNCHANGED <<rec, ended, month, lock, waiting, made>>
  PROVE  RecInv'
<1>1. RowOK' /\ (Active' => Active) /\ rec'.cursor = rec.cursor /\ (Active => Active')
  BY RowStays DEF Active
<1>2. lock' \in LocksType /\ waiting' \in WaitsType /\ OnceOK(made', lock') /\ Advances(lock, waiting, lock', waiting')
  BY WorkStays
<1>3. Active' => UpTo(lock', waiting', rec'.cursor)
  BY <1>1, <1>2, CursorStays
<1>4. RunOK(r, Active', lock', waiting')
  <2> HIDE DEF Active
  <2> QED
    BY <1>1, <1>2, RunSurvives
<1> QED
  BY <1>1, <1>2, <1>3, <1>4, JobMoves

LEMMA PersonReadsOnly ==
  ASSUME RecInv, NEW c \in RecUsers, NEW w, Turns(c, w), PersonOK(w),
         UNCHANGED <<rec, ended, month, lock, waiting, made>>
  PROVE  RecInv'
<1>1. RowOK' /\ (Active' => Active) /\ rec'.cursor = rec.cursor
  BY RowStays
<1>2. lock' \in LocksType /\ waiting' \in WaitsType /\ OnceOK(made', lock') /\ Advances(lock, waiting, lock', waiting')
  BY WorkStays
<1>3. Active' => UpTo(lock', waiting', rec'.cursor)
  BY <1>1, <1>2, CursorStays
<1> QED
  BY <1>1, <1>2, <1>3, PersonMoves

(* Occurrences are dealt with, the row is left alone.                      *)
LEMMA JobWorks ==
  ASSUME RecInv, NEW j \in RecJobs, NEW r, Goes(j, r), RunOK(r, Active, lock', waiting'),
         lock' \in LocksType, waiting' \in WaitsType, OnceOK(made', lock'),
         Advances(lock, waiting, lock', waiting'), UNCHANGED <<rec, ended, month>>
  PROVE  RecInv'
<1>1. RowOK' /\ (Active' => Active) /\ rec'.cursor = rec.cursor /\ (Active <=> Active')
  BY RowStays DEF Active
<1>3. Active' => UpTo(lock', waiting', rec'.cursor)
  BY <1>1, CursorStays
<1>4. RunOK(r, Active', lock', waiting')
  <2>1. Advances(lock', waiting', lock', waiting')
    BY DEF Advances
  <2> HIDE DEF Active
  <2> QED
    BY <1>1, <2>1, RunSurvives
<1> QED
  BY <1>1, <1>3, <1>4, JobMoves

LEMMA PersonWorks ==
  ASSUME RecInv, NEW c \in RecUsers, NEW w, Turns(c, w), PersonOK(w),
         lock' \in LocksType, waiting' \in WaitsType, OnceOK(made', lock'),
         Advances(lock, waiting, lock', waiting'), UNCHANGED <<rec, ended, month>>
  PROVE  RecInv'
<1>1. RowOK' /\ (Active' => Active) /\ rec'.cursor = rec.cursor
  BY RowStays
<1>3. Active' => UpTo(lock', waiting', rec'.cursor)
  BY <1>1, CursorStays
<1> QED
  BY <1>1, <1>3, PersonMoves

(* Making an occurrence whose lock is free.                                *)
LEMMA MakeOnce ==
  ASSUME RecInv, NEW n \in Months, NEW what \in {"bill", "purchase"}, NEW x \in Nat, lock[n] = "none", Make(n, what, x)
  PROVE  /\ lock' \in LocksType /\ OnceOK(made', lock') /\ lock'[n] # "none"
         /\ \A m \in Months : lock[m] # "none" => lock'[m] # "none"
<1>1. lock' \in LocksType /\ lock'[n] = what /\ \A m \in Months : m # n => lock'[m] = lock[m]
  BY DEF RecInv, LocksType, Make
<1> DEFINE e == [nominal |-> n, what |-> what, amt |-> x, status |-> "forecast"]
<1>2. made \in MadeType /\ made' = Append(made, e)
  BY DEF RecInv, OnceOK, Make
<1>3. e \in MadeRow /\ e.nominal = n
  BY DEF MadeRow
<1> HIDE DEF e
<1>4. made' \in MadeType /\ Len(made') = Len(made) + 1 /\ Len(made) \in Nat
      /\ (\A i \in 1..Len(made) : made'[i] = made[i]) /\ made'[Len(made) + 1] = e
  BY <1>2, <1>3 DEF MadeType
<1>5. \A i \in 1..Len(made) : made[i].nominal \in Months /\ lock[made[i].nominal] # "none" /\ made[i].nominal # n
  <2>1. \A i \in 1..Len(made) : made[i] \in MadeRow
    BY <1>2 DEF MadeType
  <2> QED
    BY <2>1 DEF RecInv, OnceOK, MadeRow
<1>6. \A i \in 1..Len(made') : i \in 1..Len(made) \/ i = Len(made) + 1
  BY <1>4
<1>7. \A i, k \in 1..Len(made) : made[i].nominal = made[k].nominal => i = k
  BY DEF RecInv, OnceOK
<1>8. \A i \in 1..Len(made') : lock'[made'[i].nominal] # "none"
  BY <1>1, <1>3, <1>4, <1>5, <1>6
<1>9. \A i, k \in 1..Len(made') : made'[i].nominal = made'[k].nominal => i = k
  BY <1>3, <1>4, <1>5, <1>6, <1>7
<1> QED
  BY <1>1, <1>4, <1>8, <1>9 DEF OnceOK

(* The next draft of a run is the first occurrence it has not dealt with;  *)
(* once it is dealt with, the run's cursor may stand on it.                *)
LEMMA NextIsFirst ==
  ASSUME RecInv, NEW j \in RecJobs, At(j, "drafts"), run[j].left # {}
  PROVE  /\ NextDraft(j) \in Months /\ NextDraft(j) \in run[j].left /\ \A k \in run[j].left : NextDraft(j) <= k
         /\ DraftsOK(run[j], Active, lock, waiting)
<1>1. DraftsOK(run[j], Active, lock, waiting)
  BY DEF RecInv, RunOK, At
<1>2. run[j].left \subseteq Months
  BY <1>1 DEF DraftsOK
<1> QED
  BY <1>1, <1>2, FirstMonth DEF NextDraft

LEMMA AdvancedOK ==
  ASSUME RecInv, NEW j \in RecJobs, At(j, "drafts"), run[j].left # {}, NEW L2, NEW W2,
         Advances(lock, waiting, L2, W2), Handled(L2, W2, NextDraft(j))
  PROVE  RunOK(Advanced(j), Active, L2, W2)
<1> DEFINE x == run[j]
           n == NextDraft(j)
           y == Advanced(j)
<1>0. LastRecMonth \in Nat \ {0} /\ Months = 1..(LastRecMonth + 1) /\ Cursors = 0..(LastRecMonth + 1)
  BY RecurrencesAssumption DEF Months, Cursors
<1>1. n \in Months /\ n \in x.left /\ (\A k \in x.left : n <= k) /\ DraftsOK(x, Active, lock, waiting)
  BY NextIsFirst
<1>2. DOMAIN x = {"at", "today", "rule", "left", "cursor", "none"} /\ x.at = "drafts"
  BY <1>1 DEF DraftsOK, At
<1>3. /\ DOMAIN y = {"at", "today", "rule", "left", "cursor", "none"} /\ y.at = "drafts"
      /\ y.left = x.left \ {n} /\ y.cursor = n /\ y.today = x.today /\ y.rule = x.rule
  BY <1>2 DEF Advanced
<1>4. Reach(y) = Reach(x) /\ Reach(x) \in Nat
  <2>1. x.today \in Nat
    BY <1>0, <1>1 DEF DraftsOK
  <2> QED
    BY <1>3, <2>1 DEF Reach
<1> HIDE DEF n, y
<1>5. /\ x.today \in 1..LastRecMonth /\ x.cursor \in Cursors /\ x.left \subseteq Months
      /\ x.rule.amt \in Nat \ {0} /\ \A k \in x.left : k > x.cursor /\ k <= Reach(x)
  BY <1>1 DEF DraftsOK
<1>6. n \in Cursors /\ y.left \subseteq Months /\ \A k \in y.left : k > n /\ k <= Reach(x)
  <2>1. n \in Cursors /\ y.left \subseteq Months
    BY <1>0, <1>1, <1>3, <1>5
  <2> SUFFICES ASSUME NEW k \in y.left PROVE k > n /\ k <= Reach(x)
    BY <2>1
  <2>2. k \in x.left /\ k # n /\ n <= k /\ k \in Int /\ n \in Int
    BY <1>0, <1>1, <1>3, <1>5
  <2> QED
    BY <1>5, <2>2
<1>7. ASSUME Active
      PROVE  UpTo(L2, W2, n) /\ \A k \in Months : k <= Reach(x) => k <= n \/ k \in y.left
  <2>1. UpTo(lock, waiting, x.cursor) /\ \A k \in Months : k <= Reach(x) => k <= x.cursor \/ k \in x.left
    BY <1>1, <1>7 DEF DraftsOK
  <2>2. UpTo(L2, W2, x.cursor)
    BY <1>5, <2>1, UpToSurvives
  <2>3. n <= Reach(x) /\ n > x.cursor
    BY <1>1, <1>5
  <2>4. ASSUME NEW k \in 1..n PROVE Handled(L2, W2, k)
    <3>1. CASE k = n
      BY <3>1 DEF n
    <3>2. CASE k # n
      <4>1. k \in Months /\ k < n /\ k <= Reach(x)
        BY <1>0, <1>1, <1>4, <2>3, <2>4, <3>2
      <4>2. k \notin x.left
        BY <1>0, <1>1, <4>1
      <4>3. k \in 1..x.cursor
        BY <1>0, <1>5, <2>1, <4>1, <4>2
      <4> QED
        BY <2>2, <4>3 DEF UpTo
    <3> QED
      BY <3>1, <3>2
  <2>5. ASSUME NEW k \in Months, k <= Reach(x) PROVE k <= n \/ k \in y.left
    BY <1>0, <1>1, <1>3, <1>5, <2>1, <2>3, <2>5
  <2> QED
    BY <2>4, <2>5 DEF UpTo
<1>8. DraftsOK(y, Active, L2, W2)
  <2> HIDE DEF Active, x
  <2> QED
    BY <1>3, <1>4, <1>5, <1>6, <1>7 DEF DraftsOK
<1> QED
  BY <1>3, <1>8 DEF RunOK, y

LEMMA OffIsOK == ASSUME NEW a, NEW L, NEW W PROVE RunOK(Off, a, L, W) /\ PersonOK(Off)
  BY DEF Off, RunOK, PersonOK

(* The job reads the row and what is due by it.                            *)
LEMMA JobReadsKeeps == ASSUME RecInv, NEW j \in RecJobs, JobReads(j) PROVE RecInv'
<1> DEFINE d == Drafts(rec, rec.cursor)
<1>1. PICK r : Goes(j, r) /\ r = [at |-> "drafts", today |-> month, rule |-> Rule(rec), left |-> d,
                                  cursor |-> rec.cursor, none |-> d = {}]
  BY DEF JobReads, Hydrated
<1>2. UNCHANGED <<rec, ended, month, lock, waiting, made>>
  BY DEF JobReads, RowUnchanged, WorkUnchanged, WorldUnchanged
<1>3. /\ DOMAIN r = {"at", "today", "rule", "left", "cursor", "none"} /\ r.at = "drafts" /\ r.today = month
      /\ r.rule = Rule(rec) /\ r.left = d /\ r.cursor = rec.cursor
  BY <1>1
<1>4. Rule(rec).amt = rec.amt /\ Rule(rec).target = rec.target /\ Rule(rec).mode = rec.mode
  BY DEF Rule
<1>5. /\ rec.amt \in Nat \ {0} /\ rec.cursor \in Cursors /\ rec.archived \in BOOLEAN
      /\ month \in 1..LastRecMonth /\ (Active => rec.end = NoEnd /\ ~rec.archived)
  BY DEF RecInv, RowOK, Active
<1>6. Reach(r) = IF rec.target = "card" \/ rec.mode = "expected" THEN month ELSE HorizonEnd(month)
  BY <1>3, <1>4 DEF Reach, HorizonEnd
<1>7. d \subseteq Months /\ \A n \in d : n > rec.cursor /\ n <= Reach(r)
  BY <1>6 DEF Drafts, Occurrences
<1>8. ASSUME Active PROVE UpTo(lock, waiting, rec.cursor)
  BY <1>8 DEF RecInv
<1>9. ASSUME Active PROVE \A n \in Months : n <= Reach(r) => n <= rec.cursor \/ n \in d
  <2>1. d = {n \in Months : n > rec.cursor /\ n <= Reach(r)}
    BY <1>5, <1>6, <1>9 DEF Drafts, Occurrences
  <2>2. Months \subseteq Int /\ rec.cursor \in Int
    BY <1>5, RecurrencesAssumption DEF Months, Cursors
  <2> HIDE DEF d
  <2> QED
    BY <2>1, <2>2
<1> HIDE DEF d, Active
<1>10. DraftsOK(r, Active, lock, waiting)
  BY <1>3, <1>4, <1>5, <1>7, <1>8, <1>9 DEF DraftsOK
<1> QED
  BY <1>1, <1>2, <1>3, <1>10, JobReadsOnly DEF RunOK

(* An occurrence made, or found made: bill, purchase or waiting amount.    *)
LEMMA CreateKeeps == ASSUME RecInv, NEW j \in RecJobs, CreateFromOccurrence(j) \/ PostOccurrence(j) PROVE RecInv'
<1> DEFINE n == NextDraft(j)
           x == run[j].rule.amt
<1>0. At(j, "drafts") /\ run[j].left # {} /\ UNCHANGED <<rec, ended, month, waiting>>
  BY DEF CreateFromOccurrence, PostOccurrence, RowUnchanged, WorldUnchanged
<1>1. n \in Months /\ x \in Nat
  BY <1>0, NextIsFirst DEF DraftsOK
<1>2. \/ lock[n] = "none" /\ (Make(n, "bill", x) \/ Make(n, "purchase", x)) /\ Goes(j, Advanced(j))
      \/ lock[n] # "none" /\ Goes(j, Advanced(j)) /\ UNCHANGED <<lock, made>>
      \/ Goes(j, Off) /\ UNCHANGED <<lock, made>>
  BY DEF CreateFromOccurrence, PostOccurrence
<1> HIDE DEF x
<1>3. CASE lock[n] = "none" /\ (Make(n, "bill", x) \/ Make(n, "purchase", x)) /\ Goes(j, Advanced(j))
  <2>1. /\ lock' \in LocksType /\ OnceOK(made', lock') /\ lock'[n] # "none"
        /\ \A m \in Months : lock[m] # "none" => lock'[m] # "none"
    BY <1>1, <1>3, MakeOnce
  <2>2. Advances(lock, waiting, lock', waiting') /\ Handled(lock', waiting', n)
    BY <1>0, <2>1 DEF Advances, Handled
  <2>3. RunOK(Advanced(j), Active, lock', waiting')
    BY <1>0, <2>2, AdvancedOK
  <2>4. waiting' \in WaitsType
    BY <1>0 DEF RecInv
  <2> QED
    BY <1>0, <1>3, <2>1, <2>2, <2>3, <2>4, JobWorks
<1>4. CASE lock[n] # "none" /\ Goes(j, Advanced(j)) /\ UNCHANGED <<lock, made>>
  <2>1. RunOK(Advanced(j), Active, lock, waiting)
    BY <1>0, <1>4, SameAdvances, AdvancedOK DEF Handled
  <2> QED
    BY <1>0, <1>4, <2>1, JobReadsOnly
<1>5. CASE Goes(j, Off) /\ UNCHANGED <<lock, made>>
  <2>1. RunOK(Off, Active, lock, waiting)
    BY OffIsOK
  <2> QED
    BY <1>0, <1>5, <2>1, JobReadsOnly
<1> QED
  BY <1>2, <1>3, <1>4, <1>5

LEMMA PendingKeeps == ASSUME RecInv, NEW j \in RecJobs, CreatePendingOccurrence(j) PROVE RecInv'
<1> DEFINE n == NextDraft(j)
           r == run[j].rule
           ok == PendingAllowed(r, n)
<1>0. At(j, "drafts") /\ run[j].left # {} /\ UNCHANGED <<rec, ended, month, lock, made>>
  BY DEF CreatePendingOccurrence, RowUnchanged, WorldUnchanged
<1>1. n \in Months /\ r.amt \in Nat \ {0}
  BY <1>0, NextIsFirst DEF DraftsOK
<1>2. waiting \in WaitsType /\ lock \in LocksType /\ OnceOK(made, lock)
  BY DEF RecInv
<1>3. /\ waiting' = IF ok /\ waiting[n] = 0 THEN [waiting EXCEPT ![n] = r.amt] ELSE waiting
      /\ Goes(j, IF ok \/ waiting[n] # 0 THEN Advanced(j) ELSE Off)
  BY DEF CreatePendingOccurrence
<1> HIDE DEF ok
<1>4. waiting' \in WaitsType /\ (\A m \in Months : waiting[m] # 0 => waiting'[m] # 0)
      /\ (ok \/ waiting[n] # 0 => waiting'[n] # 0)
  BY <1>1, <1>2, <1>3 DEF WaitsType
<1>5. Advances(lock, waiting, lock', waiting')
  BY <1>0, <1>4 DEF Advances, Handled
<1>6. CASE ok \/ waiting[n] # 0
  <2>1. Goes(j, Advanced(j)) /\ Handled(lock', waiting', n)
    BY <1>3, <1>4, <1>6 DEF Handled
  <2>2. RunOK(Advanced(j), Active, lock', waiting')
    BY <1>0, <1>5, <2>1, AdvancedOK
  <2> QED
    BY <1>0, <1>2, <1>4, <1>5, <2>1, <2>2, JobWorks
<1>7. CASE ~(ok \/ waiting[n] # 0)
  <2>1. Goes(j, Off) /\ RunOK(Off, Active, lock', waiting')
    BY <1>3, <1>7, OffIsOK
  <2> QED
    BY <1>0, <1>2, <1>4, <1>5, <2>1, JobWorks
<1> QED
  BY <1>6, <1>7

(* A run with nothing left has dealt with all it could reach, so the       *)
(* cursor may jump there.                                                  *)
LEMMA MarkReadsKeeps == ASSUME RecInv, NEW j \in RecJobs, MarkReads(j) PROVE RecInv'
<1> DEFINE x == run[j]
           r == x.rule
           c == CASE r.target = "card" /\ x.cursor < x.today -> x.today
                  [] r.target = "account" /\ r.mode = "fixed" /\ x.none -> HorizonEnd(x.today)
                  [] OTHER -> x.cursor
<1>0. LastRecMonth \in Nat \ {0} /\ Months = 1..(LastRecMonth + 1) /\ Cursors = 0..(LastRecMonth + 1)
  BY RecurrencesAssumption DEF Months, Cursors
<1>1. x.at = "drafts" /\ x.left = {} /\ UNCHANGED <<rec, ended, month, lock, waiting, made>>
  BY DEF MarkReads, At, RowUnchanged, WorkUnchanged, WorldUnchanged
<1>2. DraftsOK(x, Active, lock, waiting)
  BY <1>1 DEF RecInv, RunOK
<1>3. x.today \in 1..LastRecMonth /\ x.cursor \in Cursors
  BY <1>2 DEF DraftsOK
<1>4. \/ c = x.cursor
      \/ r.target = "card" /\ c = x.today
      \/ r.target = "account" /\ r.mode = "fixed" /\ c = x.today + 1
  <2>1. CASE r.target = "card" /\ x.cursor < x.today
    <3>1. c = x.today
      BY <2>1
    <3> QED
      BY <2>1, <3>1
  <2>2. CASE r.target = "account" /\ r.mode = "fixed" /\ x.none
    <3>1. c = HorizonEnd(x.today)
      BY <2>2
    <3> QED
      BY <2>2, <3>1 DEF HorizonEnd
  <2>3. CASE ~(r.target = "card" /\ x.cursor < x.today) /\ ~(r.target = "account" /\ r.mode = "fixed" /\ x.none)
    <3>1. c = x.cursor
      BY <2>3
    <3> QED
      BY <3>1
  <2> QED
    BY <2>1, <2>2, <2>3
<1>5. c = x.cursor \/ c = Reach(x)
  BY <1>4 DEF Reach
<1>6. PICK y : Goes(j, y) /\ y = IF c = 0 THEN Off ELSE [at |-> "mark", cursor |-> c, key |-> NextMaterialise(rec, c)]
  BY DEF MarkReads
<1>7. y = Off \/ (y.at = "mark" /\ y.cursor = c)
  <2> HIDE DEF c
  <2>1. CASE c = 0
    BY <1>6, <2>1
  <2>2. CASE c # 0
    BY <1>6, <2>2
  <2> QED
    BY <2>1, <2>2
<1> HIDE DEF c
<1>8. c \in Cursors
  BY <1>0, <1>3, <1>4
<1>9. ASSUME Active PROVE UpTo(lock, waiting, c)
  <2>1. UpTo(lock, waiting, x.cursor) /\ \A n \in Months : n <= Reach(x) => n <= x.cursor
    BY <1>1, <1>2, <1>9 DEF DraftsOK
  <2>2. \A n \in 1..c : n \in 1..x.cursor
    <3>1. CASE c = x.cursor
      BY <3>1
    <3>2. CASE c = Reach(x)
      BY <1>0, <1>3, <1>8, <2>1, <3>2
    <3> QED
      BY <1>5, <3>1, <3>2
  <2> QED
    BY <2>1, <2>2 DEF UpTo
<1>10. RunOK(y, Active, lock, waiting)
  <2> HIDE DEF Active
  <2>1. CASE y = Off
    BY <2>1, OffIsOK
  <2>2. CASE y.at = "mark" /\ y.cursor = c
    BY <2>2, <1>8, <1>9 DEF RunOK, MarkOK
  <2> QED
    BY <1>7, <2>1, <2>2
<1> QED
  BY <1>1, <1>6, <1>10, JobReadsOnly

(* The cursor moves to what the run dealt with.                            *)
LEMMA MarkKeeps == ASSUME RecInv, NEW j \in RecJobs, MarkMaterialised(j) PROVE RecInv'
<1> DEFINE k == run[j].cursor
<1>1. k \in Cursors /\ (Active => UpTo(lock, waiting, k))
  BY DEF MarkMaterialised, At, RecInv, RunOK, MarkOK
<1>2. UNCHANGED <<lock, waiting, made, ended, month>> /\ Goes(j, Off)
  BY DEF MarkMaterialised, WorkUnchanged, WorldUnchanged
<1>3. rec' = [rec EXCEPT !.cursor = k, !.sched = run[j].key, !.flagged = FALSE] \/ rec' = rec
  BY DEF MarkMaterialised
<1>4. /\ DOMAIN rec' = DOMAIN rec /\ rec'.amt = rec.amt /\ rec'.end = rec.end /\ rec'.archived = rec.archived
      /\ (rec'.cursor = k \/ rec'.cursor = rec.cursor)
  BY <1>3 DEF RecInv, RowOK
<1>5. RowOK' /\ (Active' <=> Active)
  BY <1>1, <1>2, <1>4 DEF RecInv, RowOK, Active
<1>6. lock' \in LocksType /\ waiting' \in WaitsType /\ OnceOK(made', lock') /\ Advances(lock, waiting, lock', waiting')
  BY <1>2, WorkStays
<1>7. Active' => UpTo(lock', waiting', rec'.cursor)
  <2>1. Active => UpTo(lock, waiting, rec.cursor)
    BY DEF RecInv
  <2> HIDE DEF Active, k
  <2> QED
    BY <1>1, <1>2, <1>4, <1>5, <2>1
<1>8. RunOK(Off, Active', lock', waiting')
  BY OffIsOK
<1> QED
  BY <1>2, <1>5, <1>6, <1>7, <1>8, JobMoves

LEMMA FlagKeeps == ASSUME RecInv, NEW j \in RecJobs, FlagAttention(j) PROVE RecInv'
<1>2. UNCHANGED <<lock, waiting, made, ended, month>> /\ Goes(j, Off)
  BY DEF FlagAttention, WorkUnchanged, WorldUnchanged
<1>4. /\ DOMAIN rec' = DOMAIN rec /\ rec'.amt = rec.amt /\ rec'.end = rec.end /\ rec'.archived = rec.archived
      /\ rec'.cursor = rec.cursor
  BY DEF FlagAttention, RecInv, RowOK
<1>5. RowOK' /\ (Active' => Active)
  BY <1>2, <1>4 DEF RecInv, RowOK, Active
<1>6. lock' \in LocksType /\ waiting' \in WaitsType /\ OnceOK(made', lock') /\ Advances(lock, waiting, lock', waiting')
  BY <1>2, WorkStays
<1>7. Active' => UpTo(lock', waiting', rec'.cursor)
  BY <1>4, <1>5, <1>6, CursorStays
<1>8. RunOK(Off, Active', lock', waiting')
  BY OffIsOK
<1> QED
  BY <1>2, <1>5, <1>6, <1>7, <1>8, JobMoves

LEMMA JobStopsKeeps == ASSUME RecInv, NEW j \in RecJobs, JobStops(j) PROVE RecInv'
<1>1. Goes(j, Off) /\ UNCHANGED <<rec, ended, month, lock, waiting, made>>
  BY DEF JobStops, RowUnchanged, WorkUnchanged, WorldUnchanged
<1> QED
  BY <1>1, OffIsOK, JobReadsOnly

LEMMA JobStepKeeps == ASSUME RecInv, NEW j \in RecJobs, JobStep(j) PROVE RecInv'
  BY JobReadsKeeps, CreateKeeps, PendingKeeps, FlagKeeps, MarkReadsKeeps, MarkKeeps, JobStopsKeeps DEF JobStep

(* A bill that changes its status keeps its occurrence.                    *)
LEMMA StatusKeeps ==
  ASSUME RecInv, NEW i, NEW v \in {"forecast", "paid", "canceled"}, made' = [made EXCEPT ![i].status = v], lock' = lock
  PROVE  OnceOK(made', lock')
<1>1. made \in Seq(MadeRow) /\ Len(made) \in Nat /\ DOMAIN made = 1..Len(made)
  BY DEF RecInv, OnceOK, MadeType
<1>2. \A k \in 1..Len(made) : made[k] \in MadeRow
  BY <1>1
<1>3. \A k \in 1..Len(made) : made'[k] \in MadeRow /\ made'[k].nominal = made[k].nominal
  <2> TAKE k \in 1..Len(made)
  <2>1. made'[k] = IF k = i THEN [made[k] EXCEPT !.status = v] ELSE made[k]
    BY <1>1
  <2>2. [made[k] EXCEPT !.status = v] \in MadeRow /\ [made[k] EXCEPT !.status = v].nominal = made[k].nominal
    BY <1>2 DEF MadeRow
  <2> QED
    BY <1>2, <2>1, <2>2
<1>4. made' = [k \in 1..Len(made) |-> made'[k]]
  BY <1>1
<1>5. made' \in Seq(MadeRow) /\ Len(made') = Len(made)
  <2> DEFINE m == [k \in 1..Len(made) |-> made'[k]]
  <2>1. m \in Seq(MadeRow) /\ Len(m) = Len(made)
    BY <1>1, <1>3
  <2> QED
    BY <1>4, <2>1, Zenon
<1> QED
  BY <1>3, <1>5 DEF RecInv, OnceOK, MadeType

LEMMA ReadUpdateKeeps == ASSUME RecInv, NEW c \in RecUsers, NEW p, ReadUpdate(c, p) PROVE RecInv'
<1> DEFINE q == Patched(rec, p)
           extended == "end" \in DOMAIN p /\ rec.end # NoEnd /\ (q.end = NoEnd \/ q.end > rec.end)
           k == IF extended /\ rec.cursor # 0 /\ rec.cursor < month - 1 THEN month - 1 ELSE rec.cursor
<1>1. PICK w : Turns(c, w) /\ w = [at |-> "update", read |-> rec.cursor, next |-> q, patch |-> p, cursor |-> k]
  BY DEF ReadUpdate
<1>2. q.amt \in Nat \ {0}
  BY DEF ReadUpdate, ValidRule
<1>3. UNCHANGED <<rec, ended, month, lock, waiting, made>>
  BY DEF ReadUpdate, RowUnchanged, WorkUnchanged, WorldUnchanged
<1>4. "end" \notin DOMAIN p => k = rec.cursor
  OBVIOUS
<1>5. k \in Cursors
  <2>1. rec.cursor \in Cursors /\ month \in 1..LastRecMonth
    BY DEF RecInv, RowOK
  <2>2. month - 1 \in Cursors
    BY <2>1, RecurrencesAssumption DEF Cursors
  <2> QED
    BY <2>1, <2>2
<1> HIDE DEF q, k
<1>6. w.at = "update" /\ w.read = rec.cursor /\ w.next = q /\ w.patch = p /\ w.cursor = k
  BY <1>1
<1>7. PersonOK(w)
  BY <1>2, <1>4, <1>5, <1>6 DEF PersonOK
<1> QED
  BY <1>1, <1>3, <1>7, PersonReadsOnly

(* An edit that names no end leaves the cursor; one that does is an end.   *)
LEMMA UpdateKeeps == ASSUME RecInv, NEW c \in RecUsers, Update(c) PROVE RecInv'
<1> DEFINE w  == person[c]
           ok == rec.cursor = w.read
           named == "end" \in DOMAIN w.patch
<1>0. w.at = "update" /\ PersonOK(w)
  BY DEF Update, PersonIs, RecInv
<1>1. w.next.amt \in Nat \ {0} /\ w.cursor \in Cursors /\ (~named => w.cursor = w.read)
  BY <1>0 DEF PersonOK
<1>2. UNCHANGED <<lock, waiting, made, month>>
  BY DEF Update, WorkUnchanged, WorldUnchanged
<1>3. ended' = (ended \/ (ok /\ named))
  BY DEF Update
<1>4. PICK v : Turns(c, v) /\ PersonOK(v)
  <2>1. PICK v : Turns(c, v) /\ v = IF ok /\ named /\ w.patch.end # NoEnd /\ w.patch.cancel
                                    THEN [at |-> "made-after", end |-> w.patch.end] ELSE Off
    BY DEF Update
  <2>2. v.at = "made-after" \/ v.at = "off"
    BY <2>1 DEF Off
  <2> QED
    BY <2>1, <2>2 DEF PersonOK
<1>5. CASE ~ok
  <2>1. rec' = rec
    BY <1>5 DEF Update
  <2>2. ended' = ended
    BY <1>3, <1>5 DEF RecInv, RowOK
  <2> QED
    BY <1>2, <1>4, <2>1, <2>2, PersonReadsOnly
<1>6. CASE ok
  <2>1. rec' = [rec EXCEPT !.amt = w.next.amt, !.target = w.next.target, !.auto = w.next.auto,
                           !.end = IF named THEN w.next.end ELSE @,
                           !.archived = @ \/ w.patch.archive, !.flagged = FALSE,
                           !.cursor = w.cursor, !.sched = NextMaterialise(w.next, w.cursor)]
    BY <1>6 DEF Update
  <2>2. /\ DOMAIN rec' = DOMAIN rec /\ rec'.amt = w.next.amt /\ rec'.cursor = w.cursor
        /\ rec'.archived = (rec.archived \/ w.patch.archive) /\ (~named => rec'.end = rec.end)
    BY <2>1 DEF RecInv, RowOK
  <2> HIDE DEF w, named
  <2>3. rec'.archived \in BOOLEAN /\ ended' \in BOOLEAN /\ (rec.archived => rec'.archived)
    BY <1>3, <2>2, Zenon
  <2>4. (~ended' => ~ended /\ ~named) /\ (ended \in BOOLEAN)
    BY <1>3, <1>6 DEF RecInv, RowOK
  <2>5. RowOK'
    BY <1>1, <1>2, <2>2, <2>3, <2>4 DEF RecInv, RowOK
  <2>6. Active' => Active
    BY <2>3, <2>4 DEF Active
  <2>7. lock' \in LocksType /\ waiting' \in WaitsType /\ OnceOK(made', lock') /\ Advances(lock, waiting, lock', waiting')
    BY <1>2, WorkStays
  <2>8. ASSUME Active' PROVE UpTo(lock', waiting', rec'.cursor)
    <3>1. ~named /\ Active
      BY <2>4, <2>6, <2>8 DEF Active
    <3>2. rec'.cursor = rec.cursor
      BY <1>1, <1>6, <2>2, <3>1
    <3> QED
      BY <1>2, <3>1, <3>2 DEF RecInv
  <2> HIDE DEF Active
  <2> QED
    BY <1>4, <2>5, <2>6, <2>7, <2>8, PersonMoves
<1> QED
  BY <1>5, <1>6

LEMMA EndKeeps ==
  ASSUME RecInv, NEW c \in RecUsers, MadeAfter(c) \/ ListPending(c)
  PROVE  RecInv'
<1>1. UNCHANGED <<rec, ended, month, lock, waiting, made>>
  BY DEF MadeAfter, ListPending, RowUnchanged, WorkUnchanged, WorldUnchanged
<1>2. PICK w : Turns(c, w) /\ PersonOK(w)
  <2>1. CASE MadeAfter(c)
    <3> DEFINE l == {i \in 1..Len(made) : /\ made[i].what = "bill" /\ made[i].nominal > person[c].end
                                          /\ made[i].status = "forecast"}
    <3>1. PICK w : Turns(c, w) /\ w = [at |-> "cancel", end |-> person[c].end, left |-> l]
      BY <2>1 DEF MadeAfter
    <3> HIDE DEF l
    <3>2. PersonOK(w)
      BY <3>1 DEF PersonOK
    <3> QED
      BY <3>1, <3>2
  <2>2. CASE ListPending(c)
    <3> DEFINE l == {n \in Months : n > person[c].end /\ waiting[n] # 0}
    <3>1. PICK w : Turns(c, w) /\ w = [at |-> "skip", left |-> l]
      BY <2>2 DEF ListPending
    <3>2. l \subseteq Months
      OBVIOUS
    <3> HIDE DEF l
    <3>3. PersonOK(w)
      BY <3>1, <3>2 DEF PersonOK
    <3> QED
      BY <3>1, <3>3
  <2> QED
    BY <2>1, <2>2
<1> QED
  BY <1>1, <1>2, PersonReadsOnly

LEMMA CancelKeeps == ASSUME RecInv, NEW c \in RecUsers, CancelOccurrences(c) PROVE RecInv'
<1> DEFINE w == person[c]
<1>1. w.at = "cancel" /\ PersonOK(w)
  BY DEF CancelOccurrences, PersonIs, RecInv
<1>2. UNCHANGED <<rec, ended, month, lock, waiting>>
  BY DEF CancelOccurrences, RowUnchanged, WorldUnchanged
<1>3. PICK i : /\ made' = [made EXCEPT ![i].status = "canceled"] \/ made' = made
               /\ Turns(c, [w EXCEPT !.left = @ \ {i}])
  BY DEF CancelOccurrences
<1>4. PICK v : Turns(c, v) /\ v = [w EXCEPT !.left = @ \ {i}]
  BY <1>3
<1>5. v.at = "cancel" /\ DOMAIN v = {"at", "end", "left"}
  BY <1>1, <1>4 DEF PersonOK
<1>6. PersonOK(v)
  BY <1>5 DEF PersonOK
<1>7. lock' \in LocksType /\ waiting' \in WaitsType /\ Advances(lock, waiting, lock', waiting')
  BY <1>2, SameAdvances DEF RecInv
<1>8. OnceOK(made', lock')
  <2>1. CASE made' = made
    BY <1>2, <2>1 DEF RecInv
  <2>2. CASE made' = [made EXCEPT ![i].status = "canceled"]
    BY <1>2, <2>2, StatusKeeps
  <2> QED
    BY <1>3, <2>1, <2>2
<1> QED
  BY <1>2, <1>4, <1>6, <1>7, <1>8, PersonWorks

LEMMA SkipsKeep == ASSUME RecInv, NEW c \in RecUsers, SkipPendingOccurrences(c) PROVE RecInv'
<1> DEFINE w == person[c]
<1>1. w.at = "skip" /\ DOMAIN w = {"at", "left"} /\ w.left \subseteq Months
  BY DEF SkipPendingOccurrences, PersonIs, RecInv, PersonOK
<1>2. UNCHANGED <<rec, ended, month, made>>
  BY DEF SkipPendingOccurrences, RowUnchanged, WorldUnchanged
<1>3. CASE w.left = {} /\ Turns(c, Off) /\ UNCHANGED <<waiting, lock>>
  BY <1>2, <1>3, OffIsOK, PersonReadsOnly
<1>4. ASSUME NEW n \in w.left, Skip(n),
             Turns(c, IF (waiting[n] # 0 /\ lock[n] = "none") \/ lock[n] = "skipped" THEN [w EXCEPT !.left = @ \ {n}] ELSE Off)
      PROVE  RecInv'
  <2>1. n \in Months /\ lock \in LocksType /\ waiting \in WaitsType
    BY <1>1 DEF RecInv
  <2>2. PICK v : Turns(c, v) /\ (v = [w EXCEPT !.left = @ \ {n}] \/ v = Off)
    <3>1. CASE (waiting[n] # 0 /\ lock[n] = "none") \/ lock[n] = "skipped"
      BY <1>4, <3>1
    <3>2. CASE ~((waiting[n] # 0 /\ lock[n] = "none") \/ lock[n] = "skipped")
      BY <1>4, <3>2
    <3> QED
      BY <3>1, <3>2
  <2>3. PersonOK(v)
    <3>1. CASE v = Off
      BY <3>1, OffIsOK
    <3>2. CASE v = [w EXCEPT !.left = @ \ {n}]
      <4>1. v.at = "skip" /\ DOMAIN v = {"at", "left"} /\ v.left = w.left \ {n}
        BY <1>1, <3>2
      <4> QED
        BY <1>1, <4>1 DEF PersonOK
    <3> QED
      BY <2>2, <3>1, <3>2
  <2>4. /\ lock' \in LocksType /\ waiting' \in WaitsType
        /\ \A m \in Months : (lock[m] # "none" => lock'[m] # "none") /\ (waiting'[m] = waiting[m] \/ lock'[m] # "none")
    BY <1>4, <2>1 DEF Skip, LocksType, WaitsType
  <2>5. Advances(lock, waiting, lock', waiting')
    BY <2>4 DEF Advances, Handled
  <2>6. OnceOK(made', lock')
    <3>1. \A i \in 1..Len(made) : made[i].nominal \in Months
      <4>1. \A i \in 1..Len(made) : made[i] \in MadeRow
        BY DEF RecInv, OnceOK, MadeType
      <4> QED
        BY <4>1 DEF MadeRow
    <3> QED
      BY <1>2, <2>4, <3>1 DEF RecInv, OnceOK
  <2> QED
    BY <1>2, <2>2, <2>3, <2>4, <2>5, <2>6, PersonWorks
<1> QED
  BY <1>3, <1>4 DEF SkipPendingOccurrences

LEMMA ArchiveKeeps == ASSUME RecInv, NEW c \in RecUsers, Archive(c) PROVE RecInv'
<1>1. UNCHANGED <<lock, waiting, made, month, ended>>
  BY DEF Archive, WorkUnchanged, WorldUnchanged
<1>2. PICK v : Turns(c, v) /\ v = [at |-> "cancel", end |-> 0, left |-> {}]
  BY DEF Archive
<1>3. PersonOK(v)
  BY <1>2 DEF PersonOK
<1>4. DOMAIN rec' = DOMAIN rec /\ rec'.amt = rec.amt /\ rec'.cursor = rec.cursor /\ rec'.archived = TRUE /\ rec'.end = rec.end
  BY DEF Archive, RecInv, RowOK
<1>5. RowOK' /\ ~Active'
  BY <1>1, <1>4 DEF RecInv, RowOK, Active
<1>6. lock' \in LocksType /\ waiting' \in WaitsType /\ OnceOK(made', lock') /\ Advances(lock, waiting, lock', waiting')
  BY <1>1, WorkStays
<1> QED
  BY <1>2, <1>3, <1>5, <1>6, PersonMoves

LEMMA PendingReadsKeep ==
  ASSUME RecInv, NEW c \in RecUsers, NEW n \in Months, ReadPending(c, n) \/ SkipExpected(c, n)
  PROVE  RecInv'
<1>1. UNCHANGED <<rec, ended, month, lock, waiting, made>>
  BY DEF ReadPending, SkipExpected, RowUnchanged, WorkUnchanged, WorldUnchanged
<1>2. waiting[n] \in Nat
  BY DEF RecInv, WaitsType
<1>3. PICK v : Turns(c, v) /\ PersonOK(v)
  <2>1. CASE ReadPending(c, n)
    <3>1. PICK v : Turns(c, v) /\ v = [at |-> "confirm", nominal |-> n, amt |-> waiting[n], target |-> rec.target]
      BY <2>1 DEF ReadPending
    <3>2. v.at = "confirm" /\ v.nominal = n /\ v.amt = waiting[n]
      BY <3>1
    <3> QED
      BY <1>2, <3>1, <3>2 DEF PersonOK
  <2>2. CASE SkipExpected(c, n)
    <3>1. PICK v : Turns(c, v) /\ v = [at |-> "skip", left |-> {n}]
      BY <2>2 DEF SkipExpected
    <3>2. v.at = "skip" /\ v.left = {n} /\ DOMAIN v = {"at", "left"}
      BY <3>1
    <3> QED
      BY <3>1, <3>2 DEF PersonOK
  <2> QED
    BY <2>1, <2>2
<1> QED
  BY <1>1, <1>3, PersonReadsOnly

LEMMA ConfirmKeeps == ASSUME RecInv, NEW c \in RecUsers, ConfirmExpectedOccurrence(c) PROVE RecInv'
<1> DEFINE p == person[c]
           n == p.nominal
<1>1. n \in Months /\ p.amt \in Nat
  BY DEF ConfirmExpectedOccurrence, PersonIs, RecInv, PersonOK
<1>2. Turns(c, Off) /\ UNCHANGED <<rec, ended, month>>
  BY DEF ConfirmExpectedOccurrence, RowUnchanged, WorldUnchanged
<1>3. CASE UNCHANGED <<lock, waiting, made>>
  BY <1>2, <1>3, OffIsOK, PersonReadsOnly
<1>4. CASE lock[n] = "none" /\ waiting' = [waiting EXCEPT ![n] = 0] /\ Make(n, MadeAs(p), p.amt)
  <2>1. MadeAs(p) \in {"bill", "purchase"}
    BY DEF MadeAs
  <2>2. /\ lock' \in LocksType /\ OnceOK(made', lock') /\ lock'[n] # "none"
        /\ \A m \in Months : lock[m] # "none" => lock'[m] # "none"
    BY <1>1, <1>4, <2>1, MakeOnce
  <2>3. waiting' \in WaitsType /\ \A m \in Months : m # n => waiting'[m] = waiting[m]
    BY <1>4 DEF RecInv, WaitsType
  <2>4. Advances(lock, waiting, lock', waiting')
    BY <2>2, <2>3 DEF Advances, Handled
  <2> QED
    BY <1>2, <2>2, <2>3, <2>4, OffIsOK, PersonWorks
<1> QED
  BY <1>3, <1>4 DEF ConfirmExpectedOccurrence, WorkUnchanged

LEMMA PersonStepKeeps == ASSUME RecInv, NEW c \in RecUsers, PersonStep(c) PROVE RecInv'
  BY ReadUpdateKeeps, UpdateKeeps, EndKeeps, CancelKeeps, SkipsKeep, ArchiveKeeps, PendingReadsKeep, ConfirmKeeps
     DEF PersonStep

(* Bills are paid, the month ends and cards are archived by others.        *)
LEMMA WorldKeeps ==
  ASSUME RecInv, (\E i \in 1..Len(made) : PayBill(i)) \/ NextMonth \/ CardArchived \/ UNCHANGED recVars
  PROVE  RecInv'
<1>1. UNCHANGED <<rec, lock, waiting, ended, person, run>>
  BY DEF PayBill, NextMonth, CardArchived, recVars
<1>2. month' \in 1..LastRecMonth
  <2>1. month \in 1..LastRecMonth /\ LastRecMonth \in Nat
    BY RecurrencesAssumption DEF RecInv, RowOK
  <2>2. month' = month \/ (month < LastRecMonth /\ month' = month + 1)
    BY DEF PayBill, NextMonth, CardArchived, recVars
  <2> QED
    BY <2>1, <2>2
<1>3. RowOK' /\ (Active' <=> Active)
  BY <1>1, <1>2 DEF RecInv, RowOK, Active
<1>4. OnceOK(made', lock')
  <2>1. CASE made' = made
    BY <1>1, <2>1 DEF RecInv
  <2>2. ASSUME NEW i \in 1..Len(made), PayBill(i) PROVE OnceOK(made', lock')
    <3>1. made' = [made EXCEPT ![i].status = "paid"]
      BY <2>2 DEF PayBill
    <3> QED
      BY <1>1, <3>1, StatusKeeps
  <2> QED
    BY <2>1, <2>2 DEF NextMonth, CardArchived, recVars
<1>5. lock' \in LocksType /\ waiting' \in WaitsType /\ Advances(lock, waiting, lock', waiting')
  BY <1>1, SameAdvances DEF RecInv
<1>6. Active' => UpTo(lock', waiting', rec'.cursor)
  BY <1>1, <1>3, <1>5, CursorStays
<1>7. run' = [j \in RecJobs |-> run'[j]] /\ \A j \in RecJobs : run'[j] = run[j]
  BY <1>1 DEF RecInv
<1>8. person' = [c \in RecUsers |-> person'[c]] /\ \A c \in RecUsers : person'[c] = person[c]
  BY <1>1 DEF RecInv
<1> QED
  BY <1>3, <1>4, <1>5, <1>6, <1>7, <1>8, RecMoves

(* Runs of the job that overlap, die and are repeated, and people who edit *)
(* the rule, end it, confirm and skip, never turn one occurrence into      *)
(* money twice, and while no end was written the cursor leaves none behind *)
(* (CreateFromOccurrence of repositories/bills.go, PostOccurrence of       *)
(* repositories/recurrence_cards.go, CreatePendingOccurrence and           *)
(* MarkMaterialised of repositories/recurrences.go).                       *)
THEOREM OccurrencesAreMadeOnce == RecurrencesSpec => []EachOccurrenceOnce
<1>1. RecurrencesInit => RecInv
  BY RecInitially
<1>2. RecInv /\ [RecurrencesNext]_recVars => RecInv'
  BY JobStepKeeps, PersonStepKeeps, WorldKeeps DEF RecurrencesNext
<1>3. RecInv => EachOccurrenceOnce
  <2> SUFFICES ASSUME RecInv PROVE EachOccurrenceOnce
    OBVIOUS
  <2>1. \A i, k \in 1..Len(made) : made[i].nominal = made[k].nominal => i = k
    BY DEF RecInv, OnceOK
  <2>2. (~ended /\ ~rec.archived) => \A n \in 1..rec.cursor : lock[n] # "none" \/ waiting[n] # 0
    BY DEF RecInv, Active, UpTo, Handled
  <2> QED
    BY <2>1, <2>2 DEF EachOccurrenceOnce
<1> QED
  BY <1>1, <1>2, <1>3, PTL DEF RecurrencesSpec

----------------------------------------------------------------------------
(* The imports.                                                            *)

KeysOf(i, n) == {KeyOf(i, n), HashKey(i, n)}

(* The key a line goes by: one of its two, and the first when the          *)
(* transaction has a key of its own.                                       *)
KeyFits(i, n, k) == k \in KeysOf(i, n) /\ (KeyedAlike(Files[i][n]) => k = KeyOf(i, n))

LineOK(l, r) ==
    r.there => /\ DOMAIN r = {"there", "status", "expires", "lock"}
               /\ KeyFits(l[1], l[2], r.lock)

(* A lock belongs to a line that is there, bears its key and is what the   *)
(* lock was claimed for.                                                   *)
Holder(r) == <<r.imp, r.n>>
LockOK(k, r, L) ==
    /\ DOMAIN r = {"imp", "n", "expires", "resolved", "tx"}
    /\ r.resolved \in BOOLEAN
    /\ Holder(r) \in LineIds
    /\ L[Holder(r)].there /\ L[Holder(r)].lock = k
    /\ r.tx = Txs[TxOf(Holder(r))]

(* A line in the books is decided, and holds its lock for good.            *)
BookedOK(l, n, r, K) ==
    n = 0 \/ ( /\ n = 1 /\ r.there /\ r.status \in {"matched", "linked", "created"}
               /\ r.lock \in DOMAIN K
               /\ Holder(K[r.lock]) = l /\ K[r.lock].resolved )

(* An upload has dealt with what it does not hold, and goes by the right   *)
(* keys; a decision goes by its line's lock.                               *)
ClaimOK(x, L) ==
    /\ DOMAIN x = {"at", "imp", "todo", "got", "now"}
    /\ x.imp \in Imps
    /\ \A p \in x.todo : /\ p = [n |-> p.n, key |-> p.key] /\ p.n \in DOMAIN Files[x.imp]
                         /\ KeyFits(x.imp, p.n, p.key)
    /\ \A p, q \in x.todo : p.n = q.n => p.key = q.key
    /\ \A n \in DOMAIN Files[x.imp] :
        (\E p \in x.todo : p.n = n) \/ (\E l \in LineIds : L[l].there /\ TxOf(l) = Files[x.imp][n])
WorkOK(x, L) ==
    /\ x.at = "claim" => ClaimOK(x, L)
    /\ x.at = "decide" => x.of \in LineIds /\ L[x.of].there /\ x.lock = L[x.of].lock

ImportsInv ==
    /\ line = [l \in LineIds |-> line[l]]
    /\ lockRow = [k \in DOMAIN lockRow |-> lockRow[k]]
    /\ bookings = [l \in LineIds |-> bookings[l]]
    /\ used = [t \in Targets |-> used[t]]
    /\ work = [w \in Importers |-> work[w]]
    /\ \A l \in LineIds : LineOK(l, line[l]) /\ (line[l].there => line[l].lock \in DOMAIN lockRow)
    /\ \A l \in LineIds : BookedOK(l, bookings[l], line[l], lockRow)
    /\ \A k \in DOMAIN lockRow : LockOK(k, lockRow[k], line)
    /\ \A w \in Importers : WorkOK(work[w], line)
    /\ \A t \in Targets : used[t] = {} \/ \E l \in LineIds : used[t] = {l}

LEMMA LinesAre ==
    /\ \A l \in LineIds : l[1] \in Imps /\ l[2] \in DOMAIN Files[l[1]] /\ l = <<l[1], l[2]>>
    /\ \A i \in Imps : \A n \in DOMAIN Files[i] : <<i, n>> \in LineIds
    /\ \A i \in Imps : DOMAIN Files[i] = 1..Len(Files[i]) /\ Len(Files[i]) \in Nat
<1>1. \A i \in Imps : DOMAIN Files[i] = 1..Len(Files[i]) /\ Len(Files[i]) \in Nat
  BY ImportsAssumption
<1>2. ASSUME NEW l \in LineIds PROVE l[1] \in Imps /\ l[2] \in DOMAIN Files[l[1]] /\ l = <<l[1], l[2]>>
  <2>1. PICK i \in Imps : l \in {i} \X (1..Len(Files[i]))
    BY DEF LineIds
  <2> QED BY <2>1, <1>1
<1>3. ASSUME NEW i \in Imps, NEW n \in DOMAIN Files[i] PROVE <<i, n>> \in LineIds
  <2>1. <<i, n>> \in {i} \X (1..Len(Files[i]))
    BY <1>1
  <2> QED BY <2>1 DEF LineIds
<1> QED BY <1>1, <1>2, <1>3

(* Equal lines of a file are told apart by their ordinals (Keys).          *)
LEMMA OrdinalsDiffer ==
    ASSUME NEW i \in Imps, NEW n \in DOMAIN Files[i], NEW m \in DOMAIN Files[i],
           Txs[Files[i][n]] = Txs[Files[i][m]], n < m
    PROVE  Ordinal(i, n) # Ordinal(i, m)
<1> DEFINE Upto(k) == {j \in 1..k : SameContent(Files[i][j], Files[i][k])}
<1>1. n \in Nat /\ m \in Nat
  BY LinesAre
<1>2. IsFiniteSet(Upto(m))
  <2>1. IsFiniteSet(1..m)
    BY <1>1, FS_Interval
  <2>2. Upto(m) \subseteq 1..m
    OBVIOUS
  <2> QED BY <2>1, <2>2, FS_Subset
<1>3. Upto(n) \subseteq Upto(m)
  BY <1>1 DEF SameContent
<1>4. m \in Upto(m) /\ m \notin Upto(n)
  <2>1. m >= 1
    BY LinesAre
  <2> QED BY <1>1, <2>1 DEF SameContent
<1>5. Cardinality(Upto(n)) # Cardinality(Upto(m))
  <2> HIDE DEF Upto
  <2> QED BY <1>2, <1>3, <1>4, FS_Subset
<1> QED BY <1>5 DEF Ordinal

(* No two lines of a file share a key.                                     *)
LEMMA KeysDiffer ==
    ASSUME NEW i \in Imps, NEW n \in DOMAIN Files[i], NEW m \in DOMAIN Files[i], NEW k,
           k \in KeysOf(i, n), k \in KeysOf(i, m)
    PROVE  n = m
<1> SUFFICES ASSUME n # m PROVE FALSE
  OBVIOUS
<1>1. n \in Nat /\ m \in Nat
  BY LinesAre
<1>2. CASE k = HashKey(i, n) /\ k = HashKey(i, m)
  <2>1. Txs[Files[i][n]] = Txs[Files[i][m]] /\ Ordinal(i, n) = Ordinal(i, m)
    BY <1>2 DEF HashKey
  <2>2. n < m \/ m < n
    BY <1>1
  <2>3. CASE n < m
    BY <2>1, <2>3, OrdinalsDiffer
  <2>4. CASE m < n
    <3>1. Txs[Files[i][m]] = Txs[Files[i][n]]
      BY <2>1
    <3>2. Ordinal(i, m) # Ordinal(i, n)
      BY <3>1, <2>4, OrdinalsDiffer
    <3> QED BY <3>2, <2>1
  <2> QED BY <2>2, <2>3, <2>4
<1>3. CASE k # HashKey(i, n)
  <2>1. k = FitKey(i, n) /\ ~Repeated(i, n)
    BY <1>3 DEF KeysOf, KeyOf
  <2>2. k # HashKey(i, m)
    BY <2>1 DEF FitKey, HashKey
  <2>3. k = FitKey(i, m)
    BY <2>2 DEF KeysOf, KeyOf
  <2> QED BY <2>1, <2>3 DEF FitKey, Repeated
<1>4. CASE k # HashKey(i, m)
  <2>1. k = FitKey(i, m) /\ ~Repeated(i, m)
    BY <1>4 DEF KeysOf, KeyOf
  <2>2. k # HashKey(i, n)
    BY <2>1 DEF FitKey, HashKey
  <2>3. k = FitKey(i, n)
    BY <2>2 DEF KeysOf, KeyOf
  <2> QED BY <2>1, <2>3 DEF FitKey, Repeated
<1> QED BY <1>2, <1>3, <1>4

(* Two locks of one import on the same key are one line's.                 *)
LEMMA HolderIs ==
    ASSUME ImportsInv, NEW l \in LineIds, line[l].there, lockRow[line[l].lock].imp = l[1]
    PROVE  Holder(lockRow[line[l].lock]) = l
<1> DEFINE k == line[l].lock
           h == Holder(lockRow[k])
<1>1. k \in DOMAIN lockRow /\ k \in KeysOf(l[1], l[2])
  BY DEF ImportsInv, LineOK, KeyFits
<1>2. h \in LineIds /\ line[h].there /\ line[h].lock = k
  BY <1>1 DEF ImportsInv, LockOK
<1>3. k \in KeysOf(h[1], h[2])
  BY <1>2 DEF ImportsInv, LineOK, KeyFits
<1>4. h = <<l[1], h[2]>>
  BY DEF Holder
<1>5. l[1] \in Imps /\ l[2] \in DOMAIN Files[l[1]] /\ l = <<l[1], l[2]>> /\ h[2] \in DOMAIN Files[l[1]]
  BY <1>2, <1>4, LinesAre
<1>6. k \in KeysOf(l[1], h[2])
  BY <1>3, <1>4
<1>7. h[2] = l[2]
  <2> HIDE DEF k, h
  <2> QED BY <1>1, <1>5, <1>6, KeysDiffer
<1> QED BY <1>4, <1>5, <1>7

----------------------------------------------------------------------------
(* Lines are never taken away, nor given another lock.                     *)
Keeps(L, M) == \A l \in LineIds : L[l].there => M[l].there /\ M[l].lock = L[l].lock

LEMMA WorkSurvives ==
    ASSUME NEW x, NEW L, NEW M, WorkOK(x, L), Keeps(L, M)
    PROVE  WorkOK(x, M)
<1>1. ASSUME x.at = "claim" PROVE ClaimOK(x, M)
  <2>1. ClaimOK(x, L)
    BY <1>1 DEF WorkOK
  <2>2. ASSUME NEW n \in DOMAIN Files[x.imp], \E l \in LineIds : L[l].there /\ TxOf(l) = Files[x.imp][n]
        PROVE  \E l \in LineIds : M[l].there /\ TxOf(l) = Files[x.imp][n]
    BY <2>2 DEF Keeps
  <2> QED BY <2>1, <2>2 DEF ClaimOK
<1>2. ASSUME x.at = "decide" PROVE x.of \in LineIds /\ M[x.of].there /\ x.lock = M[x.of].lock
  BY <1>2 DEF WorkOK, Keeps
<1> QED BY <1>1, <1>2 DEF WorkOK

UsedOK(U) == U = [t \in Targets |-> U[t]] /\ \A t \in Targets : U[t] = {} \/ \E l \in LineIds : U[t] = {l}

(* What a request does to itself.                                          *)
LEMMA WorkMoves ==
    ASSUME ImportsInv, NEW w \in Importers, NEW r, Works(w, r), WorkOK(r, line'), Keeps(line, line')
    PROVE  /\ work' = [v \in Importers |-> work'[v]]
           /\ \A v \in Importers : WorkOK(work'[v], line')
<1>1. work' = [work EXCEPT ![w] = r] /\ work = [v \in Importers |-> work[v]]
  BY DEF Works, ImportsInv
<1>2. work'[w] = r /\ \A v \in Importers : v # w => work'[v] = work[v]
  BY <1>1
<1>3. ASSUME NEW v \in Importers, v # w PROVE WorkOK(work'[v], line')
  <2>1. WorkOK(work[v], line)
    BY DEF ImportsInv
  <2>2. WorkOK(work[v], line')
    BY <2>1, WorkSurvives
  <2> QED BY <1>2, <1>3, <2>2
<1>4. WorkOK(work'[w], line')
  BY <1>2
<1>5. work' = [v \in Importers |-> work'[v]]
  BY <1>1
<1> QED BY <1>3, <1>4, <1>5

LEMMA SameKeeps == Keeps(line, line)
BY DEF Keeps

(* A step that writes nothing the invariant speaks of but the request.     *)
LEMMA ImportsAside ==
    ASSUME ImportsInv, NEW w \in Importers, NEW r, Works(w, r), WorkOK(r, line),
           UNCHANGED <<line, lockRow, bookings, used>>
    PROVE  ImportsInv'
<1>1. /\ work' = [v \in Importers |-> work'[v]]
      /\ \A v \in Importers : WorkOK(work'[v], line')
  <2>1. Keeps(line, line') /\ WorkOK(r, line')
    BY SameKeeps
  <2> QED BY <2>1, WorkMoves
<1> QED BY <1>1 DEF ImportsInv

LEMMA OffWorkOK == ASSUME NEW L PROVE WorkOK(OffWork, L)
BY DEF WorkOK, OffWork

LEMMA ImportsInitially == ASSUME ImportsInit PROVE ImportsInv
<1>1. \A l \in LineIds : line[l] = NoRow /\ bookings[l] = 0
  BY DEF ImportsInit
<1>2. ~NoRow.there
  BY DEF NoRow
<1>3. \A l \in LineIds : LineOK(l, line[l]) /\ ~line[l].there
  BY <1>1, <1>2 DEF LineOK
<1>4. \A l \in LineIds : BookedOK(l, bookings[l], line[l], lockRow)
  BY <1>1 DEF BookedOK
<1>5. DOMAIN lockRow = {} /\ lockRow = [k \in DOMAIN lockRow |-> lockRow[k]]
  BY DEF ImportsInit
<1>6. \A w \in Importers : WorkOK(work[w], line)
  <2> SUFFICES ASSUME NEW w \in Importers PROVE WorkOK(work[w], line)
    OBVIOUS
  <2>1. work[w] = OffWork
    BY DEF ImportsInit
  <2> QED BY <2>1, OffWorkOK
<1>7. \A t \in Targets : used[t] = {}
  BY DEF ImportsInit
<1>8. /\ line = [l \in LineIds |-> line[l]] /\ bookings = [l \in LineIds |-> bookings[l]]
      /\ used = [t \in Targets |-> used[t]] /\ work = [w \in Importers |-> work[w]]
  BY DEF ImportsInit
<1> QED BY <1>3, <1>4, <1>5, <1>6, <1>7, <1>8 DEF ImportsInv

LEMMA UploadKeeps == ASSUME ImportsInv, NEW w \in Importers, NEW i \in Imps, Upload(w, i) PROVE ImportsInv'
<1> DEFINE r == [at |-> "claim", imp |-> i, todo |-> Todo(i), got |-> FALSE, now |-> clock]
<1>1. Works(w, r) /\ UNCHANGED <<line, lockRow, bookings, used>>
  BY DEF Upload
<1>2. ClaimOK(r, line)
  <2>1. \A p \in Todo(i) : \E n \in DOMAIN Files[i] : p = [n |-> n, key |-> KeyOf(i, n)]
    BY DEF Todo
  <2>2. \A p \in Todo(i) : /\ p = [n |-> p.n, key |-> p.key] /\ p.n \in DOMAIN Files[i]
                           /\ p.key = KeyOf(i, p.n)
    BY <2>1
  <2>3. \A p \in Todo(i) : KeyFits(i, p.n, p.key)
    BY <2>2 DEF KeyFits, KeysOf
  <2>4. \A n \in DOMAIN Files[i] : \E p \in Todo(i) : p.n = n
    <3> SUFFICES ASSUME NEW n \in DOMAIN Files[i] PROVE \E p \in Todo(i) : p.n = n
      OBVIOUS
    <3>1. [n |-> n, key |-> KeyOf(i, n)] \in Todo(i)
      BY DEF Todo
    <3> QED BY <3>1
  <2>5. DOMAIN r = {"at", "imp", "todo", "got", "now"} /\ r.imp = i /\ r.todo = Todo(i)
    OBVIOUS
  <2>6. \A p, q \in Todo(i) : p.n = q.n => p.key = q.key
    BY <2>2
  <2> HIDE DEF r
  <2> QED BY <2>2, <2>3, <2>4, <2>5, <2>6 DEF ClaimOK
<1>3. WorkOK(r, line)
  <2>1. r.at = "claim"
    OBVIOUS
  <2> HIDE DEF r
  <2> QED BY <2>1, <1>2 DEF WorkOK
<1> HIDE DEF r
<1> QED BY <1>1, <1>3, ImportsAside

(* Requests that end with nothing written to lines, locks or books.        *)
LEMMA EndsKeep ==
    ASSUME ImportsInv, NEW w \in Importers, Stored(w) \/ UploadDies(w) \/ Refused(w)
    PROVE  ImportsInv'
<1>1. Works(w, OffWork) /\ UNCHANGED <<line, lockRow, bookings, used>>
  BY DEF Stored, UploadDies, Refused
<1> QED BY <1>1, OffWorkOK, ImportsAside

LEMMA LoadLineKeeps ==
    ASSUME ImportsInv, NEW w \in Importers, NEW l \in LineIds, LoadLine(w, l) PROVE ImportsInv'
<1> DEFINE r == [at |-> "decide", of |-> l, status |-> line[l].status, lock |-> line[l].lock]
<1>1. Works(w, r) /\ UNCHANGED <<line, lockRow, bookings, used>> /\ line[l].there
  BY DEF LoadLine, Alive
<1>2. WorkOK(r, line)
  BY <1>1 DEF WorkOK
<1> HIDE DEF r
<1> QED BY <1>1, <1>2, ImportsAside

----------------------------------------------------------------------------
(* A decision on a line that is not in the books: its lock is the line's   *)
(* own, so no other line in the books loses its.                           *)
LEMMA DecisionKeeps ==
    ASSUME ImportsInv, NEW w \in Importers, WorksAt(w, "decide"), NEW l, l = work[w].of,
           NEW k, k = work[w].lock, NEW s, NEW b \in BOOLEAN,
           line[l].status \in {"pending", "ignored"}, lockRow[k].imp = l[1],
           line' = [line EXCEPT ![l].status = s],
           lockRow' = [lockRow EXCEPT ![k].resolved = b],
           \/ bookings' = bookings
           \/ s \in {"matched", "linked", "created"} /\ b /\ bookings' = [bookings EXCEPT ![l] = @ + 1],
           UsedOK(used'), Works(w, OffWork)
    PROVE  ImportsInv'
<1>1. l \in LineIds /\ line[l].there /\ k = line[l].lock
  BY DEF ImportsInv, WorkOK, WorksAt
<1>2. k \in DOMAIN lockRow /\ Holder(lockRow[k]) = l /\ LockOK(k, lockRow[k], line)
  BY <1>1, HolderIs DEF ImportsInv
<1>3. bookings[l] = 0
  <2>1. BookedOK(l, bookings[l], line[l], lockRow)
    BY <1>1 DEF ImportsInv
  <2>2. line[l].status \notin {"matched", "linked", "created"}
    OBVIOUS
  <2> QED BY <2>1, <2>2 DEF BookedOK
<1>4. LineOK(l, line[l])
  BY <1>1 DEF ImportsInv
<1>5. /\ line'[l] = [line[l] EXCEPT !.status = s]
      /\ \A m \in LineIds : m # l => line'[m] = line[m]
      /\ line' = [m \in LineIds |-> line'[m]]
  BY <1>1 DEF ImportsInv
<1>6. /\ DOMAIN line[l] = {"there", "status", "expires", "lock"}
      /\ line'[l].there = line[l].there /\ line'[l].lock = line[l].lock /\ line'[l].status = s
      /\ DOMAIN line'[l] = DOMAIN line[l]
  BY <1>1, <1>4, <1>5 DEF LineOK
<1>7. Keeps(line, line')
  BY <1>5, <1>6 DEF Keeps
<1>8. /\ lockRow'[k] = [lockRow[k] EXCEPT !.resolved = b]
      /\ \A j \in DOMAIN lockRow : j # k => lockRow'[j] = lockRow[j]
      /\ DOMAIN lockRow' = DOMAIN lockRow
      /\ lockRow' = [j \in DOMAIN lockRow' |-> lockRow'[j]]
  BY <1>2 DEF ImportsInv
<1>9. /\ lockRow'[k].imp = lockRow[k].imp /\ lockRow'[k].n = lockRow[k].n
      /\ lockRow'[k].tx = lockRow[k].tx /\ lockRow'[k].resolved = b
      /\ DOMAIN lockRow'[k] = DOMAIN lockRow[k]
  BY <1>2, <1>8 DEF LockOK
<1>10. Holder(lockRow'[k]) = l
  BY <1>2, <1>9 DEF Holder
<1>11. \A m \in LineIds : LineOK(m, line'[m]) /\ (line'[m].there => line'[m].lock \in DOMAIN lockRow')
  <2> SUFFICES ASSUME NEW m \in LineIds
               PROVE  LineOK(m, line'[m]) /\ (line'[m].there => line'[m].lock \in DOMAIN lockRow')
    OBVIOUS
  <2>1. LineOK(m, line[m]) /\ (line[m].there => line[m].lock \in DOMAIN lockRow)
    BY DEF ImportsInv
  <2>2. CASE m = l
    BY <2>1, <2>2, <1>6, <1>8 DEF LineOK
  <2>3. CASE m # l
    BY <2>1, <2>3, <1>5, <1>8
  <2> QED BY <2>2, <2>3
<1>12. \A j \in DOMAIN lockRow' : LockOK(j, lockRow'[j], line')
  <2> SUFFICES ASSUME NEW j \in DOMAIN lockRow PROVE LockOK(j, lockRow'[j], line')
    BY <1>8
  <2>1. LockOK(j, lockRow[j], line)
    BY DEF ImportsInv
  <2>2. CASE j = k
    <3>1. LockOK(k, lockRow[k], line) /\ Holder(lockRow[k]) = Holder(lockRow'[k])
      BY <1>2, <1>10
    <3>2. line'[l].there /\ line'[l].lock = k /\ lockRow'[k].tx = Txs[TxOf(l)]
      BY <1>1, <1>2, <1>6, <1>9 DEF LockOK
    <3> QED BY <2>2, <3>1, <3>2, <1>1, <1>9, <1>10 DEF LockOK
  <2>3. CASE j # k
    BY SMTT(30), <2>1, <2>3, <1>7, <1>8 DEF LockOK, Keeps
  <2> QED BY <2>2, <2>3
<1>13. bookings' = [m \in LineIds |-> bookings'[m]] /\ \A m \in LineIds : m # l => bookings'[m] = bookings[m]
  BY <1>1 DEF ImportsInv
<1>14. \A m \in LineIds : BookedOK(m, bookings'[m], line'[m], lockRow')
  <2> SUFFICES ASSUME NEW m \in LineIds PROVE BookedOK(m, bookings'[m], line'[m], lockRow')
    OBVIOUS
  <2>1. CASE m = l
    <3>1. CASE bookings' = bookings
      BY <2>1, <3>1, <1>3 DEF BookedOK
    <3>2. CASE s \in {"matched", "linked", "created"} /\ b /\ bookings' = [bookings EXCEPT ![l] = @ + 1]
      <4>1. bookings'[l] = 1
        BY <3>2, <1>1, <1>3 DEF ImportsInv
      <4>2. line'[l].there /\ line'[l].status \in {"matched", "linked", "created"} /\ line'[l].lock = k
        BY <3>2, <1>1, <1>6
      <4>3. k \in DOMAIN lockRow' /\ lockRow'[k].resolved
        BY <3>2, <1>2, <1>8, <1>9
      <4> QED BY <2>1, <4>1, <4>2, <4>3, <1>10 DEF BookedOK
    <3> QED BY <3>1, <3>2
  <2>2. CASE m # l
    <3>1. BookedOK(m, bookings[m], line[m], lockRow)
      BY DEF ImportsInv
    <3>2. bookings'[m] = bookings[m] /\ line'[m] = line[m]
      BY <2>2, <1>5, <1>13
    <3>3. CASE bookings[m] = 0
      BY <3>2, <3>3 DEF BookedOK
    <3>4. CASE bookings[m] # 0
      <4>1. Holder(lockRow[line[m].lock]) = m /\ line[m].lock \in DOMAIN lockRow
        BY <3>1, <3>4 DEF BookedOK
      <4>2. line[m].lock # k
        BY <4>1, <1>2, <2>2
      <4> QED BY <3>1, <3>2, <4>1, <4>2, <1>8 DEF BookedOK
    <3> QED BY <3>3, <3>4
  <2> QED BY <2>1, <2>2
<1>15. /\ work' = [v \in Importers |-> work'[v]]
       /\ \A v \in Importers : WorkOK(work'[v], line')
  BY <1>7, WorkMoves, OffWorkOK
<1> QED BY <1>5, <1>8, <1>11, <1>12, <1>13, <1>14, <1>15 DEF ImportsInv, UsedOK

LEMMA NoUseKeeps == ASSUME ImportsInv, used' = used PROVE UsedOK(used')
BY DEF ImportsInv, UsedOK

LEMMA DecisionWork ==
    ASSUME ImportsInv, NEW w \in Importers, WorksAt(w, "decide")
    PROVE  work[w].of \in LineIds
BY DEF ImportsInv, WorkOK, WorksAt

LEMMA TakesKeeps ==
    ASSUME ImportsInv, NEW w \in Importers, NEW t \in Targets, NEW s,
           s \in {"matched", "linked"}, Takes(w, t, s)
    PROVE  ImportsInv'
<1> DEFINE l == work[w].of
           k == work[w].lock
<1>1. CASE Decidable(l, k) /\ header[l[1]].there /\ used[t] = {}
  <2>1. /\ WorksAt(w, "decide") /\ Decide(l, k, s) /\ Booked(l) /\ Works(w, OffWork)
        /\ used' = [used EXCEPT ![t] = @ \cup {l}]
    BY <1>1 DEF Takes
  <2>2. l \in LineIds
    BY <2>1, DecisionWork
  <2>3. UsedOK(used')
    <3>1. used' = [u \in Targets |-> used'[u]] /\ \A u \in Targets : u # t => used'[u] = used[u]
      BY <2>1 DEF ImportsInv
    <3>2. used'[t] = {l}
      BY <1>1, <2>1 DEF ImportsInv
    <3>3. \A u \in Targets : used[u] = {} \/ \E m \in LineIds : used[u] = {m}
      BY DEF ImportsInv
    <3> HIDE DEF l
    <3> QED BY <2>2, <3>1, <3>2, <3>3 DEF UsedOK
  <2>4. /\ line[l].status \in {"pending", "ignored"} /\ lockRow[k].imp = l[1]
        /\ line' = [line EXCEPT ![l].status = s]
        /\ lockRow' = [lockRow EXCEPT ![k].resolved = TRUE]
        /\ bookings' = [bookings EXCEPT ![l] = @ + 1]
    BY <1>1, <2>1 DEF Decidable, Decide, Booked
  <2>5. s \in {"matched", "linked", "created"}
    OBVIOUS
  <2> QED BY <2>1, <2>3, <2>4, <2>5, DecisionKeeps
<1>2. CASE ~(Decidable(l, k) /\ header[l[1]].there /\ used[t] = {})
  BY <1>2, EndsKeep DEF Takes
<1> QED BY <1>1, <1>2

LEMMA CreateAsKeeps ==
    ASSUME ImportsInv, NEW w \in Importers, CreateAs(w, "created")
    PROVE  ImportsInv'
<1> DEFINE l == work[w].of
           k == work[w].lock
<1>1. CASE Decidable(l, k) /\ header[l[1]].there
  <2>1. WorksAt(w, "decide") /\ Decide(l, k, "created") /\ Booked(l) /\ Works(w, OffWork) /\ used' = used
    BY <1>1 DEF CreateAs
  <2>2. UsedOK(used')
    BY <2>1, NoUseKeeps
  <2>3. /\ line[l].status \in {"pending", "ignored"} /\ lockRow[k].imp = l[1]
        /\ line' = [line EXCEPT ![l].status = "created"]
        /\ lockRow' = [lockRow EXCEPT ![k].resolved = TRUE]
        /\ bookings' = [bookings EXCEPT ![l] = @ + 1]
    BY <1>1, <2>1 DEF Decidable, Decide, Booked
  <2> QED BY <2>1, <2>2, <2>3, DecisionKeeps
<1>2. CASE ~(Decidable(l, k) /\ header[l[1]].there)
  BY <1>2, EndsKeep DEF CreateAs
<1> QED BY <1>1, <1>2

LEMMA IgnoreKeeps == ASSUME ImportsInv, NEW w \in Importers, Ignore(w) PROVE ImportsInv'
<1> DEFINE l == work[w].of
           k == work[w].lock
<1>1. CASE Decidable(l, k) /\ header[l[1]].there
  <2>1. WorksAt(w, "decide") /\ Decide(l, k, "ignored") /\ bookings' = bookings /\ Works(w, OffWork) /\ used' = used
    BY <1>1 DEF Ignore
  <2>2. UsedOK(used')
    BY <2>1, NoUseKeeps
  <2>3. /\ line[l].status \in {"pending", "ignored"} /\ lockRow[k].imp = l[1]
        /\ line' = [line EXCEPT ![l].status = "ignored"]
        /\ lockRow' = [lockRow EXCEPT ![k].resolved = TRUE]
    BY <1>1, <2>1 DEF Decidable, Decide
  <2> QED BY <2>1, <2>2, <2>3, DecisionKeeps
<1>2. CASE ~(Decidable(l, k) /\ header[l[1]].there)
  BY <1>2, EndsKeep DEF Ignore
<1> QED BY <1>1, <1>2

LEMMA ReopenLineKeeps == ASSUME ImportsInv, NEW w \in Importers, ReopenLine(w) PROVE ImportsInv'
<1> DEFINE l == work[w].of
           k == work[w].lock
           ok == line[l].there /\ line[l].status = "ignored" /\ lockRow[k].imp = l[1] /\ header[l[1]].there
<1>1. CASE ok
  <2>1. /\ WorksAt(w, "decide") /\ bookings' = bookings /\ Works(w, OffWork) /\ used' = used
        /\ line[l].status \in {"pending", "ignored"} /\ lockRow[k].imp = l[1]
        /\ line' = [line EXCEPT ![l].status = "pending"]
        /\ lockRow' = [lockRow EXCEPT ![k].resolved = FALSE]
    BY <1>1 DEF ReopenLine
  <2>2. UsedOK(used')
    BY <2>1, NoUseKeeps
  <2> QED BY <2>1, <2>2, DecisionKeeps
<1>2. CASE ~ok
  BY <1>2, EndsKeep DEF ReopenLine
<1> QED BY <1>1, <1>2

----------------------------------------------------------------------------
(* claim.                                                                  *)

ClaimLocks(i, chunk, now) ==
    lockRow' = [k \in DOMAIN lockRow \cup {p.key : p \in chunk} |->
                  IF \E p \in chunk : p.key = k
                  THEN NewLock(i, CHOOSE p \in chunk : p.key = k, now)
                  ELSE lockRow[k]]
ClaimLines(i, chunk, now) ==
    line' = [l \in LineIds |-> IF \E p \in chunk : l = <<i, p.n>>
                               THEN NewLine(CHOOSE p \in chunk : l = <<i, p.n>>, now)
                               ELSE line[l]]

(* A transaction that writes: the locks it takes are nobody's in the       *)
(* books, and the lines it writes over bear the same lock.                 *)
LEMMA ClaimWrites ==
    ASSUME ImportsInv, NEW w \in Importers, NEW x, x = work[w], x.at = "claim",
           NEW i, i = x.imp, NEW chunk, chunk \subseteq x.todo,
           \A p \in chunk : ~LineConflict(i, p),
           \A p \in chunk : Takeable(p.key, x.now),
           ClaimLocks(i, chunk, x.now), ClaimLines(i, chunk, x.now),
           Works(w, [x EXCEPT !.todo = @ \ chunk, !.got = TRUE]),
           UNCHANGED <<used, bookings>>
    PROVE  ImportsInv'
<1>1. ClaimOK(x, line)
  BY DEF ImportsInv, WorkOK
<1>2. i \in Imps /\ \A p \in chunk : /\ p.n \in DOMAIN Files[i] /\ KeyFits(i, p.n, p.key)
                                     /\ <<i, p.n>> \in LineIds
  BY <1>1, LinesAre DEF ClaimOK
<1>3. \A p, q \in chunk : p.n = q.n <=> p.key = q.key
  <2>1. \A p, q \in chunk : p.n = q.n => p.key = q.key
    BY <1>1 DEF ClaimOK
  <2>2. ASSUME NEW p \in chunk, NEW q \in chunk, p.key = q.key PROVE p.n = q.n
    <3>1. p.key \in KeysOf(i, p.n) /\ p.key \in KeysOf(i, q.n)
      BY <1>2, <2>2 DEF KeyFits
    <3> QED BY <1>2, <3>1, KeysDiffer
  <2> QED BY <2>1, <2>2
(* The lines written, and the others.                                      *)
<1>4. ASSUME NEW p \in chunk
      PROVE  /\ line'[<<i, p.n>>].there /\ line'[<<i, p.n>>].lock = p.key
             /\ DOMAIN line'[<<i, p.n>>] = {"there", "status", "expires", "lock"}
  <2> DEFINE c == CHOOSE q \in chunk : <<i, p.n>> = <<i, q.n>>
  <2>1. c \in chunk /\ <<i, p.n>> = <<i, c.n>>
    BY <1>4
  <2>2. c.key = p.key
    BY <2>1, <1>3, <1>4
  <2>3. line'[<<i, p.n>>] = NewLine(c, x.now)
    BY <1>2, <1>4 DEF ClaimLines
  <2> HIDE DEF c
  <2> QED BY <2>2, <2>3 DEF NewLine
<1>5. \A l \in LineIds : (\A p \in chunk : l # <<i, p.n>>) => line'[l] = line[l]
  BY DEF ClaimLines
<1>6. ASSUME NEW p \in chunk
      PROVE  /\ p.key \in DOMAIN lockRow'
             /\ Holder(lockRow'[p.key]) = <<i, p.n>>
             /\ lockRow'[p.key].tx = Txs[Files[i][p.n]]
             /\ lockRow'[p.key].resolved = FALSE
             /\ DOMAIN lockRow'[p.key] = {"imp", "n", "expires", "resolved", "tx"}
  <2> DEFINE c == CHOOSE q \in chunk : q.key = p.key
  <2>1. c \in chunk /\ c.key = p.key
    BY <1>6
  <2>2. c.n = p.n
    BY <2>1, <1>3, <1>6
  <2>3. lockRow'[p.key] = NewLock(i, c, x.now) /\ p.key \in DOMAIN lockRow'
    BY <1>6 DEF ClaimLocks
  <2> HIDE DEF c
  <2> QED BY <2>2, <2>3 DEF NewLock, Holder
<1>7. /\ DOMAIN lockRow' = DOMAIN lockRow \cup {p.key : p \in chunk}
      /\ \A k \in DOMAIN lockRow : (\A p \in chunk : p.key # k) => lockRow'[k] = lockRow[k]
      /\ lockRow' = [k \in DOMAIN lockRow' |-> lockRow'[k]]
      /\ line' = [l \in LineIds |-> line'[l]]
  BY DEF ClaimLocks, ClaimLines
<1>8. ASSUME NEW p \in chunk, line[<<i, p.n>>].there PROVE line[<<i, p.n>>].lock = p.key
  BY <1>8 DEF LineConflict
<1>9. Keeps(line, line')
  <2> SUFFICES ASSUME NEW l \in LineIds, line[l].there PROVE line'[l].there /\ line'[l].lock = line[l].lock
    BY DEF Keeps
  <2>1. CASE \E p \in chunk : l = <<i, p.n>>
    <3>1. PICK p \in chunk : l = <<i, p.n>>
      BY <2>1
    <3> QED BY <3>1, <1>4, <1>8
  <2>2. CASE \A p \in chunk : l # <<i, p.n>>
    BY <2>2, <1>5
  <2> QED BY <2>1, <2>2
<1>10. \A l \in LineIds : LineOK(l, line'[l]) /\ (line'[l].there => line'[l].lock \in DOMAIN lockRow')
  <2> SUFFICES ASSUME NEW l \in LineIds
               PROVE  LineOK(l, line'[l]) /\ (line'[l].there => line'[l].lock \in DOMAIN lockRow')
    OBVIOUS
  <2>1. CASE \E p \in chunk : l = <<i, p.n>>
    <3>1. PICK p \in chunk : l = <<i, p.n>>
      BY <2>1
    <3>2. KeyFits(l[1], l[2], p.key)
      BY <3>1, <1>2
    <3> QED BY <3>1, <3>2, <1>4, <1>6 DEF LineOK
  <2>2. CASE \A p \in chunk : l # <<i, p.n>>
    <3>1. LineOK(l, line[l]) /\ (line[l].there => line[l].lock \in DOMAIN lockRow)
      BY DEF ImportsInv
    <3> QED BY <3>1, <2>2, <1>5, <1>7
  <2> QED BY <2>1, <2>2
<1>11. \A k \in DOMAIN lockRow' : LockOK(k, lockRow'[k], line')
  <2> SUFFICES ASSUME NEW k \in DOMAIN lockRow' PROVE LockOK(k, lockRow'[k], line')
    OBVIOUS
  <2>1. CASE \E p \in chunk : p.key = k
    <3>1. PICK p \in chunk : p.key = k
      BY <2>1
    <3>2. TxOf(<<i, p.n>>) = Files[i][p.n]
      BY DEF TxOf
    <3>3. /\ Holder(lockRow'[k]) = <<i, p.n>> /\ lockRow'[k].tx = Txs[TxOf(<<i, p.n>>)] /\ lockRow'[k].resolved = FALSE
          /\ DOMAIN lockRow'[k] = {"imp", "n", "expires", "resolved", "tx"}
      BY <3>1, <3>2, <1>6
    <3>4. <<i, p.n>> \in LineIds /\ line'[<<i, p.n>>].there /\ line'[<<i, p.n>>].lock = k
      BY <3>1, <1>2, <1>4
    <3> QED BY <3>3, <3>4 DEF LockOK
  <2>2. CASE \A p \in chunk : p.key # k
    <3>1. k \in DOMAIN lockRow /\ lockRow'[k] = lockRow[k]
      BY <2>2, <1>7
    <3>2. LockOK(k, lockRow[k], line)
      BY <3>1 DEF ImportsInv
    <3> QED BY <3>1, <3>2, <1>9 DEF LockOK, Keeps
  <2> QED BY <2>1, <2>2
<1>12. \A l \in LineIds : BookedOK(l, bookings'[l], line'[l], lockRow')
  <2> SUFFICES ASSUME NEW l \in LineIds, bookings[l] # 0
               PROVE  BookedOK(l, bookings[l], line'[l], lockRow')
    BY DEF BookedOK
  <2>1. BookedOK(l, bookings[l], line[l], lockRow)
    BY DEF ImportsInv
  <2>2. line[l].there /\ line[l].lock \in DOMAIN lockRow /\ lockRow[line[l].lock].resolved
    BY <2>1 DEF BookedOK
  <2>3. \A p \in chunk : p.key # line[l].lock
    BY <2>2 DEF Takeable
  <2>4. \A p \in chunk : l # <<i, p.n>>
    BY <2>2, <2>3, <1>8
  <2>5. line'[l] = line[l] /\ lockRow'[line[l].lock] = lockRow[line[l].lock] /\ line[l].lock \in DOMAIN lockRow'
    BY <2>2, <2>3, <2>4, <1>5, <1>7
  <2> QED BY <2>1, <2>5 DEF BookedOK
<1>13. WorkOK([x EXCEPT !.todo = @ \ chunk, !.got = TRUE], line')
  <2> DEFINE y == [x EXCEPT !.todo = @ \ chunk, !.got = TRUE]
  <2>1. /\ DOMAIN y = DOMAIN x /\ y.at = "claim" /\ y.imp = i /\ y.todo = x.todo \ chunk
    BY <1>1 DEF ClaimOK
  <2>2. ASSUME NEW n \in DOMAIN Files[i]
        PROVE  (\E p \in x.todo \ chunk : p.n = n) \/ (\E l \in LineIds : line'[l].there /\ TxOf(l) = Files[i][n])
    <3>1. CASE \E p \in chunk : p.n = n
      <4>1. <<i, n>> \in LineIds /\ line'[<<i, n>>].there
        BY <3>1, <1>2, <1>4
      <4> QED BY <4>1 DEF TxOf
    <3>2. CASE \E l \in LineIds : line[l].there /\ TxOf(l) = Files[i][n]
      BY <3>2, <1>9 DEF Keeps
    <3> QED BY <3>1, <3>2, <1>1 DEF ClaimOK
  <2>3. ClaimOK(y, line')
    <3> HIDE DEF y
    <3> QED BY <1>1, <2>1, <2>2 DEF ClaimOK
  <2>4. WorkOK(y, line')
    <3> HIDE DEF y
    <3> QED BY <2>1, <2>3 DEF WorkOK
  <2> QED BY <2>4
<1>14. /\ work' = [v \in Importers |-> work'[v]]
       /\ \A v \in Importers : WorkOK(work'[v], line')
  BY <1>9, <1>13, WorkMoves
<1>15. bookings' = [l \in LineIds |-> bookings'[l]] /\ UsedOK(used')
  BY NoUseKeeps DEF ImportsInv
<1> QED BY <1>7, <1>10, <1>11, <1>12, <1>14, <1>15 DEF ImportsInv, UsedOK

(* A bank id and a hash are told apart, and each says what it is of.       *)
LEMMA KeysTell ==
    /\ \A i, n, k : k \in KeysOf(i, n) => k = HashKey(i, n) \/ k = FitKey(i, n)
    /\ \A i, n, j, m : FitKey(i, n) # HashKey(j, m)
    /\ \A i, n, j, m : HashKey(i, n) = HashKey(j, m) => Txs[Files[i][n]] = Txs[Files[j][m]]
    /\ \A i, n, j, m : FitKey(i, n) = FitKey(j, m) => Txs[Files[i][n]].fitid = Txs[Files[j][m]].fitid
<1>1. \A i, n, k : k \in KeysOf(i, n) => k = HashKey(i, n) \/ k = FitKey(i, n)
  BY DEF KeysOf, KeyOf
<1>2. \A i, n, j, m : FitKey(i, n) # HashKey(j, m)
  <2>1. \A i, n : FitKey(i, n)[1] = "F" /\ HashKey(i, n)[1] = "H"
    BY DEF FitKey, HashKey
  <2> QED BY <2>1
<1>3. \A i, n, j, m : HashKey(i, n) = HashKey(j, m) => Txs[Files[i][n]] = Txs[Files[j][m]]
  BY DEF HashKey
<1>4. \A i, n, j, m : FitKey(i, n) = FitKey(j, m) => Txs[Files[i][n]].fitid = Txs[Files[j][m]].fitid
  BY DEF FitKey
<1> QED BY <1>1, <1>2, <1>3, <1>4

(* What a refused transaction leaves out is a line of some import, and     *)
(* what it keys by its content shares its bank id with another.            *)
LEMMA KeptCovers ==
    ASSUME ImportsInv, NEW i \in Imps, NEW p, p.n \in DOMAIN Files[i], KeyFits(i, p.n, p.key),
           NEW now, ~Takeable(p.key, now)
    PROVE  \/ p.key[1] = "F" /\ lockRow[p.key].imp # i /\ ~SameTransaction(p.key, Files[i][p.n])
           \/ \E l \in LineIds : line[l].there /\ TxOf(l) = Files[i][p.n]
<1> DEFINE k == p.key
           h == Holder(lockRow[k])
<1>1. k \in DOMAIN lockRow
  BY DEF Takeable
<1>2. /\ h \in LineIds /\ line[h].there /\ line[h].lock = k /\ lockRow[k].tx = Txs[TxOf(h)]
      /\ h[1] = lockRow[k].imp
  BY <1>1 DEF ImportsInv, LockOK, Holder
<1>3. KeyFits(h[1], h[2], k)
  BY <1>2 DEF ImportsInv, LineOK
<1>4. h[1] \in Imps /\ h[2] \in DOMAIN Files[h[1]] /\ TxOf(h) = Files[h[1]][h[2]]
  BY <1>2, LinesAre DEF TxOf
<1>5. Files[i][p.n] \in DOMAIN Txs /\ TxOf(h) \in DOMAIN Txs
  BY <1>4, ImportsAssumption
<1>6. CASE lockRow[k].imp = i
  <2>1. k \in KeysOf(i, p.n) /\ k \in KeysOf(i, h[2]) /\ h[2] \in DOMAIN Files[i] /\ TxOf(h) = Files[i][h[2]]
    BY <1>2, <1>3, <1>4, <1>6 DEF KeyFits
  <2>2. h[2] = p.n
    <3> HIDE DEF k, h
    <3> QED BY <2>1, KeysDiffer
  <2> QED BY <1>2, <2>1, <2>2
<1>7. CASE k = HashKey(i, p.n)
  <2>1. k = HashKey(h[1], h[2])
    BY <1>3, <1>7, KeysTell DEF KeyFits
  <2>2. Txs[TxOf(h)] = Txs[Files[i][p.n]]
    BY <2>1, <1>4, <1>7, KeysTell
  <2>3. TxOf(h) = Files[i][p.n]
    BY <2>2, <1>5, ImportsAssumption
  <2> QED BY <1>2, <2>3
<1>8. CASE k # HashKey(i, p.n) /\ SameTransaction(k, Files[i][p.n])
  <2>1. k = FitKey(i, p.n)
    BY <1>8 DEF KeyFits, KeysOf, KeyOf
  <2>2. k = FitKey(h[1], h[2])
    BY <2>1, <1>3, KeysTell DEF KeyFits
  <2>3. Txs[TxOf(h)].fitid = Txs[Files[i][p.n]].fitid
    BY <2>1, <2>2, <1>4, KeysTell
  <2>4. Txs[TxOf(h)].date = Txs[Files[i][p.n]].date /\ Txs[TxOf(h)].amount = Txs[Files[i][p.n]].amount
    BY <1>8, <1>2 DEF SameTransaction
  <2>5. Txs[TxOf(h)] = Txs[Files[i][p.n]]
    <3> DEFINE t == TxOf(h)
               u == Files[i][p.n]
    <3>1. /\ Txs[t] = [fitid |-> Txs[t].fitid, date |-> Txs[t].date, amount |-> Txs[t].amount]
          /\ Txs[u] = [fitid |-> Txs[u].fitid, date |-> Txs[u].date, amount |-> Txs[u].amount]
      BY <1>5, ImportsAssumption
    <3> QED BY <2>3, <2>4, <3>1
  <2>6. TxOf(h) = Files[i][p.n]
    BY <2>5, <1>5, ImportsAssumption
  <2> QED BY <1>2, <2>6
<1>9. CASE k # HashKey(i, p.n) /\ ~SameTransaction(k, Files[i][p.n]) /\ lockRow[k].imp # i
  <2>1. k = FitKey(i, p.n)
    BY <1>9 DEF KeyFits, KeysOf, KeyOf
  <2>2. k[1] = "F"
    BY <2>1 DEF FitKey
  <2> QED BY <2>2, <1>9
<1> QED BY <1>6, <1>7, <1>8, <1>9

(* A transaction with a key of its own is never keyed by its content       *)
(* instead.                                                                *)
LEMMA OwnKeyStays ==
    ASSUME ImportsInv, NEW i \in Imps, NEW p, p.n \in DOMAIN Files[i], KeyFits(i, p.n, p.key),
           NEW now, ~Takeable(p.key, now), p.key[1] = "F", ~SameTransaction(p.key, Files[i][p.n]),
           KeyedAlike(Files[i][p.n])
    PROVE  FALSE
<1> DEFINE k == p.key
           h == Holder(lockRow[k])
<1>1. k \in DOMAIN lockRow
  BY DEF Takeable
<1>2. h \in LineIds /\ line[h].there /\ line[h].lock = k /\ lockRow[k].tx = Txs[TxOf(h)]
  BY <1>1 DEF ImportsInv, LockOK
<1>3. KeyFits(h[1], h[2], k)
  BY <1>2 DEF ImportsInv, LineOK
<1>4. k # HashKey(h[1], h[2])
  BY DEF HashKey
<1>5. k = KeyOf(h[1], h[2]) /\ k = KeyOf(i, p.n)
  BY <1>3, <1>4 DEF KeyFits, KeysOf
<1>6. <<i, p.n>> \in LineIds /\ TxOf(<<i, p.n>>) = Files[i][p.n]
  BY LinesAre DEF TxOf
<1>7. TxOf(h) = Files[i][p.n]
  <2> DEFINE l == <<i, p.n>>
  <2>1. l[1] = i /\ l[2] = p.n
    OBVIOUS
  <2>2. KeyOf(h[1], h[2]) = KeyOf(l[1], l[2])
    BY <1>5, <2>1
  <2>3. l \in LineIds /\ TxOf(l) = Files[i][p.n]
    BY <1>6
  <2> HIDE DEF l, h
  <2> QED BY <1>2, <2>2, <2>3 DEF KeyedAlike
<1> QED BY <1>2, <1>7 DEF SameTransaction

LEMMA ClaimRetries ==
    ASSUME ImportsInv, NEW w \in Importers, NEW x, x = work[w], x.at = "claim",
           NEW i, i = x.imp, NEW chunk, chunk \subseteq x.todo, NEW b,
           Works(w, [x EXCEPT !.todo = (@ \ chunk) \cup Kept(i, chunk, x.now), !.got = b]),
           UNCHANGED <<line, lockRow, used, bookings>>
    PROVE  ImportsInv'
<1> DEFINE y == [x EXCEPT !.todo = (@ \ chunk) \cup Kept(i, chunk, x.now), !.got = b]
           Rekeyed(p) == /\ ~Takeable(p.key, x.now) /\ p.key[1] = "F"
                         /\ lockRow[p.key].imp # i /\ ~SameTransaction(p.key, Files[i][p.n])
<1>1. ClaimOK(x, line)
  BY DEF ImportsInv, WorkOK
<1>2. i \in Imps /\ \A p \in x.todo : /\ p = [n |-> p.n, key |-> p.key] /\ p.n \in DOMAIN Files[i]
                                      /\ KeyFits(i, p.n, p.key)
  BY <1>1 DEF ClaimOK
<1>3. DOMAIN y = DOMAIN x /\ y.at = "claim" /\ y.imp = i /\ y.todo = (x.todo \ chunk) \cup Kept(i, chunk, x.now)
  BY <1>1 DEF ClaimOK
<1>4. \A p \in Kept(i, chunk, x.now) :
        \/ p \in chunk
        \/ \E q \in chunk : Rekeyed(q) /\ p = [n |-> q.n, key |-> HashKey(i, q.n)]
  BY DEF Kept
<1>5. \A q \in chunk : Rekeyed(q) => [n |-> q.n, key |-> HashKey(i, q.n)] \in Kept(i, chunk, x.now)
  BY DEF Kept
<1>6. \A q \in chunk : Takeable(q.key, x.now) => q \in Kept(i, chunk, x.now)
  BY DEF Kept
<1>7. \A p \in y.todo : \E q \in x.todo :
        \/ p = q /\ ~Rekeyed(q)
        \/ p = q /\ q \notin chunk
        \/ q \in chunk /\ Rekeyed(q) /\ p = [n |-> q.n, key |-> HashKey(i, q.n)]
  <2> SUFFICES ASSUME NEW p \in y.todo
               PROVE  \E q \in x.todo : \/ p = q /\ ~Rekeyed(q)
                                        \/ p = q /\ q \notin chunk
                                        \/ q \in chunk /\ Rekeyed(q) /\ p = [n |-> q.n, key |-> HashKey(i, q.n)]
    OBVIOUS
  <2>1. CASE p \in x.todo \ chunk
    BY <2>1
  <2>2. CASE p \in Kept(i, chunk, x.now)
    BY <2>2 DEF Kept
  <2> HIDE DEF y
  <2> QED BY <2>1, <2>2, <1>3
<1>8. ASSUME NEW q \in chunk, Rekeyed(q) PROVE KeyFits(i, q.n, HashKey(i, q.n))
  <2>1. ~KeyedAlike(Files[i][q.n])
    BY <1>2, <1>8, OwnKeyStays
  <2> QED BY <2>1 DEF KeyFits, KeysOf
<1>9. \A p \in y.todo : /\ p = [n |-> p.n, key |-> p.key] /\ p.n \in DOMAIN Files[i]
                        /\ KeyFits(i, p.n, p.key)
  <2> SUFFICES ASSUME NEW p \in y.todo
               PROVE  p = [n |-> p.n, key |-> p.key] /\ p.n \in DOMAIN Files[i] /\ KeyFits(i, p.n, p.key)
    OBVIOUS
  <2>1. PICK q \in x.todo : \/ p = q
                            \/ q \in chunk /\ Rekeyed(q) /\ p = [n |-> q.n, key |-> HashKey(i, q.n)]
    BY <1>7
  <2>2. CASE p = q
    BY <2>2, <1>2
  <2>3. CASE q \in chunk /\ Rekeyed(q) /\ p = [n |-> q.n, key |-> HashKey(i, q.n)]
    BY <2>3, <1>2, <1>8
  <2> QED BY <2>1, <2>2, <2>3
<1>10. \A p, q \in y.todo : p.n = q.n => p.key = q.key
  <2> SUFFICES ASSUME NEW p \in y.todo, NEW q \in y.todo, p.n = q.n PROVE p.key = q.key
    OBVIOUS
  <2>1. PICK pp \in x.todo : \/ p = pp /\ ~Rekeyed(pp)
                             \/ p = pp /\ pp \notin chunk
                             \/ pp \in chunk /\ Rekeyed(pp) /\ p = [n |-> pp.n, key |-> HashKey(i, pp.n)]
    BY <1>7
  <2>2. PICK qq \in x.todo : \/ q = qq /\ ~Rekeyed(qq)
                             \/ q = qq /\ qq \notin chunk
                             \/ qq \in chunk /\ Rekeyed(qq) /\ q = [n |-> qq.n, key |-> HashKey(i, qq.n)]
    BY <1>7
  <2>3. p.n = pp.n /\ q.n = qq.n
    <3>1. \A a, k : [n |-> a, key |-> k].n = a
      OBVIOUS
    <3> HIDE DEF Rekeyed, y
    <3> QED BY <2>1, <2>2, <3>1
  <2>4. pp.key = qq.key
    <3> HIDE DEF Rekeyed, y
    <3>1. pp.n = qq.n
      BY <2>3
    <3>2. \A a, c \in x.todo : a.n = c.n => a.key = c.key
      BY <1>1 DEF ClaimOK
    <3> QED BY <3>1, <3>2
  <2>5. pp = qq
    <3>1. pp = [n |-> pp.n, key |-> pp.key] /\ qq = [n |-> qq.n, key |-> qq.key]
      BY <1>2
    <3> QED BY <2>3, <2>4, <3>1
  <2> HIDE DEF Rekeyed
  <2> QED BY <2>1, <2>2, <2>5
<1>11. ASSUME NEW n \in DOMAIN Files[i]
       PROVE  (\E p \in y.todo : p.n = n) \/ (\E l \in LineIds : line[l].there /\ TxOf(l) = Files[i][n])
  <2>1. CASE \E q \in x.todo : q.n = n
    <3>1. PICK q \in x.todo : q.n = n
      BY <2>1
    <3>2. CASE q \notin chunk \/ Takeable(q.key, x.now)
      <4>1. q \in y.todo
        BY <3>2, <1>3, <1>6
      <4> HIDE DEF y
      <4> QED BY <4>1, <3>1
    <3>3. CASE q \in chunk /\ Rekeyed(q)
      <4> DEFINE p == [n |-> q.n, key |-> HashKey(i, q.n)]
      <4>1. p \in y.todo /\ p.n = n
        BY <3>1, <3>3, <1>3, <1>5
      <4> HIDE DEF y, p
      <4> QED BY <4>1
    <3>4. CASE ~Takeable(q.key, x.now) /\ ~Rekeyed(q)
      BY <3>1, <3>4, <1>2, KeptCovers
    <3> QED BY <3>2, <3>3, <3>4
  <2>2. CASE \E l \in LineIds : line[l].there /\ TxOf(l) = Files[i][n]
    BY <2>2
  <2> QED BY <2>1, <2>2, <1>1 DEF ClaimOK
<1>12. WorkOK(y, line)
  <2> HIDE DEF y
  <2>1. ClaimOK(y, line)
    <3>1. y.imp = i /\ DOMAIN y = {"at", "imp", "todo", "got", "now"}
      BY <1>1, <1>3 DEF ClaimOK
    <3> QED BY <3>1, <1>2, <1>9, <1>10, <1>11 DEF ClaimOK
  <2> QED BY <2>1, <1>3 DEF WorkOK
<1>13. Works(w, y)
  OBVIOUS
<1> HIDE DEF y
<1> QED BY <1>12, <1>13, ImportsAside

LEMMA ClaimKeeps == ASSUME ImportsInv, NEW w \in Importers, Claim(w) PROVE ImportsInv'
<1> DEFINE x == work[w]
           i == x.imp
           chunk == InChunk(x)
<1>1. x.at = "claim" /\ chunk \subseteq x.todo /\ UNCHANGED <<used, bookings>>
  BY DEF Claim, WorksAt, InChunk
<1>2. CASE (\E p \in chunk : LineConflict(i, p)) \/ ~header[i].there
  <2>1. Works(w, OffWork) /\ UNCHANGED <<line, lockRow>>
    BY <1>2 DEF Claim
  <2> QED BY <2>1, <1>1, OffWorkOK, ImportsAside
<1>3. CASE /\ \A p \in chunk : ~LineConflict(i, p)
           /\ header[i].there
           /\ \A p \in chunk : Takeable(p.key, x.now)
  <2>1. /\ ClaimLocks(i, chunk, x.now) /\ ClaimLines(i, chunk, x.now)
        /\ Works(w, [x EXCEPT !.todo = @ \ chunk, !.got = TRUE])
    BY <1>3 DEF Claim, ClaimLocks, ClaimLines
  <2> HIDE DEF x, i, chunk
  <2>2. x = work[w] /\ i = x.imp
    BY DEF x, i
  <2> QED BY <2>1, <2>2, <1>1, <1>3, ClaimWrites
<1>4. CASE /\ \A p \in chunk : ~LineConflict(i, p)
           /\ header[i].there
           /\ ~(\A p \in chunk : Takeable(p.key, x.now))
  <2> DEFINE b == x.got \/ Mine(i, chunk, x.now) # {}
  <2>1. /\ Works(w, [x EXCEPT !.todo = (@ \ chunk) \cup Kept(i, chunk, x.now), !.got = b])
        /\ UNCHANGED <<line, lockRow>>
    BY <1>4 DEF Claim
  <2>2. x = work[w] /\ i = x.imp
    OBVIOUS
  <2> HIDE DEF x, i, chunk, b
  <2> QED BY <2>1, <2>2, <1>1, ClaimRetries
<1> QED BY <1>2, <1>3, <1>4

LEMMA ImportsAsideOfWork ==
    ASSUME ImportsInv, Days \/ UNCHANGED impVars PROVE ImportsInv'
<1>1. UNCHANGED <<line, lockRow, used, bookings, work>>
  BY DEF Days, impVars
<1> QED BY <1>1 DEF ImportsInv

LEMMA ImportsStep == ASSUME ImportsInv, [ImportsNext]_impVars PROVE ImportsInv'
<1>1. CASE Days \/ UNCHANGED impVars
  BY <1>1, ImportsAsideOfWork
<1>2. ASSUME NEW w \in Importers, Claim(w) PROVE ImportsInv'
  BY <1>2, ClaimKeeps
<1>3. ASSUME NEW w \in Importers, Stored(w) \/ UploadDies(w) PROVE ImportsInv'
  BY <1>3, EndsKeep
<1>4. ASSUME NEW w \in Importers, CreateFromLine(w) \/ CreateFromCardLine(w) PROVE ImportsInv'
  BY <1>4, CreateAsKeeps DEF CreateFromLine, CreateFromCardLine
<1>5. ASSUME NEW w \in Importers, Ignore(w) PROVE ImportsInv'
  BY <1>5, IgnoreKeeps
<1>6. ASSUME NEW w \in Importers, ReopenLine(w) PROVE ImportsInv'
  BY <1>6, ReopenLineKeeps
<1>7. ASSUME NEW w \in Importers, NEW i \in Imps, Upload(w, i) PROVE ImportsInv'
  BY <1>7, UploadKeeps
<1>8. ASSUME NEW w \in Importers, NEW l \in LineIds, LoadLine(w, l) PROVE ImportsInv'
  BY <1>8, LoadLineKeeps
<1>9. ASSUME NEW w \in Importers, NEW t \in Targets, Match(w, t) \/ LinkLine(w, t) \/ ConfirmPair(w, t)
      PROVE  ImportsInv'
  <2>1. Takes(w, t, "matched") \/ Takes(w, t, "linked")
    BY <1>9 DEF Match, LinkLine, ConfirmPair
  <2> QED BY <2>1, TakesKeeps
<1> QED BY <1>1, <1>2, <1>3, <1>4, <1>5, <1>6, <1>7, <1>8, <1>9 DEF ImportsNext

(* A set of which any two elements are one has at most one.                *)
LEMMA AtMostOneLine ==
    ASSUME NEW S, \A a, b \in S : a = b PROVE Cardinality(S) <= 1
<1>1. CASE S = {}
  BY <1>1, FS_EmptySet
<1>2. CASE S # {}
  <2>1. PICK a : S = {a}
    BY <1>2
  <2> QED BY <2>1, FS_Singleton
<1> QED BY <1>1, <1>2

LEMMA ImportsBookOnce == ASSUME ImportsInv PROVE BookedOnce
<1>1. \A l \in LineIds : bookings[l] \in {0, 1}
  BY DEF ImportsInv, BookedOK
<1>2. ASSUME NEW t \in DOMAIN Txs, KeyedAlike(t) PROVE Cardinality(BookedLines(t)) <= 1
  <2>1. ASSUME NEW l \in BookedLines(t), NEW m \in BookedLines(t) PROVE l = m
    <3>1. /\ l \in LineIds /\ TxOf(l) = t /\ bookings[l] # 0
          /\ m \in LineIds /\ TxOf(m) = t /\ bookings[m] # 0
      BY <2>1 DEF BookedLines
    <3>2. /\ line[l].there /\ Holder(lockRow[line[l].lock]) = l
          /\ line[m].there /\ Holder(lockRow[line[m].lock]) = m
      BY <3>1 DEF ImportsInv, BookedOK
    <3>3. line[l].lock = KeyOf(l[1], l[2]) /\ line[m].lock = KeyOf(m[1], m[2])
      BY <1>2, <3>1, <3>2 DEF ImportsInv, LineOK, KeyFits, TxOf
    <3>4. KeyOf(l[1], l[2]) = KeyOf(m[1], m[2])
      BY <1>2, <3>1 DEF KeyedAlike
    <3> QED BY <3>2, <3>3, <3>4
  <2> QED BY <2>1, AtMostOneLine
<1>3. ASSUME NEW t \in Targets PROVE Cardinality(used[t]) <= 1
  <2>1. used[t] = {} \/ \E l \in LineIds : used[t] = {l}
    BY DEF ImportsInv
  <2>2. \A a, b \in used[t] : a = b
    BY <2>1
  <2> QED BY <2>2, AtMostOneLine
<1> QED BY <1>1, <1>2, <1>3 DEF BookedOnce

LEMMA ImportsDropNone == ASSUME ImportsInv PROVE NoneDropped
<1> SUFFICES ASSUME NEW w \in Importers, WorksAt(w, "claim"), work[w].todo = {},
                    NEW n \in DOMAIN Files[work[w].imp]
             PROVE  \E l \in LineIds : line[l].there /\ TxOf(l) = Files[work[w].imp][n]
  BY DEF NoneDropped
<1>1. ClaimOK(work[w], line)
  BY DEF ImportsInv, WorkOK, WorksAt
<1> QED BY <1>1 DEF ClaimOK

(* A bank transaction with a key of its own is booked at most once, a line *)
(* at most once, and a bill or purchase takes at most one line             *)
(* (repositories/imports.go claim, decide, Match, Create, Link, Ignore,    *)
(* Reopen; card_imports.go ConfirmPair, CreateFromCardLine), for any files *)
(* uploaded, retried and decided by any number of requests at once.        *)
THEOREM TransactionsAreBookedOnce == ImportsSpec => []BookedOnce
<1>1. ImportsInit => ImportsInv
  BY ImportsInitially
<1>2. ImportsInv /\ [ImportsNext]_impVars => ImportsInv'
  BY ImportsStep
<1>3. ImportsInv => BookedOnce
  BY ImportsBookOnce
<1> QED BY <1>1, <1>2, <1>3, PTL DEF ImportsSpec

(* A file read to its end leaves no transaction out: claim drops as a      *)
(* duplicate only what is a line already, since the locks it meets were    *)
(* claimed for the same transaction or are its own.                        *)
THEOREM NoTransactionIsDropped == ImportsSpec => []NoneDropped
<1>1. ImportsInit => ImportsInv
  BY ImportsInitially
<1>2. ImportsInv /\ [ImportsNext]_impVars => ImportsInv'
  BY ImportsStep
<1>3. ImportsInv => NoneDropped
  BY ImportsDropNone
<1> QED BY <1>1, <1>2, <1>3, PTL DEF ImportsSpec

----------------------------------------------------------------------------
(* Statement.  A line listed on a day the backfill passed is waited for or *)
(* has a lock, and nothing takes a lock away; so the cursor of every copy  *)
(* of the connection, however old, has no hole above it.                   *)

RowSet   == [there : BOOLEAN, live : BOOLEAN, times : Nat, since : Nat, from : Nat, first : Nat, done : BOOLEAN]
Cargo    == [of : Lines, part : Parts, by : {"id", "content"}]
Idles    == [at : {"idle"}]
Busies   == [at : {"read", "lines", "lock", "post", "linked", "opening", "balance"}, row : RowSet, fresh : BOOLEAN,
             today : Nat, todo : SUBSET Lines, window : {"none", "recent", "backfill"}, from : Nat, line : {NoLine} \cup Cargo]

StTypeOK ==
    /\ bankDay \in Nat /\ listing \in Listings /\ opened \in SUBSET Nat
    /\ conn \in RowSet
    /\ charge \in [Charges -> {"pending", "succeeded", "posted"}]
    /\ entry \in [Lines \X Parts -> {"none", "pending", "classified", "discarded", "twice"}]
    /\ sync \in [Syncs -> Idles \cup Busies]

Accounted(l) == l \in waited \/ LockKey(l, Whole) \in DOMAIN locks \/ ContentKey(l, Whole) \in DOMAIN locks

(* What every copy of the row says, fresh or not.                          *)
ConnOK(r) ==
    /\ r.live = conn.live
    /\ r.from <= r.since /\ r.since <= bankDay
    /\ r.live => \A l \in listing : l.day \in r.from..(r.since - 1) => Accounted(l)

Midway(s) == s.at \in {"lines", "lock", "post", "linked"}

(* What a sync knows of the window it is in.                               *)
WindowOK(s) ==
    /\ s.todo \subseteq listing
    /\ s.window # "none"
    /\ s.window = "backfill" => s.from <= s.row.from
    /\ s.window = "backfill" /\ s.row.live =>
         \A l \in listing : l.day \in s.from..(s.row.from - 1) => Accounted(l) \/ l \in s.todo

CargoOK(s) ==
    s.at \in {"lock", "post", "linked"} => s.line \in Cargo /\ s.line.of \in s.todo

SyncOK(s) == ConnOK(s.row) /\ (Midway(s) => WindowOK(s)) /\ CargoOK(s)

StInv ==
    /\ StTypeOK
    /\ ConnOK(conn)
    /\ \A p \in Syncs : sync[p].at # "idle" => SyncOK(sync[p])

(* What no step takes back.                                                *)
StKept ==
    /\ listing' = listing /\ conn'.live = conn.live /\ bankDay' \in Nat /\ bankDay' >= bankDay
    /\ waited \subseteq waited' /\ DOMAIN locks \subseteq DOMAIN locks'

LEMMA RowFrame ==
    ASSUME StTypeOK, StKept
    PROVE  /\ \A l : Accounted(l) => Accounted(l)'
           /\ \A r \in RowSet : ConnOK(r) => ConnOK(r)'
<1>1. \A l : Accounted(l) => Accounted(l)'
    BY DEF Accounted, StKept, LockKey, ContentKey, Content
<1>2. \A r \in RowSet : ConnOK(r) => ConnOK(r)'
    BY <1>1 DEF ConnOK, StKept, StTypeOK, RowSet
<1> QED BY <1>1, <1>2

(* A sync that does not move, or whose copy only became stale, still knows *)
(* what it knew.                                                           *)
Same(s, t) ==
    /\ t.at = s.at /\ t.row = s.row /\ t.todo = s.todo /\ t.window = s.window /\ t.from = s.from /\ t.line = s.line
    /\ t.today = s.today

LEMMA SyncFrame ==
    ASSUME StTypeOK, StKept, NEW s \in Busies, NEW t \in Busies, SyncOK(s), Same(s, t)
    PROVE  SyncOK(t)'
<1>1. s.row \in RowSet
    BY DEF Busies
<1>2. ConnOK(t.row)'
    BY RowFrame, <1>1 DEF Same, SyncOK
<1>3. Midway(t) => WindowOK(t)'
    <2> SUFFICES ASSUME Midway(t) PROVE WindowOK(t)'
        OBVIOUS
    <2>1. WindowOK(s)
        BY DEF SyncOK, Same, Midway
    <2>2. listing' = listing
        BY DEF StKept
    <2> QED BY <2>1, <2>2, RowFrame DEF WindowOK, Same
<1>4. CargoOK(t)'
    BY DEF SyncOK, CargoOK, Same
<1> QED BY <1>2, <1>3, <1>4 DEF SyncOK, Midway

LEMMA MoveOne ==
    ASSUME StInv, StKept, StTypeOK', NEW p \in Syncs, conn' = conn,
           \A q \in Syncs \ {p} : sync'[q] = sync[q],
           sync'[p].at # "idle" => SyncOK(sync[p])'
    PROVE  StInv'
<1>1. ConnOK(conn)'
    BY RowFrame DEF StInv, StTypeOK
<1>2. ASSUME NEW q \in Syncs, sync'[q].at # "idle" PROVE SyncOK(sync[q])'
    <2>1. CASE q = p
        BY <2>1, <1>2
    <2>2. CASE q # p
        <3>1. sync'[q] = sync[q] /\ sync[q] \in Busies /\ SyncOK(sync[q])
            BY <2>2, <1>2 DEF StInv, StTypeOK, Idles, Busies
        <3>2. Same(sync[q], sync'[q])
            BY <3>1 DEF Same
        <3> QED BY <3>1, <3>2, SyncFrame DEF StInv
    <2> QED BY <2>1, <2>2
<1> QED BY <1>1, <1>2 DEF StInv

Aged(q) == sync'[q] = sync[q] \/ sync'[q].at = "idle" \/ (sync[q].at # "idle" /\ sync'[q] = [sync[q] EXCEPT !.fresh = FALSE])

LEMMA MoveConn ==
    ASSUME StInv, StKept, StTypeOK', ConnOK(conn)', \A q \in Syncs : Aged(q)
    PROVE  StInv'
<1>1. ASSUME NEW q \in Syncs, sync'[q].at # "idle" PROVE SyncOK(sync[q])'
    <2>0. sync'[q] \in Busies
        BY <1>1 DEF StTypeOK, Idles, Busies
    <2>1. sync[q] \in Busies /\ SyncOK(sync[q]) /\ Same(sync[q], sync'[q])
        <3>1. CASE sync'[q] = sync[q]
            BY <3>1, <1>1, <2>0 DEF StInv, Same
        <3>2. CASE sync[q].at # "idle" /\ sync'[q] = [sync[q] EXCEPT !.fresh = FALSE]
            <4>1. sync[q] \in Busies
                BY <3>2 DEF StInv, StTypeOK, Idles, Busies
            <4> QED BY <4>1, <3>2 DEF StInv, Same, Busies
        <3> QED BY <3>1, <3>2, <1>1 DEF Aged
    <2> QED BY <2>0, <2>1, SyncFrame DEF StInv
<1> QED BY <1>1 DEF StInv

LEMMA StInvInit == StatementInit => StInv
<1> SUFFICES ASSUME StatementInit PROVE StInv
    OBVIOUS
<1> USE StatementAssumption
<1>1. PICK live \in BOOLEAN : conn = NewConn(live, 1, ConnectDay)
    BY DEF StatementInit
<1>2. conn \in RowSet /\ conn.from = ConnectDay /\ conn.since = ConnectDay
    <2>1. opened = {} /\ Day(ConnectDay - BackfillDays) \in Nat
        BY DEF StatementInit, Day
    <2> QED BY <1>1, <2>1 DEF NewConn, RowSet
<1>3. StTypeOK
    <2>1. sync \in [Syncs -> Idles \cup Busies]
        BY DEF StatementInit, Clear, Idles
    <2>2. charge \in [Charges -> {"pending", "succeeded", "posted"}]
        BY DEF StatementInit
    <2>3. entry \in [Lines \X Parts -> {"none", "pending", "classified", "discarded", "twice"}]
        BY DEF StatementInit
    <2> QED BY <1>2, <2>1, <2>2, <2>3 DEF StatementInit, StTypeOK
<1>4. ConnOK(conn)
    BY <1>2, <1>3 DEF ConnOK, StatementInit, StTypeOK
<1>5. \A p \in Syncs : sync[p].at = "idle"
    BY DEF StatementInit, Clear
<1> QED BY <1>3, <1>4, <1>5 DEF StInv

(* The windows of a sync.                                                  *)
LEMMA LinesType ==
    ASSUME StTypeOK
    PROVE  /\ listing \subseteq Lines
           /\ \A l \in listing : l.day \in Nat /\ l.amount \in Nat /\ l.no \in Nat
BY StatementAssumption DEF StTypeOK, Lines

LEMMA RecentOK ==
    ASSUME StTypeOK, NEW s \in Busies, ConnOK(s.row)
    PROVE  Recent(s) \in Busies /\ SyncOK(Recent(s))
<1> DEFINE t == Recent(s)
<1> DEFINE W == Within(Later(Day(s.today - IncrementalDays), s.row.first), s.today)
<1>1. W \subseteq listing /\ W \subseteq Lines
    BY LinesType DEF Within, Listed
<1>2. t = [s EXCEPT !.at = "lines", !.window = "recent", !.todo = W]
    BY DEF Recent
<1> HIDE DEF t, W
<1>3. t \in Busies /\ t.row = s.row /\ t.at = "lines" /\ t.window = "recent" /\ t.todo = W
    BY <1>1, <1>2 DEF Busies
<1> QED BY <1>1, <1>3 DEF SyncOK, WindowOK, CargoOK, t

LEMMA FinishOK ==
    ASSUME StTypeOK, NEW s \in Busies, NEW refused \in BOOLEAN, ConnOK(s.row)
    PROVE  FinishBackfill(s, refused) \in Busies /\ SyncOK(FinishBackfill(s, refused))
<1>1. CASE refused \/ s.row.from <= s.row.first
    <2> DEFINE t == [s EXCEPT !.row.done = TRUE, !.row.first = s.row.from, !.at = "opening"]
    <2>1. FinishBackfill(s, refused) = t
        BY <1>1 DEF FinishBackfill
    <2>2. t \in Busies /\ t.at = "opening" /\ t.row.from = s.row.from /\ t.row.since = s.row.since /\ t.row.live = s.row.live
        BY DEF Busies, RowSet
    <2> HIDE DEF t
    <2>3. ConnOK(t.row)
        BY <2>2 DEF ConnOK
    <2> QED BY <2>1, <2>2, <2>3 DEF SyncOK, Midway, CargoOK
<1>2. CASE ~(refused \/ s.row.from <= s.row.first)
    BY <1>2, RecentOK DEF FinishBackfill
<1> QED BY <1>1, <1>2

LEMMA BackfillOK ==
    ASSUME StTypeOK, NEW s \in Busies, ConnOK(s.row)
    PROVE  Backfill(s) \in Busies /\ SyncOK(Backfill(s))
<1> USE StatementAssumption
<1> DEFINE from == Later(Day(s.row.from - WindowDays), s.row.first)
<1> DEFINE W == Within(from, s.row.from - 1)
<1> DEFINE t == [s EXCEPT !.at = "lines", !.window = "backfill", !.from = from, !.todo = W]
<1>0. s.row \in RowSet
    BY DEF Busies
<1>1. from \in Nat
    BY <1>0 DEF RowSet, Later, Day
<1>2. CASE from < s.row.from
    <2>1. Backfill(s) = t
        BY <1>2 DEF Backfill
    <2>2. W \subseteq listing /\ W \subseteq Lines
        BY LinesType DEF Within, Listed
    <2>3. \A l \in listing : l.day \in from..(s.row.from - 1) => l \in W
        <3> SUFFICES ASSUME NEW l \in listing, l.day \in from..(s.row.from - 1) PROVE l \in W
            OBVIOUS
        <3>1. l.day <= bankDay
            BY <1>0, LinesType DEF ConnOK, RowSet, StTypeOK
        <3> QED BY <3>1, LinesType DEF Within, Listed
    <2> HIDE DEF from, W
    <2>4. t \in Busies /\ t.at = "lines" /\ t.window = "backfill" /\ t.from = from /\ t.todo = W /\ t.row = s.row
        BY <1>1, <2>2 DEF Busies
    <2> HIDE DEF t
    <2>5. WindowOK(t)
        <3>1. from <= s.row.from
            BY <1>0, <1>1, <1>2 DEF RowSet
        <3> QED BY <3>1, <2>2, <2>3, <2>4 DEF WindowOK
    <2> QED BY <2>1, <2>4, <2>5 DEF SyncOK, CargoOK
<1>3. CASE ~(from < s.row.from)
    BY <1>3, FinishOK DEF Backfill
<1> QED BY <1>2, <1>3

LEMMA BusyType ==
    ASSUME StTypeOK, NEW q \in Syncs, sync[q].at # "idle"
    PROVE  sync[q] \in Busies
BY DEF StTypeOK, Idles, Busies

LEMMA StaleType ==
    ASSUME NEW s \in Busies
    PROVE  [s EXCEPT !.fresh = FALSE] \in Busies
BY DEF Busies

(* One lemma per group of actions.                                         *)
LEMMA StWorld ==
    ASSUME StInv, NextDay \/ (\E l \in Lines : Composes(l)) \/ (\E c \in Charges : SettleCharge(c))
    PROVE  StInv'
<1>1. sync' = sync /\ conn' = conn /\ StKept
    BY DEF NextDay, Composes, SettleCharge, StInv, StTypeOK, StKept
<1>2. StTypeOK'
    <2>1. charge' \in [Charges -> {"pending", "succeeded", "posted"}]
        BY DEF NextDay, Composes, SettleCharge, StInv, StTypeOK
    <2>2. bankDay' \in Nat
        BY DEF NextDay, Composes, SettleCharge, StInv, StTypeOK
    <2> QED BY <2>1, <2>2 DEF NextDay, Composes, SettleCharge, StInv, StTypeOK
<1>3. ConnOK(conn)'
    BY <1>1, RowFrame DEF StInv, StTypeOK
<1>4. \A q \in Syncs : Aged(q)
    BY <1>1 DEF Aged
<1> QED BY <1>1, <1>2, <1>3, <1>4, MoveConn

LEMMA StPeople ==
    ASSUME StInv, \E l \in Lines : DiscardBankLine(l) \/ \E part \in Parts : Classify(<<l, part>>)
    PROVE  StInv'
<1>0. PICK l \in Lines : DiscardBankLine(l) \/ \E part \in Parts : Classify(<<l, part>>)
    OBVIOUS
<1>1. /\ UNCHANGED <<bankDay, listing, conn, charge, locks, opened, sync, waited>>
      /\ entry' \in [Lines \X Parts -> {"none", "pending", "classified", "discarded", "twice"}]
    <2>1. CASE DiscardBankLine(l)
        BY <2>1 DEF DiscardBankLine, StInv, StTypeOK
    <2>2. ASSUME NEW part \in Parts, Classify(<<l, part>>)
          PROVE  /\ UNCHANGED <<bankDay, listing, conn, charge, locks, opened, sync, waited>>
                 /\ entry' \in [Lines \X Parts -> {"none", "pending", "classified", "discarded", "twice"}]
        BY <2>2 DEF Classify, StInv, StTypeOK
    <2> QED BY <1>0, <2>1, <2>2
<1>2. StKept
    BY <1>1 DEF StInv, StTypeOK, StKept
<1>3. StTypeOK'
    BY <1>1 DEF StInv, StTypeOK
<1>4. ConnOK(conn)'
    BY <1>1, <1>2, RowFrame DEF StInv, StTypeOK
<1>5. \A q \in Syncs : Aged(q)
    BY <1>1 DEF Aged
<1> QED BY <1>2, <1>3, <1>4, <1>5, MoveConn

LEMMA StDisconnect ==
    ASSUME StInv, Disconnect
    PROVE  StInv'
<1>1. \A q \in Syncs : Aged(q)
    BY DEF Disconnect, Aged, Out
<1>2. conn' \in RowSet /\ conn'.live = conn.live /\ conn'.from = conn.from /\ conn'.since = conn.since
    BY DEF Disconnect, StInv, StTypeOK, RowSet
<1>3. StKept
    BY <1>2 DEF Disconnect, StInv, StTypeOK, StKept
<1>4. sync' \in [Syncs -> Idles \cup Busies]
    <2>1. \A q \in Syncs : sync[q].at # "idle" => sync[q] \in Busies /\ [sync[q] EXCEPT !.fresh = FALSE] \in Busies
        BY BusyType, StaleType DEF StInv
    <2> QED BY <2>1 DEF Disconnect, Out, StInv, StTypeOK
<1>5. StTypeOK'
    BY <1>2, <1>4 DEF Disconnect, StInv, StTypeOK
<1>6. ConnOK(conn')
    BY <1>2 DEF StInv, ConnOK
<1>7. ConnOK(conn)'
    <2>1. bankDay' = bankDay /\ listing' = listing /\ (\A l : Accounted(l) => Accounted(l)')
        BY RowFrame, <1>3 DEF Disconnect, StInv
    <2> QED BY <2>1, <1>2 DEF ConnOK, StInv
<1> QED BY <1>1, <1>3, <1>5, <1>7, MoveConn

LEMMA StReconnect ==
    ASSUME StInv, Reconnect
    PROVE  StInv'
<1> USE StatementAssumption
<1>1. conn' = NewConn(conn.live, conn.times + 1, bankDay) /\ sync' = sync
    BY DEF Reconnect
<1>2. conn' \in RowSet /\ conn'.live = conn.live /\ conn'.from = bankDay /\ conn'.since = bankDay
    <2>1. Day(bankDay - BackfillDays) \in Nat
        BY DEF StInv, StTypeOK, Day
    <2> HIDE StatementAssumption
    <2>2. PICK c : c = (CHOOSE e \in opened : TRUE)
        OBVIOUS
    <2>3. opened # {} => c + 1 \in Nat
        <3>1. opened # {} => c \in opened
            BY <2>2, Zenon
        <3>2. opened # {} => c \in Nat
            BY <3>1 DEF StInv, StTypeOK
        <3> QED BY <3>2
    <2>4. conn.live \in BOOLEAN /\ conn.times + 1 \in Nat /\ bankDay \in Nat
        BY DEF StInv, StTypeOK, RowSet
    <2> QED BY <1>1, <2>1, <2>2, <2>3, <2>4 DEF NewConn, RowSet
<1>3. StKept
    BY <1>2 DEF Reconnect, StInv, StTypeOK, StKept
<1>4. StTypeOK'
    BY <1>2 DEF Reconnect, StInv, StTypeOK
<1>5. ConnOK(conn)'
    BY <1>2, <1>4 DEF ConnOK, Reconnect, StInv, StTypeOK
<1>6. \A q \in Syncs : Aged(q)
    BY <1>1 DEF Aged
<1> QED BY <1>3, <1>4, <1>5, <1>6, MoveConn

LEMMA StSave ==
    ASSUME StInv, NEW p \in Syncs, SaveSync(p) \/ RecordOutcome(p)
    PROVE  StInv'
<1>0. sync[p] \in Busies /\ SyncOK(sync[p])
    BY DEF SaveSync, RecordOutcome, Out, StInv, StTypeOK, Idles, Busies
<1>1. CASE Saved(p, sync[p].row)
    <2>1. conn' = sync[p].row /\ conn' \in RowSet /\ conn'.live = conn.live
        BY <1>0, <1>1 DEF Saved, SyncOK, ConnOK, Busies
    <2>2. StKept
        BY <2>1 DEF SaveSync, RecordOutcome, StInv, StTypeOK, StKept
    <2>3. \A q \in Syncs : Aged(q)
        BY <1>1 DEF Saved, Aged, Out, Clear
    <2>4. sync' \in [Syncs -> Idles \cup Busies]
        <3>1. \A q \in Syncs : sync[q].at # "idle" => sync[q] \in Busies /\ [sync[q] EXCEPT !.fresh = FALSE] \in Busies
            BY BusyType, StaleType DEF StInv
        <3>2. \A q \in Syncs : Clear(q) \in Idles
            BY DEF Clear, Idles
        <3> QED BY <1>1, <3>1, <3>2 DEF Saved, Out
    <2>5. StTypeOK'
        BY <2>1, <2>4 DEF SaveSync, RecordOutcome, StInv, StTypeOK
    <2>6. ConnOK(conn)'
        BY <2>1, <2>2, <1>0, RowFrame DEF SyncOK, StInv
    <2> QED BY <2>2, <2>3, <2>5, <2>6, MoveConn
<1>2. CASE conn' = conn /\ Step(p, Clear(p))
    <2>1. sync'[p].at = "idle" /\ (\A q \in Syncs \ {p} : sync'[q] = sync[q]) /\ sync' \in [Syncs -> Idles \cup Busies]
        BY <1>2 DEF Step, Clear, Idles, StInv, StTypeOK
    <2>2. StKept
        BY <1>2 DEF SaveSync, RecordOutcome, StInv, StTypeOK, StKept
    <2>3. StTypeOK'
        BY <1>2, <2>1 DEF SaveSync, RecordOutcome, StInv, StTypeOK
    <2> QED BY <1>2, <2>1, <2>2, <2>3, MoveOne
<1> QED BY <1>1, <1>2 DEF SaveSync, RecordOutcome

LEMMA StExpires ==
    ASSUME StInv, LockExpires
    PROVE  StInv'
<1>1. conn' = conn /\ StKept
    BY DEF LockExpires, StInv, StTypeOK, StKept
<1>2. \A q \in Syncs : Aged(q)
    BY DEF LockExpires, Aged, Clear, StInv, StTypeOK
<1>3. sync' \in [Syncs -> Idles \cup Busies]
    <2>1. CASE sync' = sync
        BY <2>1 DEF StInv, StTypeOK
    <2>2. CASE sync' = [sync EXCEPT ![holder] = Clear(holder)]
        BY <2>2 DEF StInv, StTypeOK, Clear, Idles
    <2> QED BY <2>1, <2>2 DEF LockExpires
<1>4. StTypeOK'
    BY <1>1, <1>3 DEF LockExpires, StInv, StTypeOK
<1>5. ConnOK(conn)'
    BY <1>1, RowFrame DEF StInv, StTypeOK
<1> QED BY <1>1, <1>2, <1>4, <1>5, MoveConn

(* A step that puts r in the place of p's record.                          *)
LEMMA MoveTo ==
    ASSUME StInv, NEW p \in Syncs, NEW r \in Idles \cup Busies, sync' = [sync EXCEPT ![p] = r],
           StKept, conn' = conn, opened' \in SUBSET Nat, charge' \in [Charges -> {"pending", "succeeded", "posted"}],
           entry' \in [Lines \X Parts -> {"none", "pending", "classified", "discarded", "twice"}],
           r.at # "idle" => SyncOK(r)'
    PROVE  StInv'
<1>1. sync'[p] = r /\ (\A q \in Syncs \ {p} : sync'[q] = sync[q]) /\ sync' \in [Syncs -> Idles \cup Busies]
    BY DEF StInv, StTypeOK
<1>2. StTypeOK'
    BY <1>1 DEF StInv, StTypeOK, StKept
<1>3. sync'[p].at # "idle" => SyncOK(sync[p])'
    BY <1>1
<1> QED BY <1>1, <1>2, <1>3, MoveOne

(* A step that only moves p on to a record that is right already.          *)
LEMMA MoveOn ==
    ASSUME StInv, NEW p \in Syncs, NEW r \in Busies, SyncOK(r), sync' = [sync EXCEPT ![p] = r],
           UNCHANGED <<bankDay, listing, conn, charge, locks, entry, waited>>, opened' \in SUBSET Nat
    PROVE  StInv'
<1>1. StKept
    BY DEF StInv, StTypeOK, StKept
<1>2. SyncOK(r)'
    BY <1>1, SyncFrame DEF StInv, Same
<1> QED BY <1>1, <1>2, MoveTo DEF StInv, StTypeOK

LEMMA StRead ==
    ASSUME StInv, NEW p \in Syncs, ReadConnection(p)
    PROVE  StInv'
<1> DEFINE r == [at |-> "read", row |-> conn, fresh |-> TRUE, today |-> bankDay, todo |-> {},
                 window |-> "none", from |-> 0, line |-> NoLine]
<1>1. r \in Busies /\ r.row = conn /\ r.at = "read"
    BY DEF StInv, StTypeOK, Busies
<1>2. sync' = [sync EXCEPT ![p] = r]
    BY DEF ReadConnection, Step
<1> HIDE DEF r
<1>3. SyncOK(r)
    BY <1>1 DEF StInv, SyncOK, Midway, CargoOK
<1> QED BY <1>1, <1>2, <1>3, MoveOn DEF ReadConnection, StInv, StTypeOK

LEMMA StSyncNow ==
    ASSUME StInv, NEW p \in Syncs, SyncNow(p)
    PROVE  StInv'
<1>1. \A q \in Syncs : Aged(q)
    BY DEF SyncNow, Aged, Out
<1>2. StKept
    BY DEF SyncNow, StInv, StTypeOK, StKept
<1>3. sync' \in [Syncs -> Idles \cup Busies]
    <2>1. \A q \in Syncs : sync[q].at # "idle" => sync[q] \in Busies /\ [sync[q] EXCEPT !.fresh = FALSE] \in Busies
        BY BusyType, StaleType DEF StInv
    <2> QED BY <2>1 DEF SyncNow, Out, StInv, StTypeOK
<1>4. StTypeOK'
    BY <1>3 DEF SyncNow, StInv, StTypeOK
<1>5. ConnOK(conn)'
    BY <1>2, RowFrame DEF SyncNow, StInv, StTypeOK
<1> QED BY <1>1, <1>2, <1>4, <1>5, MoveConn

LEMMA StWindows ==
    ASSUME StInv, NEW p \in Syncs, Acquire(p) \/ WindowRefused(p) \/ WindowDone(p) \/ PostOpeningOfBank(p)
    PROVE  StInv'
<1>0. sync[p] \in Busies /\ SyncOK(sync[p]) /\ ConnOK(sync[p].row) /\ StTypeOK
    <2>1. sync[p].at # "idle"
        BY DEF Acquire, WindowRefused, WindowDone, PostOpeningOfBank, Out
    <2> QED BY <2>1, BusyType DEF StInv, SyncOK
<1>1. CASE Acquire(p)
    <2>1. CASE holder = NoOne
        <3>1. PICK r \in Busies : SyncOK(r) /\ sync' = [sync EXCEPT ![p] = r]
            BY <1>0, <1>1, <2>1, RecentOK, BackfillOK DEF Acquire, Step
        <3> QED BY <3>1, <1>1, MoveOn DEF Acquire, StInv, StTypeOK
    <2>2. CASE holder # NoOne
        <3>1. Clear(p) \in Idles \cup Busies /\ Clear(p).at = "idle" /\ sync' = [sync EXCEPT ![p] = Clear(p)]
            BY <1>1, <2>2 DEF Acquire, Step, Clear, Idles
        <3>2. StKept
            BY <1>1 DEF Acquire, StInv, StTypeOK, StKept
        <3> QED BY <3>1, <3>2, <1>1, MoveTo DEF Acquire, StInv, StTypeOK
    <2> QED BY <2>1, <2>2
<1>2. CASE WindowRefused(p)
    <2>1. FinishBackfill(sync[p], TRUE) \in Busies /\ SyncOK(FinishBackfill(sync[p], TRUE))
        BY <1>0, FinishOK
    <2> QED BY <2>1, <1>2, MoveOn DEF WindowRefused, Step, StInv, StTypeOK
<1>3. CASE PostOpeningOfBank(p)
    <2>1. Recent(sync[p]) \in Busies /\ SyncOK(Recent(sync[p]))
        BY <1>0, RecentOK
    <2>2. opened' \in SUBSET Nat
        <3>1. sync[p].row.first \in Nat
            BY <1>0 DEF Busies, RowSet
        <3>2. Day(sync[p].row.first - 1) \in Nat
            BY <3>1 DEF Day
        <3> QED BY <3>2, <1>3 DEF PostOpeningOfBank, StInv, StTypeOK
    <2> QED BY <2>1, <2>2, <1>3, MoveOn DEF PostOpeningOfBank, Step
<1>4. CASE WindowDone(p)
    <2>1. Out(p, "lines") /\ sync[p].todo = {} /\ sync' = [sync EXCEPT ![p] = Read(p)]
        BY <1>4 DEF WindowDone, Step
    <2>2. WindowOK(sync[p])
        BY <1>0, <2>1 DEF SyncOK, Midway, Out
    <2>3. CASE sync[p].window = "recent"
        <3> DEFINE r == [sync[p] EXCEPT !.at = "balance"]
        <3>1. r \in Busies /\ r.at = "balance" /\ r.row = sync[p].row
            BY <1>0 DEF Busies
        <3>2. sync' = [sync EXCEPT ![p] = r]
            BY <2>1, <2>3 DEF Read
        <3> HIDE DEF r
        <3>3. SyncOK(r)
            BY <3>1, <1>0 DEF SyncOK, Midway, CargoOK
        <3> QED BY <3>1, <3>2, <3>3, <1>4, MoveOn DEF WindowDone, StInv, StTypeOK
    <2>4. CASE sync[p].window # "recent"
        <3> DEFINE s == [sync[p] EXCEPT !.row.from = sync[p].from]
        <3>1. /\ s \in Busies /\ s.row.from = sync[p].from /\ s.row.since = sync[p].row.since
              /\ s.row.live = sync[p].row.live
            BY <1>0 DEF Busies, RowSet
        <3>2. sync[p].window = "backfill"
            BY <1>0, <2>2, <2>4 DEF Busies, WindowOK
        <3>3. sync' = [sync EXCEPT ![p] = FinishBackfill(s, FALSE)]
            BY <2>1, <2>4 DEF Read
        <3> HIDE DEF s
        <3>4. ConnOK(s.row)
            <4>1. sync[p].from \in Nat /\ sync[p].row.from \in Nat /\ sync[p].row.since \in Nat
                BY <1>0 DEF Busies, RowSet
            <4>2. s.row.from <= s.row.since /\ s.row.since <= bankDay
                BY <1>0, <2>2, <3>1, <3>2, <4>1 DEF ConnOK, WindowOK, StTypeOK
            <4>3. ASSUME s.row.live, NEW l \in listing, l.day \in s.row.from..(s.row.since - 1) PROVE Accounted(l)
                <5>1. l.day \in sync[p].from..(sync[p].row.from - 1) \/ l.day \in sync[p].row.from..(sync[p].row.since - 1)
                    BY <3>1, <4>1, <4>3
                <5> QED BY <5>1, <4>3, <3>1, <3>2, <2>1, <2>2, <1>0 DEF WindowOK, ConnOK
            <4> QED BY <4>2, <4>3, <3>1, <1>0 DEF ConnOK
        <3>5. FinishBackfill(s, FALSE) \in Busies /\ SyncOK(FinishBackfill(s, FALSE))
            BY <3>1, <3>4, <1>0, FinishOK
        <3> QED BY <3>3, <3>5, <1>4, MoveOn DEF WindowDone, StInv, StTypeOK
    <2> QED BY <2>3, <2>4
<1> QED BY <1>1, <1>2, <1>3, <1>4

(* What p is done with is taken off its window.                            *)
LEMMA LineDoneOK ==
    ASSUME StInv, NEW p \in Syncs, sync[p].at # "idle", Midway(sync[p]), NEW l, LineDone(p, l), StKept, conn' = conn,
           opened' = opened, charge' \in [Charges -> {"pending", "succeeded", "posted"}],
           entry' \in [Lines \X Parts -> {"none", "pending", "classified", "discarded", "twice"}],
           sync[p].row.live => Accounted(l)'
    PROVE  StInv'
<1>0. sync[p] \in Busies /\ ConnOK(sync[p].row) /\ WindowOK(sync[p])
    BY BusyType DEF StInv, SyncOK
<1>1. PICK r : r = [sync[p] EXCEPT !.todo = sync[p].todo \ {l}, !.at = "lines", !.line = NoLine]
    OBVIOUS
<1>2. /\ r \in Busies /\ r.at = "lines" /\ r.row = sync[p].row /\ r.todo = sync[p].todo \ {l}
      /\ r.window = sync[p].window /\ r.from = sync[p].from
    BY <1>0, <1>1 DEF Busies
<1>3. sync' = [sync EXCEPT ![p] = r]
    BY <1>1 DEF LineDone, Step
<1>4. ConnOK(r.row)'
    BY <1>0, <1>2, RowFrame DEF StInv, Busies
<1>5. WindowOK(r)'
    <2>1. \A k : Accounted(k) => Accounted(k)'
        BY RowFrame DEF StInv
    <2>2. listing' = listing
        BY DEF StKept
    <2> QED BY <1>0, <1>2, <2>1, <2>2 DEF WindowOK
<1>6. SyncOK(r)'
    BY <1>2, <1>4, <1>5 DEF SyncOK, CargoOK
<1> QED BY <1>2, <1>3, <1>6, MoveTo DEF StInv, StTypeOK

LEMMA CarryingOK ==
    ASSUME StInv, NEW p \in Syncs, sync[p].at # "idle", Midway(sync[p]), NEW t \in Cargo, t.of \in sync[p].todo,
           NEW w \in {"lock", "post", "linked"}, sync' = [sync EXCEPT ![p] = [sync[p] EXCEPT !.at = w, !.line = t]],
           StKept, conn' = conn,
           opened' = opened, charge' \in [Charges -> {"pending", "succeeded", "posted"}],
           entry' \in [Lines \X Parts -> {"none", "pending", "classified", "discarded", "twice"}]
    PROVE  StInv'
<1>0. sync[p] \in Busies /\ ConnOK(sync[p].row) /\ WindowOK(sync[p])
    BY BusyType DEF StInv, SyncOK
<1>1. PICK r : r = [sync[p] EXCEPT !.at = w, !.line = t]
    OBVIOUS
<1>2. /\ r \in Busies /\ r.at = w /\ r.row = sync[p].row /\ r.todo = sync[p].todo /\ r.line = t
      /\ r.window = sync[p].window /\ r.from = sync[p].from
    BY <1>0, <1>1 DEF Busies
<1>4. ConnOK(r.row)'
    BY <1>0, <1>2, RowFrame DEF StInv, Busies
<1>5. WindowOK(r)'
    <2>1. \A k : Accounted(k) => Accounted(k)'
        BY RowFrame DEF StInv
    <2>2. listing' = listing
        BY DEF StKept
    <2> QED BY <1>0, <1>2, <2>1, <2>2 DEF WindowOK
<1>6. SyncOK(r)'
    BY <1>2, <1>4, <1>5 DEF SyncOK, CargoOK
<1> QED BY <1>1, <1>2, <1>6, MoveTo DEF StInv, StTypeOK

LEMMA StTakeLine ==
    ASSUME StInv, NEW p \in Syncs, NEW l \in Lines, TakeLine(p, l)
    PROVE  StInv'
<1>0. /\ sync[p].at = "lines" /\ Midway(sync[p]) /\ l \in sync[p].todo
      /\ UNCHANGED <<bankDay, listing, conn, locks, entry, opened>>
    BY DEF TakeLine, Out, Midway
<1>1. charge' \in [Charges -> {"pending", "succeeded", "posted"}]
    <2>1. CASE charge' = charge
        BY <2>1 DEF StInv, StTypeOK
    <2>2. CASE Linkable(l) /\ Link(p, l)
        BY <2>2 DEF Linkable, Link, Asked, StInv, StTypeOK
    <2> QED BY <2>1, <2>2 DEF TakeLine
<1>2. waited \subseteq waited'
    BY DEF TakeLine, Link
<1>3. StKept /\ entry' \in [Lines \X Parts -> {"none", "pending", "classified", "discarded", "twice"}]
    BY <1>0, <1>2 DEF StKept, StInv, StTypeOK
<1>4. \/ LineDone(p, l) /\ (sync[p].row.live => l \in waited')
      \/ Posting(p, l, Whole) \/ Posting(p, l, Excess) \/ Carrying(p, "linked", l, Whole)
    BY DEF TakeLine, Link
<1>5. CASE LineDone(p, l) /\ (sync[p].row.live => l \in waited')
    <2>1. sync[p].row.live => Accounted(l)'
        BY <1>5 DEF Accounted
    <2> QED BY <2>1, <1>0, <1>1, <1>3, <1>5, LineDoneOK
<1>6. CASE Posting(p, l, Whole) \/ Posting(p, l, Excess) \/ Carrying(p, "linked", l, Whole)
    <2>1. PICK w \in {"lock", "post", "linked"} : \E part \in Parts : Carrying(p, w, l, part)
        BY <1>6 DEF Posting, Parts
    <2>2. PICK part \in Parts : Carrying(p, w, l, part)
        BY <2>1
    <2>3. PICK t : t = [of |-> l, part |-> part, by |-> "id"]
        OBVIOUS
    <2>4. t \in Cargo /\ t.of = l
        BY <2>3 DEF Cargo
    <2>5. sync' = [sync EXCEPT ![p] = [sync[p] EXCEPT !.at = w, !.line = t]]
        BY <2>2, <2>3 DEF Carrying, Step
    <2> QED BY <2>4, <2>5, <1>0, <1>1, <1>3, CarryingOK
<1> QED BY <1>4, <1>5, <1>6

(* Where a posting goes on to: the link of an excess, or the next line.    *)
LEMMA OnwardOK ==
    ASSUME StInv, NEW p \in Syncs, sync[p].at \in {"lock", "post"}, Onward(p), StKept, conn' = conn,
           opened' = opened, charge' = charge,
           entry' \in [Lines \X Parts -> {"none", "pending", "classified", "discarded", "twice"}],
           NEW l, l = sync[p].line.of, sync[p].line.part = Whole => Accounted(l)'
    PROVE  StInv'
<1>0. /\ sync[p] \in Busies /\ Midway(sync[p]) /\ sync[p].line \in Cargo /\ sync[p].line.of \in sync[p].todo
      /\ charge' \in [Charges -> {"pending", "succeeded", "posted"}]
    BY BusyType DEF StInv, SyncOK, CargoOK, Midway, StTypeOK
<1>1. CASE sync[p].line.part = Excess
    <2>1. PICK t : t = sync[p].line
        OBVIOUS
    <2>2. sync' = [sync EXCEPT ![p] = [sync[p] EXCEPT !.at = "linked", !.line = t]]
        BY <1>0, <1>1, <2>1 DEF Onward, Step, Busies
    <2> QED BY <1>0, <2>1, <2>2, CarryingOK
<1>2. CASE sync[p].line.part # Excess
    <2>2. sync[p].line.part = Whole
        BY <1>0, <1>2 DEF Cargo, Parts
    <2>3. LineDone(p, l)
        BY <1>2 DEF Onward
    <2> QED BY <1>0, <2>2, <2>3, LineDoneOK
<1> QED BY <1>1, <1>2

LEMMA StLinkBankLine ==
    ASSUME StInv, NEW p \in Syncs, LinkBankLine(p)
    PROVE  StInv'
<1>1. PICK l : l = sync[p].line.of
    OBVIOUS
<1>2. /\ sync[p].at = "linked" /\ Midway(sync[p]) /\ LineDone(p, l)
      /\ UNCHANGED <<bankDay, listing, conn, charge, entry, opened, waited>>
    BY <1>1 DEF LinkBankLine, Out, Midway
<1>3. DOMAIN locks \subseteq DOMAIN locks' /\ LockKey(l, Whole) \in DOMAIN locks'
    BY <1>1 DEF LinkBankLine, Locked
<1>4. StKept /\ Accounted(l)'
    BY <1>2, <1>3 DEF StKept, StInv, StTypeOK, Accounted, LockKey
<1> QED BY <1>2, <1>4, LineDoneOK DEF StInv, StTypeOK

LEMMA StReadLock ==
    ASSUME StInv, NEW p \in Syncs, ReadLock(p)
    PROVE  StInv'
<1>1. PICK l, t : l = sync[p].line.of /\ t = sync[p].line
    OBVIOUS
<1>2. /\ sync[p].at = "lock" /\ Midway(sync[p])
      /\ UNCHANGED <<bankDay, listing, conn, charge, locks, entry, opened, waited>>
    BY DEF ReadLock, Out, Midway
<1>3. StKept
    BY <1>2 DEF StKept, StInv, StTypeOK
<1>4. sync[p] \in Busies /\ t \in Cargo /\ t.of \in sync[p].todo /\ charge \in [Charges -> {"pending", "succeeded", "posted"}]
    BY <1>1, <1>2, BusyType DEF StInv, SyncOK, CargoOK, StTypeOK
<1>5. CASE Held(l, t.part)
    <2>1. t.part = Whole => Accounted(l)'
        BY <1>2, <1>5 DEF Accounted, Held, LockKey
    <2>2. Onward(p)
        BY <1>1, <1>5 DEF ReadLock
    <2> QED BY <1>1, <1>2, <1>3, <2>1, <2>2, OnwardOK DEF StInv, StTypeOK
<1>6. CASE ~Held(l, t.part)
    <2>1. PICK u : u = [t EXCEPT !.by = IF LockKey(t.of, t.part) \in DOMAIN locks THEN "content" ELSE "id"]
        OBVIOUS
    <2>2. u \in Cargo /\ u.of = t.of
        BY <1>4, <2>1 DEF Cargo
    <2>3. sync' = [sync EXCEPT ![p] = [sync[p] EXCEPT !.at = "post", !.line = u]]
        BY <1>1, <1>6, <2>1 DEF ReadLock, Step
    <2> QED BY <1>2, <1>3, <1>4, <2>2, <2>3, CarryingOK DEF StInv, StTypeOK
<1> QED BY <1>5, <1>6

LEMMA StPostBankLine ==
    ASSUME StInv, NEW p \in Syncs, PostBankLine(p)
    PROVE  StInv'
<1>1. PICK l, t : l = sync[p].line.of /\ t = sync[p].line
    OBVIOUS
<1>2. /\ sync[p].at = "post" /\ Onward(p)
      /\ UNCHANGED <<bankDay, listing, conn, charge, opened>>
    BY DEF PostBankLine, Out
<1>3. DOMAIN locks \subseteq DOMAIN locks' /\ waited \subseteq waited' /\ PostKey(t) \in DOMAIN locks'
    BY <1>1 DEF PostBankLine, Locked
<1>4. StKept
    BY <1>2, <1>3 DEF StKept, StInv, StTypeOK
<1>5. t \in Cargo
    BY <1>1, <1>2 DEF StInv, SyncOK, CargoOK
<1>6. t.part = Whole => Accounted(l)'
    BY <1>1, <1>3 DEF Accounted, PostKey, LockKey, ContentKey, Content
<1>7. entry' \in [Lines \X Parts -> {"none", "pending", "classified", "discarded", "twice"}]
    <2>1. CASE entry' = entry
        BY <2>1 DEF StInv, StTypeOK
    <2>2. CASE entry' = [entry EXCEPT ![<<t.of, t.part>>] = IF @ = "none" THEN "pending" ELSE "twice"]
        BY <2>2 DEF StInv, StTypeOK
    <2> QED BY <1>1, <2>1, <2>2 DEF PostBankLine
<1> QED BY <1>1, <1>2, <1>4, <1>6, <1>7, OnwardOK

LEMMA StInvStep == StInv /\ [StatementNext]_stVars => StInv'
<1> SUFFICES ASSUME StInv, [StatementNext]_stVars PROVE StInv'
    OBVIOUS
<1>1. CASE NextDay \/ (\E l \in Lines : Composes(l)) \/ (\E c \in Charges : SettleCharge(c))
    BY <1>1, StWorld
<1>2. CASE \E l \in Lines : DiscardBankLine(l) \/ \E part \in Parts : Classify(<<l, part>>)
    BY <1>2, StPeople
<1>3. CASE LockExpires \/ Disconnect \/ Reconnect
    BY <1>3, StExpires, StDisconnect, StReconnect
<1>4. ASSUME NEW p \in Syncs, SyncStep(p) PROVE StInv'
    <2>1. CASE ReadConnection(p) \/ SyncNow(p) \/ SaveSync(p) \/ RecordOutcome(p)
        BY <2>1, StRead, StSyncNow, StSave
    <2>2. CASE Acquire(p) \/ WindowRefused(p) \/ WindowDone(p) \/ PostOpeningOfBank(p)
        BY <2>2, StWindows
    <2>3. CASE LinkBankLine(p) \/ ReadLock(p) \/ PostBankLine(p) \/ \E l \in Lines : TakeLine(p, l)
        BY <2>3, StLinkBankLine, StReadLock, StPostBankLine, StTakeLine
    <2> QED BY <1>4, <2>1, <2>2, <2>3 DEF SyncStep
<1>5. CASE UNCHANGED stVars
    <2>1. StKept /\ StTypeOK' /\ sync' = sync /\ conn' = conn
        BY <1>5 DEF stVars, StKept, StInv, StTypeOK
    <2>2. ConnOK(conn)' /\ \A q \in Syncs : Aged(q)
        BY <2>1, RowFrame DEF StInv, StTypeOK, Aged
    <2> QED BY <2>1, <2>2, MoveConn
<1> QED BY <1>1, <1>2, <1>3, <1>4, <1>5 DEF StatementNext

(* However syncs overlap, fail and save, and however often the account is  *)
(* connected again, nothing the bank lists between the backfill's cursor   *)
(* and the day of the connection is missing.                               *)
THEOREM BackfillHasNoHole == StatementSpec => []BackfillLeavesNoHole
<1>1. StInv => BackfillLeavesNoHole
    BY DEF StInv, ConnOK, Accounted, BackfillLeavesNoHole
<1> QED BY <1>1, StInvInit, StInvStep, PTL DEF StatementSpec
----------------------------------------------------------------------------
(* A payment is booked once.  The id of a lock may be another line's, the  *)
(* content is not; an entry holds a lock of its own line for good.         *)

Overpays(l) == Linkable(l) /\ PaysFor(l) /\ l.amount > OwedOn[l.ref]

PartsOf(l) == IF Overpays(l) THEN Parts ELSE {Whole}

(* No bank id is given to two payments that exceed their charges.          *)
ExcessIdsDiffer ==
    \A lines \in Listings : \A l, k \in lines : (Overpays(l) /\ Overpays(k) /\ l.id = k.id) => l = k

EntryOK(l) ==
    /\ \A s \in Parts : entry[<<l, s>>] # "none" => Held(l, s) /\ entry[<<l, s>>] # "twice" /\ (conn.live \/ Own(l))
    /\ entry[<<l, Excess>>] # "none" => Overpays(l) /\ Duplicate(l) /\ entry[<<l, Excess>>] # "discarded"
    /\ entry[<<l, Whole>>] # "none" /\ l \notin gaveUp => ~(Linkable(l) /\ PaysFor(l))
    /\ entry[<<l, Whole>>] = "discarded" => Duplicate(l)

Settled(l) == Duplicate(l) /\ (Overpays(l) => entry[<<l, Excess>>] # "none")

BankLockOK(l) ==
    /\ \A s \in PartsOf(l) : ContentKey(l, s) \in DOMAIN locks => LockKey(l, s) \in DOMAIN locks
    /\ Overpays(l) /\ LockKey(l, Excess) \in DOMAIN locks => entry[<<l, Excess>>] # "none"
    /\ LockKey(l, Whole) \in DOMAIN locks /\ locks[LockKey(l, Whole)] = Content(l, Whole) /\ l \notin gaveUp
         => entry[<<l, Whole>>] # "none" \/ Settled(l)

(* What a sync knows of the line it carries.                               *)
CarryOK(s) ==
    LET l == s.line.of
    IN  /\ s.at \in {"lock", "post"} =>
             /\ conn.live \/ Own(l)
             /\ s.line.part = Excess => Overpays(l) /\ Duplicate(l)
             /\ s.line.part = Whole => l \in gaveUp \/ ~(Linkable(l) /\ PaysFor(l))
        /\ s.at = "post" /\ s.line.by = "content" =>
             LockKey(l, s.line.part) \in DOMAIN locks /\ locks[LockKey(l, s.line.part)] # Content(l, s.line.part)
        /\ s.at = "linked" => Settled(l)

PayInv ==
    /\ StInv
    /\ \A l \in listing : EntryOK(l) /\ BankLockOK(l)
    /\ \A p \in Syncs : sync[p].at # "idle" => CarryOK(sync[p])

(* What no step takes back: locks, entries, postings of invoices.          *)
PayKept ==
    /\ listing' = listing /\ conn'.live = conn.live /\ gaveUp \subseteq gaveUp'
    /\ \A c \in Charges : charge[c] = "posted" => charge'[c] = "posted"
    /\ \A k \in DOMAIN locks : k \in DOMAIN locks' /\ locks'[k] = locks[k]
    /\ \A l \in listing, s \in Parts : entry[<<l, s>>] # "none" => entry'[<<l, s>>] # "none"

LEMMA PayFacts ==
    ASSUME PayKept, NEW l \in listing
    PROVE  /\ Duplicate(l) => Duplicate(l)'
           /\ Settled(l) => Settled(l)'
           /\ \A s \in Parts : Held(l, s) => Held(l, s)'
<1>1. Duplicate(l) => Duplicate(l)'
    BY DEF PayKept, Duplicate, Linkable, PaysFor
<1>2. Settled(l) => Settled(l)'
    BY <1>1 DEF PayKept, Settled, Overpays, Linkable, PaysFor, Parts
<1>3. \A s \in Parts : Held(l, s) => Held(l, s)'
    BY DEF PayKept, Held, LockKey, ContentKey, Content
<1> QED BY <1>1, <1>2, <1>3

(* A sync that stays where it is goes on to know what it knows.            *)
LEMMA CarryFrame ==
    ASSUME PayKept, NEW s, NEW t, t.at = s.at, t.line = s.line, CarryOK(s),
           s.at \in {"lock", "post", "linked"} => s.line.of \in listing /\ s.line.part \in Parts
    PROVE  CarryOK(t)'
<1>1. CASE s.at \notin {"lock", "post", "linked"}
    BY <1>1 DEF CarryOK
<1>2. CASE s.at \in {"lock", "post", "linked"}
    <2> DEFINE l == s.line.of
    <2>1. l \in listing /\ t.line.of = l
        BY <1>2
    <2>2. (Duplicate(l) => Duplicate(l)') /\ (Settled(l) => Settled(l)')
        BY <2>1, PayFacts
    <2>3. s.at \in {"lock", "post"} =>
             /\ conn'.live \/ Own(l)
             /\ s.line.part = Excess => Overpays(l) /\ Duplicate(l)'
             /\ s.line.part = Whole => l \in gaveUp' \/ ~(Linkable(l) /\ PaysFor(l))
        BY <2>2 DEF CarryOK, PayKept
    <2>4. s.at = "post" /\ s.line.by = "content" =>
             LockKey(l, s.line.part) \in DOMAIN locks' /\ locks'[LockKey(l, s.line.part)] # Content(l, s.line.part)
        BY DEF CarryOK, PayKept
    <2>5. s.at = "linked" => Settled(l)'
        BY <2>2 DEF CarryOK
    <2> QED BY <2>1, <2>3, <2>4, <2>5 DEF CarryOK, Own, Overpays, Linkable, PaysFor, LockKey, Content
<1> QED BY <1>1, <1>2

LEMMA BooksFrame ==
    ASSUME PayInv, PayKept, entry' = entry, locks' = locks
    PROVE  \A l \in listing : EntryOK(l)' /\ BankLockOK(l)'
<1> SUFFICES ASSUME NEW l \in listing PROVE EntryOK(l)' /\ BankLockOK(l)'
    OBVIOUS
<1>1. EntryOK(l) /\ BankLockOK(l)
    BY DEF PayInv
<1>2. (Duplicate(l) => Duplicate(l)') /\ (Settled(l) => Settled(l)') /\ (\A s \in Parts : Held(l, s) => Held(l, s)')
    BY PayFacts
<1>3. EntryOK(l)'
    BY <1>1, <1>2 DEF EntryOK, PayKept, Own, Overpays, Linkable, PaysFor
<1>4. BankLockOK(l)'
    BY <1>1, <1>2 DEF BankLockOK, PayKept, PartsOf, Overpays, Linkable, PaysFor, LockKey, ContentKey, Content
<1> QED BY <1>3, <1>4

Still(q) == sync'[q].at = "idle" \/ (sync[q].at # "idle" /\ sync'[q].at = sync[q].at /\ sync'[q].line = sync[q].line)

LEMMA CarriesListed ==
    ASSUME StInv, NEW q \in Syncs, sync[q].at \in {"lock", "post", "linked"}
    PROVE  /\ sync[q].line \in Cargo /\ sync[q].line.of \in listing /\ sync[q].line.part \in Parts
           /\ sync[q].line.of \in Lines
<1>1. sync[q].line \in Cargo /\ sync[q].line.of \in sync[q].todo /\ sync[q].todo \subseteq listing
    BY DEF StInv, SyncOK, CargoOK, Midway, WindowOK
<1> QED BY <1>1 DEF Cargo

LEMMA PayMove ==
    ASSUME PayInv, PayKept, StInv', \A l \in listing : EntryOK(l)' /\ BankLockOK(l)',
           NEW P, \A q \in Syncs \ P : Still(q),
           \A q \in Syncs \cap P : sync'[q].at \in {"lock", "post", "linked"} => CarryOK(sync[q])'
    PROVE  PayInv'
<1>1. ASSUME NEW q \in Syncs, sync'[q].at # "idle" PROVE CarryOK(sync[q])'
    <2>1. CASE q \in P /\ sync'[q].at \in {"lock", "post", "linked"}
        BY <2>1
    <2>2. CASE q \in P /\ sync'[q].at \notin {"lock", "post", "linked"}
        BY <2>2 DEF CarryOK
    <2>3. CASE q \notin P
        <3>1. sync[q].at # "idle" /\ sync'[q].at = sync[q].at /\ sync'[q].line = sync[q].line
            BY <2>3, <1>1 DEF Still
        <3>2. CarryOK(sync[q])
            BY <3>1 DEF PayInv
        <3>3. sync[q].at \in {"lock", "post", "linked"} => sync[q].line.of \in listing /\ sync[q].line.part \in Parts
            BY CarriesListed DEF PayInv
        <3> QED BY <3>1, <3>2, <3>3, CarryFrame
    <2> QED BY <2>1, <2>2, <2>3
<1>2. listing' = listing
    BY DEF PayKept
<1> QED BY <1>1, <1>2 DEF PayInv

LEMMA PayInvInit == StatementInit => PayInv
<1> SUFFICES ASSUME StatementInit PROVE PayInv
    OBVIOUS
<1>1. StInv
    BY StInvInit
<1>2. (\A p \in Syncs : sync[p].at = "idle") /\ DOMAIN locks = {}
    BY DEF StatementInit, Clear
<1>3. \A l \in listing, s \in Parts : entry[<<l, s>>] = "none"
    BY <1>1, LinesType DEF StatementInit, StInv
<1>4. \A l \in listing : EntryOK(l) /\ BankLockOK(l)
    BY <1>2, <1>3 DEF EntryOK, BankLockOK, Parts
<1> QED BY <1>1, <1>2, <1>4 DEF PayInv

(* Steps that book nothing and carry no line anywhere.                     *)
LEMMA PayQuiet ==
    ASSUME PayInv, StInv', UNCHANGED <<listing, locks, entry, gaveUp>>, conn'.live = conn.live,
           \A c \in Charges : charge[c] = "posted" => charge'[c] = "posted",
           \A q \in Syncs : Still(q) \/ sync'[q].at \notin {"lock", "post", "linked"}
    PROVE  PayInv'
<1>1. PayKept
    BY DEF PayKept
<1>2. \A l \in listing : EntryOK(l)' /\ BankLockOK(l)'
    BY <1>1, BooksFrame
<1>3. PICK P : P = {q \in Syncs : ~Still(q)}
    OBVIOUS
<1> QED BY <1>1, <1>2, <1>3, PayMove

LEMMA PayWorld ==
    ASSUME PayInv, StInv',
           NextDay \/ (\E l \in Lines : Composes(l)) \/ (\E c \in Charges : SettleCharge(c)) \/ LockExpires
           \/ Disconnect \/ Reconnect
    PROVE  PayInv'
<1>1. \A q \in Syncs : Still(q) \/ sync'[q].at \notin {"lock", "post", "linked"}
    <2>1. CASE sync' = sync
        BY <2>1 DEF Still
    <2>2. CASE LockExpires
        BY <2>2 DEF LockExpires, Still, Clear, PayInv, StInv, StTypeOK
    <2>3. CASE Disconnect
        <3>1. ASSUME NEW q \in Syncs, sync[q].at # "idle" PROVE Still(q)
            <4>1. sync'[q] = [sync[q] EXCEPT !.fresh = FALSE] /\ sync[q] \in Busies
                BY <2>3, <3>1, BusyType DEF Disconnect, Out, PayInv, StInv
            <4> QED BY <4>1, <3>1 DEF Still, Busies
        <3> QED BY <2>3, <3>1 DEF Disconnect, Out, Still
    <2> QED BY <2>1, <2>2, <2>3 DEF NextDay, Composes, SettleCharge, Reconnect
<1>2. conn'.live = conn.live
    BY DEF NextDay, Composes, SettleCharge, LockExpires, Disconnect, Reconnect, NewConn, PayInv, StInv, StTypeOK, RowSet
<1>3. \A c \in Charges : charge[c] = "posted" => charge'[c] = "posted"
    <2>1. CASE charge' = charge
        BY <2>1
    <2>2. ASSUME NEW d \in Charges, SettleCharge(d) PROVE \A c \in Charges : charge[c] = "posted" => charge'[c] = "posted"
        BY <2>2 DEF SettleCharge, PayInv, StInv, StTypeOK
    <2> QED BY <2>1, <2>2 DEF NextDay, Composes, LockExpires, Disconnect, Reconnect
<1>4. UNCHANGED <<listing, locks, entry, gaveUp>>
    BY DEF NextDay, Composes, SettleCharge, LockExpires, Disconnect, Reconnect
<1> QED BY <1>1, <1>2, <1>3, <1>4, PayQuiet

LEMMA PaySave ==
    ASSUME PayInv, StInv', NEW p \in Syncs, SaveSync(p) \/ RecordOutcome(p) \/ SyncNow(p)
    PROVE  PayInv'
<1>0. \A q \in Syncs : sync[q].at # "idle" => sync[q] \in Busies /\ SyncOK(sync[q])
    BY BusyType DEF PayInv, StInv
<1>1. \A q \in Syncs : Still(q) \/ sync'[q].at \notin {"lock", "post", "linked"}
    <2>1. CASE SyncNow(p)
        <3>1. ASSUME NEW q \in Syncs, sync[q].at # "idle" PROVE Still(q)
            BY <2>1, <3>1, <1>0 DEF SyncNow, Out, Still, Busies
        <3> QED BY <2>1, <3>1 DEF SyncNow, Out, Still
    <2>2. CASE Saved(p, sync[p].row)
        <3>1. ASSUME NEW q \in Syncs, sync[q].at # "idle", q # p PROVE Still(q)
            BY <2>2, <3>1, <1>0 DEF Saved, Out, Still, Busies
        <3> QED BY <2>2, <3>1 DEF Saved, Out, Still, Clear
    <2>3. CASE Step(p, Clear(p))
        BY <2>3 DEF Step, Clear, Still, PayInv, StInv, StTypeOK
    <2> QED BY <2>1, <2>2, <2>3 DEF SaveSync, RecordOutcome
<1>2. conn'.live = conn.live
    <2>1. CASE conn' = conn
        BY <2>1
    <2>2. CASE Saved(p, sync[p].row) /\ sync[p].at # "idle"
        BY <2>2, <1>0 DEF Saved, SyncOK, ConnOK
    <2> QED BY <2>1, <2>2 DEF SaveSync, RecordOutcome, SyncNow, Out
<1>4. UNCHANGED <<listing, locks, entry, gaveUp, charge>>
    BY DEF SaveSync, RecordOutcome, SyncNow
<1> QED BY <1>1, <1>2, <1>4, PayQuiet

LEMMA PayWindows ==
    ASSUME PayInv, StInv', NEW p \in Syncs,
           ReadConnection(p) \/ Acquire(p) \/ WindowRefused(p) \/ WindowDone(p) \/ PostOpeningOfBank(p)
    PROVE  PayInv'
<1>1. PICK r : sync' = [sync EXCEPT ![p] = r] /\ r.at \notin {"lock", "post", "linked"}
    <2>1. CASE ReadConnection(p)
        <3> DEFINE r == [at |-> "read", row |-> conn, fresh |-> TRUE, today |-> bankDay, todo |-> {},
                         window |-> "none", from |-> 0, line |-> NoLine]
        <3>1. sync' = [sync EXCEPT ![p] = r] /\ r.at = "read"
            BY <2>1 DEF ReadConnection, Step
        <3> HIDE DEF r
        <3> QED BY <3>1
    <2>0. ASSUME NEW s \in Busies PROVE Recent(s).at = "lines" /\ \A refused \in BOOLEAN : FinishBackfill(s, refused).at \in {"lines", "opening"}
        BY DEF Recent, FinishBackfill, Busies
    <2>2. sync[p].at # "idle" => sync[p] \in Busies
        BY BusyType DEF PayInv, StInv
    <2>3. CASE Acquire(p)
        <3>1. sync[p] \in Busies
            BY <2>2, <2>3 DEF Acquire, Out
        <3>2. Backfill(sync[p]).at \in {"lines", "opening"}
            BY <3>1, <2>0 DEF Backfill, Busies
        <3> QED BY <2>3, <3>1, <3>2, <2>0 DEF Acquire, Step, Clear
    <2>4. CASE WindowRefused(p)
        BY <2>4, <2>0, <2>2 DEF WindowRefused, Out, Step
    <2>5. CASE PostOpeningOfBank(p)
        BY <2>5, <2>0, <2>2 DEF PostOpeningOfBank, Out, Step
    <2>6. CASE WindowDone(p)
        <3>1. sync[p] \in Busies
            BY <2>2, <2>6 DEF WindowDone, Out
        <3>2. [sync[p] EXCEPT !.row.from = sync[p].from] \in Busies /\ [sync[p] EXCEPT !.at = "balance"].at = "balance"
            BY <3>1 DEF Busies, RowSet
        <3>3. Read(p).at \in {"balance", "lines", "opening"}
            BY <3>2, <2>0 DEF Read
        <3> QED BY <2>6, <3>3 DEF WindowDone, Step
    <2> QED BY <2>1, <2>3, <2>4, <2>5, <2>6
<1>2. \A q \in Syncs : Still(q) \/ sync'[q].at \notin {"lock", "post", "linked"}
    BY <1>1 DEF Still, PayInv, StInv, StTypeOK
<1>3. UNCHANGED <<listing, locks, entry, gaveUp, conn, charge>>
    BY DEF ReadConnection, Acquire, WindowRefused, WindowDone, PostOpeningOfBank
<1> QED BY <1>2, <1>3, PayQuiet

LEMMA LockKeyFacts ==
    ASSUME NEW l, NEW k, NEW s, NEW u
    PROVE  /\ LockKey(l, s) # ContentKey(k, u)
           /\ LockKey(l, s) = LockKey(k, u) => l.id = k.id /\ s = u
           /\ ContentKey(l, s) = ContentKey(k, u) => l.id = k.id /\ s = u
           /\ l.id = k.id => LockKey(l, s) = LockKey(k, s)
           /\ Content(l, Whole) = Content(k, Whole) => l.day = k.day /\ l.amount = k.amount
<1>1. {} # {Content(k, u)}
    OBVIOUS
<1>2. LockKey(l, s) # ContentKey(k, u)
    BY <1>1 DEF LockKey, ContentKey
<1>3. LockKey(l, s) = LockKey(k, u) => l.id = k.id /\ s = u
    BY DEF LockKey
<1>4. ContentKey(l, s) = ContentKey(k, u) => l.id = k.id /\ s = u
    BY DEF ContentKey
<1>5. l.id = k.id => LockKey(l, s) = LockKey(k, s)
    BY DEF LockKey
<1>6. Content(l, Whole) = Content(k, Whole) => l.day = k.day /\ l.amount = k.amount
    BY DEF Content
<1> QED BY <1>2, <1>3, <1>4, <1>5, <1>6

LEMMA LineIsItsContent ==
    ASSUME StTypeOK, NEW l \in listing, NEW k \in listing, LockKey(l, Whole) = LockKey(k, Whole),
           Content(l, Whole) = Content(k, Whole)
    PROVE  l = k
BY LockKeyFacts, StatementAssumption DEF StTypeOK

LEMMA PayPeople ==
    ASSUME PayInv, StInv', \E l \in Lines : DiscardBankLine(l) \/ \E part \in Parts : Classify(<<l, part>>)
    PROVE  PayInv'
<1>0. PICK k \in Lines : DiscardBankLine(k) \/ \E part \in Parts : Classify(<<k, part>>)
    OBVIOUS
<1>1. UNCHANGED <<listing, conn, charge, locks, sync, gaveUp>>
    BY <1>0 DEF DiscardBankLine, Classify
<1>2. \A l \in listing, s \in Parts :
          \/ entry'[<<l, s>>] = entry[<<l, s>>]
          \/ entry[<<l, s>>] = "pending" /\ entry'[<<l, s>>] = "classified"
          \/ entry[<<l, s>>] = "pending" /\ entry'[<<l, s>>] = "discarded" /\ s = Whole /\ Duplicate(l)
    <2>1. listing \subseteq Lines /\ entry \in [Lines \X Parts -> {"none", "pending", "classified", "discarded", "twice"}]
        BY LinesType DEF PayInv, StInv, StTypeOK
    <2>2. CASE DiscardBankLine(k)
        BY <2>1, <2>2 DEF DiscardBankLine, Parts
    <2>3. ASSUME NEW part \in Parts, Classify(<<k, part>>)
          PROVE  \A l \in listing, s \in Parts :
                     \/ entry'[<<l, s>>] = entry[<<l, s>>]
                     \/ entry[<<l, s>>] = "pending" /\ entry'[<<l, s>>] = "classified"
        BY <2>1, <2>3 DEF Classify
    <2> QED BY <1>0, <2>2, <2>3
<1>3. PayKept
    BY <1>1, <1>2 DEF PayKept
<1>4. ASSUME NEW l \in listing PROVE EntryOK(l)' /\ BankLockOK(l)'
    <2>1. EntryOK(l) /\ BankLockOK(l)
        BY DEF PayInv
    <2>2. (Duplicate(l) => Duplicate(l)') /\ (Settled(l) => Settled(l)') /\ (\A s \in Parts : Held(l, s) => Held(l, s)')
        BY PayFacts, <1>3
    <2>3. Whole \in Parts /\ Excess \in Parts /\ Whole # Excess
        BY DEF Parts, Whole, Excess
    <2>4. EntryOK(l)'
        BY <1>1, <1>2, <2>1, <2>2, <2>3 DEF EntryOK, Own, Overpays, Linkable, PaysFor
    <2>5. BankLockOK(l)'
        BY <1>1, <1>2, <2>1, <2>2, <2>3 DEF BankLockOK, PartsOf, Overpays, Linkable, PaysFor, LockKey, ContentKey, Content
    <2> QED BY <2>4, <2>5
<1>5. \A q \in Syncs : Still(q)
    BY <1>1 DEF Still
<1>6. PICK P : P = {}
    OBVIOUS
<1> QED BY <1>3, <1>4, <1>5, <1>6, PayMove

LEMMA PayTakeLine ==
    ASSUME PayInv, StInv', NEW p \in Syncs, NEW l \in Lines, TakeLine(p, l)
    PROVE  PayInv'
<1>0. /\ sync[p].at = "lines" /\ l \in sync[p].todo /\ UNCHANGED <<listing, conn, locks, entry>>
    BY DEF TakeLine, Out
<1>1. sync[p] \in Busies /\ l \in listing /\ sync[p].row.live = conn.live /\ charge \in [Charges -> {"pending", "succeeded", "posted"}]
    BY <1>0, BusyType DEF PayInv, StInv, SyncOK, ConnOK, WindowOK, Midway, StTypeOK
<1>2. gaveUp \subseteq gaveUp'
    BY DEF TakeLine, Link
<1>3. \A c \in Charges : charge[c] = "posted" => charge'[c] = "posted"
    <2>1. CASE charge' = charge
        BY <2>1
    <2>2. CASE Linkable(l) /\ Link(p, l)
        BY <1>1, <2>2 DEF Linkable, Link, Asked
    <2> QED BY <2>1, <2>2 DEF TakeLine
<1>4. PayKept
    BY <1>0, <1>2, <1>3 DEF PayKept
<1>5. \/ LineDone(p, l)
      \/ Posting(p, l, Excess) /\ Overpays(l) /\ charge'[l.ref] = "posted"
      \/ Carrying(p, "linked", l, Whole) /\ Linkable(l) /\ PaysFor(l) /\ charge'[l.ref] = "posted" /\ ~Overpays(l)
      \/ Posting(p, l, Whole) /\ (conn.live \/ Own(l)) /\ (l \in gaveUp' \/ ~(Linkable(l) /\ PaysFor(l)))
    <2>1. CASE Linkable(l) /\ Link(p, l)
        BY <1>1, <2>1 DEF Link, Linkable, Overpays, Own
    <2>2. CASE LineDone(p, l)
        BY <2>2
    <2>3. CASE Posting(p, l, Whole) /\ ~(Linkable(l) /\ ~Bare(l)) /\ (gaveUp' = IF Bare(l) THEN gaveUp \cup {l} ELSE gaveUp)
               /\ ~(~sync[p].row.live /\ (~Own(l) \/ Bare(l)))
        BY <1>1, <2>3
    <2> QED BY <2>1, <2>2, <2>3 DEF TakeLine
<1>6. ASSUME NEW w, NEW part, Carrying(p, w, l, part)
      PROVE  /\ sync'[p].at = w /\ sync'[p].line.of = l /\ sync'[p].line.part = part /\ sync'[p].line.by = "id"
             /\ \A q \in Syncs \ {p} : sync'[q] = sync[q]
    BY <1>1, <1>6 DEF Carrying, Step, Busies, PayInv, StInv, StTypeOK
<1>7. (\A q \in Syncs \ {p} : Still(q)) /\ (sync'[p].at \in {"lock", "post", "linked"} => CarryOK(sync[p])')
    <2>1. CASE LineDone(p, l)
        BY <1>1, <2>1 DEF LineDone, Step, Busies, Still, PayInv, StInv, StTypeOK
    <2>2. CASE Posting(p, l, Excess) /\ Overpays(l) /\ charge'[l.ref] = "posted"
        BY <1>6, <2>2 DEF Posting, Still, CarryOK, Overpays, Duplicate, Linkable, PaysFor, Own, Whole, Excess
    <2>3. CASE Carrying(p, "linked", l, Whole) /\ Linkable(l) /\ PaysFor(l) /\ charge'[l.ref] = "posted" /\ ~Overpays(l)
        BY <1>6, <2>3 DEF Still, CarryOK, Settled, Overpays, Duplicate, Linkable, PaysFor
    <2>4. CASE Posting(p, l, Whole) /\ (conn.live \/ Own(l)) /\ (l \in gaveUp' \/ ~(Linkable(l) /\ PaysFor(l)))
        BY <1>0, <1>6, <2>4 DEF Posting, Still, CarryOK, Overpays, Duplicate, Linkable, PaysFor, Own, Whole, Excess
    <2> QED BY <1>5, <2>1, <2>2, <2>3, <2>4
<1>8. \A k \in listing : EntryOK(k)' /\ BankLockOK(k)'
    BY <1>0, <1>4, BooksFrame
<1>9. PICK P : P = {p}
    OBVIOUS
<1> QED BY <1>4, <1>7, <1>8, <1>9, PayMove

(* Where a posting goes on to, with what it must know there.               *)
LEMMA PayOnward ==
    ASSUME PayInv, PayKept, StInv', NEW p \in Syncs, sync[p].at \in {"lock", "post"}, Onward(p),
           \A k \in listing : EntryOK(k)' /\ BankLockOK(k)',
           NEW l, l = sync[p].line.of, sync[p].line.part = Excess => Settled(l)'
    PROVE  PayInv'
<1>0. sync[p] \in Busies /\ sync[p].line \in Cargo
    BY BusyType, CarriesListed DEF PayInv, StInv
<1>1. \A q \in Syncs \ {p} : Still(q)
    BY DEF Onward, LineDone, Step, Still, PayInv, StInv, StTypeOK
<1>2. sync'[p].at \in {"lock", "post", "linked"} => CarryOK(sync[p])'
    <2>1. CASE sync[p].line.part = Excess
        <3>1. sync'[p].at = "linked" /\ sync'[p].line = sync[p].line
            BY <1>0, <2>1 DEF Onward, Step, Busies, PayInv, StInv, StTypeOK
        <3> QED BY <3>1, <2>1 DEF CarryOK
    <2>2. CASE sync[p].line.part # Excess
        <3>1. sync'[p] = [sync[p] EXCEPT !.todo = sync[p].todo \ {l}, !.at = "lines", !.line = NoLine]
            BY <2>2 DEF Onward, LineDone, Step, PayInv, StInv, StTypeOK
        <3>2. sync'[p].at = "lines"
            BY <1>0, <3>1 DEF Busies
        <3> QED BY <3>2
    <2> QED BY <2>1, <2>2
<1>3. PICK P : P = {p}
    OBVIOUS
<1> QED BY <1>1, <1>2, <1>3, PayMove

LEMMA PayReadLock ==
    ASSUME PayInv, StInv', NEW p \in Syncs, ReadLock(p)
    PROVE  PayInv'
<1>0. sync[p].at = "lock" /\ UNCHANGED <<listing, conn, charge, locks, entry, gaveUp>>
    BY DEF ReadLock, Out
<1>1. PICK l, s : l = sync[p].line.of /\ s = sync[p].line.part
    OBVIOUS
<1>2. sync[p] \in Busies /\ sync[p].line \in Cargo /\ l \in listing /\ s \in Parts /\ CarryOK(sync[p])
    BY <1>0, <1>1, BusyType, CarriesListed DEF PayInv, StInv
<1>3. PayKept
    BY <1>0 DEF PayKept
<1>4. \A k \in listing : EntryOK(k)' /\ BankLockOK(k)'
    BY <1>0, <1>3, BooksFrame
<1>5. CASE Held(l, s)
    <2>1. s = Excess => Settled(l)'
        <3>1. s = Excess => Settled(l)
            BY <1>0, <1>1, <1>2, <1>5 DEF CarryOK, PayInv, BankLockOK, Held, Settled
        <3> QED BY <3>1, <1>2, <1>3, PayFacts
    <2>2. Onward(p)
        BY <1>1, <1>5 DEF ReadLock
    <2> QED BY <1>0, <1>1, <1>3, <1>4, <2>1, <2>2, PayOnward
<1>6. CASE ~Held(l, s)
    <2>1. PICK by : by = IF LockKey(l, s) \in DOMAIN locks THEN "content" ELSE "id"
        OBVIOUS
    <2>2. sync' = [sync EXCEPT ![p] = [sync[p] EXCEPT !.at = "post", !.line = [sync[p].line EXCEPT !.by = by]]]
        BY <1>1, <1>6, <2>1 DEF ReadLock, Step
    <2>3. /\ sync'[p].at = "post" /\ sync'[p].line.of = l /\ sync'[p].line.part = s /\ sync'[p].line.by = by
          /\ \A q \in Syncs \ {p} : sync'[q] = sync[q]
        BY <1>1, <1>2, <2>2 DEF Busies, Cargo, PayInv, StInv, StTypeOK
    <2>4. by = "content" => LockKey(l, s) \in DOMAIN locks /\ locks[LockKey(l, s)] # Content(l, s)
        BY <1>6, <2>1 DEF Held
    <2>5. /\ conn.live \/ Own(l)
          /\ s = Excess => Overpays(l) /\ Duplicate(l)
          /\ s = Whole => l \in gaveUp \/ ~(Linkable(l) /\ PaysFor(l))
        BY <1>0, <1>1, <1>2 DEF CarryOK
    <2>6. CarryOK(sync[p])'
        BY <1>0, <2>3, <2>4, <2>5 DEF CarryOK, Own, Overpays, Duplicate, Linkable, PaysFor, LockKey, Content
    <2>7. \A q \in Syncs \ {p} : Still(q)
        BY <2>3 DEF Still
    <2>8. PICK P : P = {p}
        OBVIOUS
    <2> QED BY <1>3, <1>4, <2>6, <2>7, <2>8, PayMove
<1> QED BY <1>5, <1>6

LEMMA PayLink ==
    ASSUME PayInv, StInv', NEW p \in Syncs, LinkBankLine(p)
    PROVE  PayInv'
<1>0. sync[p].at = "linked" /\ UNCHANGED <<listing, conn, charge, entry, gaveUp>>
    BY DEF LinkBankLine, Out
<1>1. PICK l : l = sync[p].line.of
    OBVIOUS
<1>2. sync[p] \in Busies /\ l \in listing /\ Settled(l) /\ LineDone(p, l)
    BY <1>0, <1>1, BusyType, CarriesListed DEF PayInv, StInv, CarryOK, LinkBankLine
<1>3. locks' = locks \/ (LockKey(l, Whole) \notin DOMAIN locks /\ Locked(LockKey(l, Whole), Content(l, Whole)))
    BY <1>1 DEF LinkBankLine
<1>4. PayKept
    BY <1>0, <1>3 DEF PayKept, Locked
<1>5. ASSUME NEW k \in listing PROVE EntryOK(k)' /\ BankLockOK(k)'
    <2>1. CASE locks' = locks
        BY <1>0, <1>4, <2>1, BooksFrame
    <2>2. CASE Locked(LockKey(l, Whole), Content(l, Whole))
        <3>1. EntryOK(k) /\ BankLockOK(k)
            BY DEF PayInv
        <3>2. (Duplicate(k) => Duplicate(k)') /\ (Settled(k) => Settled(k)') /\ (\A s \in Parts : Held(k, s) => Held(k, s)')
            BY PayFacts, <1>4
        <3>3. EntryOK(k)'
            BY <1>0, <3>1, <3>2 DEF EntryOK, Own, Overpays, Linkable, PaysFor
        <3>4. \A s \in Parts : ContentKey(k, s) \in DOMAIN locks' => ContentKey(k, s) \in DOMAIN locks
            BY <2>2, LockKeyFacts DEF Locked
        <3>5. LockKey(k, Excess) \in DOMAIN locks' => LockKey(k, Excess) \in DOMAIN locks
            BY <2>2, LockKeyFacts DEF Locked, Whole, Excess
        <3>6. LockKey(k, Whole) \in DOMAIN locks' /\ locks'[LockKey(k, Whole)] = Content(k, Whole) /\ k \notin gaveUp
                 => entry[<<k, Whole>>] # "none" \/ Settled(k)
            <4>1. CASE LockKey(k, Whole) = LockKey(l, Whole)
                <5>1. locks'[LockKey(k, Whole)] = Content(l, Whole)
                    BY <2>2, <4>1 DEF Locked
                <5> QED BY <5>1, <4>1, <1>2, LineIsItsContent DEF PayInv, StInv
            <4>2. CASE LockKey(k, Whole) # LockKey(l, Whole)
                BY <2>2, <4>2, <3>1 DEF Locked, BankLockOK
            <4> QED BY <4>1, <4>2
        <3>7. \A s \in Parts : LockKey(k, s) \in DOMAIN locks => LockKey(k, s) \in DOMAIN locks'
            BY <1>4 DEF PayKept
        <3>8. BankLockOK(k)'
            BY <1>0, <3>1, <3>2, <3>4, <3>5, <3>6, <3>7
               DEF BankLockOK, PartsOf, Parts, Overpays, Linkable, PaysFor, LockKey, ContentKey, Content
        <3> QED BY <3>3, <3>8
    <2> QED BY <1>3, <2>1, <2>2
<1>6. (\A q \in Syncs \ {p} : Still(q)) /\ sync'[p].at = "lines"
    BY <1>2 DEF LineDone, Step, Busies, Still, PayInv, StInv, StTypeOK
<1>7. PICK P : P = {p}
    OBVIOUS
<1> QED BY <1>4, <1>5, <1>6, <1>7, PayMove

LEMMA PayPost ==
    ASSUME PayInv, StInv', ExcessIdsDiffer, NEW p \in Syncs, PostBankLine(p)
    PROVE  PayInv'
<1>0. sync[p].at = "post" /\ Onward(p) /\ UNCHANGED <<listing, conn, charge, gaveUp>>
    BY DEF PostBankLine, Out
<1>1. PICK k, s, key : k = sync[p].line.of /\ s = sync[p].line.part /\ key = PostKey(sync[p].line)
    OBVIOUS
<1>2. /\ sync[p] \in Busies /\ sync[p].line \in Cargo /\ k \in listing /\ k \in Lines /\ s \in Parts
      /\ CarryOK(sync[p]) /\ EntryOK(k) /\ BankLockOK(k)
      /\ entry \in [Lines \X Parts -> {"none", "pending", "classified", "discarded", "twice"}]
    BY <1>0, <1>1, BusyType, CarriesListed DEF PayInv, StInv, StTypeOK
<1>3. /\ conn.live \/ Own(k)
      /\ s = Excess => Overpays(k) /\ Duplicate(k)
      /\ s = Whole => k \in gaveUp \/ ~(Linkable(k) /\ PaysFor(k))
    BY <1>0, <1>1, <1>2 DEF CarryOK
<1>4. \/ key = LockKey(k, s)
      \/ key = ContentKey(k, s) /\ LockKey(k, s) \in DOMAIN locks /\ locks[LockKey(k, s)] # Content(k, s)
    BY <1>0, <1>1, <1>2 DEF CarryOK, PostKey, Cargo
<1>5. Whole \in Parts /\ Excess \in Parts /\ Whole # Excess
    BY DEF Parts, Whole, Excess
<1>6. CASE key \in DOMAIN locks
    <2>1. locks' = locks /\ entry' = entry
        BY <1>1, <1>6 DEF PostBankLine
    <2>2. PayKept
        BY <1>0, <2>1 DEF PayKept
    <2>3. \A l \in listing : EntryOK(l)' /\ BankLockOK(l)'
        BY <2>1, <2>2, BooksFrame
    <2>4. s = Excess => Settled(k)
        BY <1>2, <1>3, <1>4, <1>5, <1>6 DEF BankLockOK, PartsOf, Settled
    <2>5. s = Excess => Settled(k)'
        BY <2>2, <2>4, <1>2, PayFacts
    <2> QED BY <1>0, <1>1, <2>2, <2>3, <2>5, PayOnward
<1>7. CASE key \notin DOMAIN locks
    <2>1. Locked(key, Content(k, s)) /\ entry' = [entry EXCEPT ![<<k, s>>] = IF entry[<<k, s>>] = "none" THEN "pending" ELSE "twice"]
        BY <1>1, <1>7 DEF PostBankLine
    <2>2. entry[<<k, s>>] = "none"
        BY <1>2, <1>4, <1>7 DEF EntryOK, Held
    <2>3. /\ entry'[<<k, s>>] = "pending"
          /\ \A l \in listing, u \in Parts : (l # k \/ u # s) => entry'[<<l, u>>] = entry[<<l, u>>]
        <3>1. listing \subseteq Lines
            BY LinesType DEF PayInv, StInv
        <3> QED BY <1>2, <2>1, <2>2, <3>1
    <2>4. /\ DOMAIN locks' = DOMAIN locks \cup {key} /\ locks'[key] = Content(k, s)
          /\ \A x \in DOMAIN locks : locks'[x] = locks[x]
        BY <2>1, <1>7 DEF Locked
    <2>5. PayKept
        BY <1>0, <2>3, <2>4 DEF PayKept
    <2>6. ASSUME NEW l \in listing PROVE EntryOK(l)' /\ BankLockOK(l)'
        <3>1. EntryOK(l) /\ BankLockOK(l)
            BY DEF PayInv
        <3>2. (Duplicate(l) => Duplicate(l)') /\ (Settled(l) => Settled(l)') /\ (\A u \in Parts : Held(l, u) => Held(l, u)')
            BY PayFacts, <2>5
        <3>3. Held(k, s)'
            BY <1>2, <1>4, <2>4 DEF Held, LockKey, ContentKey, Content
        <3>4. \A u \in Parts : entry'[<<l, u>>] # "none" => Held(l, u)' /\ entry'[<<l, u>>] # "twice" /\ (conn.live \/ Own(l))
            BY <1>3, <2>3, <3>1, <3>2, <3>3 DEF EntryOK
        <3>5. entry'[<<l, Excess>>] # "none" => Overpays(l) /\ Duplicate(l) /\ entry'[<<l, Excess>>] # "discarded"
            BY <1>3, <1>5, <2>3, <3>1 DEF EntryOK
        <3>6. entry'[<<l, Whole>>] # "none" /\ l \notin gaveUp => ~(Linkable(l) /\ PaysFor(l))
            BY <1>3, <1>5, <2>3, <3>1 DEF EntryOK
        <3>7. entry'[<<l, Whole>>] = "discarded" => Duplicate(l)
            BY <1>5, <2>3, <3>1 DEF EntryOK
        <3>8. EntryOK(l)'
            BY <1>0, <3>2, <3>4, <3>5, <3>6, <3>7 DEF EntryOK, Own, Overpays, Linkable, PaysFor
        <3>9. \A u \in PartsOf(l) : ContentKey(l, u) \in DOMAIN locks' => LockKey(l, u) \in DOMAIN locks'
            BY <1>4, <2>4, <3>1, LockKeyFacts DEF BankLockOK
        <3>10. Overpays(l) /\ LockKey(l, Excess) \in DOMAIN locks' => entry'[<<l, Excess>>] # "none"
            <4> SUFFICES ASSUME Overpays(l), LockKey(l, Excess) \in DOMAIN locks' PROVE entry'[<<l, Excess>>] # "none"
                OBVIOUS
            <4>1. CASE LockKey(l, Excess) \in DOMAIN locks
                BY <4>1, <3>1, <2>3, <1>5 DEF BankLockOK
            <4>2. CASE LockKey(l, Excess) = key
                <5>1. s = Excess /\ l.id = k.id
                    BY <4>2, <1>4, LockKeyFacts
                <5>2. l = k
                    BY <5>1, <1>2, <1>3 DEF ExcessIdsDiffer, PayInv, StInv, StTypeOK
                <5> QED BY <5>1, <5>2, <2>3
            <4> QED BY <4>1, <4>2, <2>4
        <3>11. LockKey(l, Whole) \in DOMAIN locks' /\ locks'[LockKey(l, Whole)] = Content(l, Whole) /\ l \notin gaveUp
                 => entry'[<<l, Whole>>] # "none" \/ Settled(l)
            <4>1. CASE LockKey(l, Whole) = key
                <5>1. s = Whole /\ LockKey(l, Whole) = LockKey(k, Whole)
                    BY <4>1, <1>4, LockKeyFacts
                <5>2. locks'[LockKey(l, Whole)] = Content(l, Whole) => l = k
                    BY <5>1, <4>1, <2>4, <1>2, LineIsItsContent DEF PayInv, StInv
                <5> QED BY <5>1, <5>2, <2>3
            <4>2. CASE LockKey(l, Whole) # key
                BY <4>2, <2>3, <2>4, <3>1, <1>5 DEF BankLockOK
            <4> QED BY <4>1, <4>2
        <3>12. BankLockOK(l)'
            BY <1>0, <3>2, <3>9, <3>10, <3>11 DEF BankLockOK, PartsOf, Overpays, Linkable, PaysFor, LockKey, ContentKey, Content
        <3> QED BY <3>8, <3>12
    <2>7. s = Excess => Settled(k)'
        <3>1. s = Excess => Duplicate(k)'
            BY <1>2, <1>3, <2>5, PayFacts
        <3> QED BY <3>1, <2>3 DEF Settled
    <2> QED BY <1>0, <1>1, <2>5, <2>6, <2>7, PayOnward
<1> QED BY <1>6, <1>7

LEMMA PayInvStep == ExcessIdsDiffer /\ PayInv /\ [StatementNext]_stVars => PayInv'
<1> SUFFICES ASSUME ExcessIdsDiffer, PayInv, [StatementNext]_stVars PROVE PayInv'
    OBVIOUS
<1>0. StInv'
    BY StInvStep DEF PayInv
<1>1. CASE NextDay \/ (\E l \in Lines : Composes(l)) \/ (\E c \in Charges : SettleCharge(c)) \/ LockExpires \/ Disconnect \/ Reconnect
    BY <1>0, <1>1, PayWorld
<1>2. CASE \E l \in Lines : DiscardBankLine(l) \/ \E part \in Parts : Classify(<<l, part>>)
    BY <1>0, <1>2, PayPeople
<1>3. ASSUME NEW p \in Syncs, SyncStep(p) PROVE PayInv'
    <2>1. CASE SaveSync(p) \/ RecordOutcome(p) \/ SyncNow(p)
        BY <1>0, <2>1, PaySave
    <2>2. CASE ReadConnection(p) \/ Acquire(p) \/ WindowRefused(p) \/ WindowDone(p) \/ PostOpeningOfBank(p)
        BY <1>0, <2>2, PayWindows
    <2>3. CASE LinkBankLine(p) \/ ReadLock(p) \/ PostBankLine(p) \/ \E l \in Lines : TakeLine(p, l)
        BY <1>0, <2>3, PayLink, PayReadLock, PayPost, PayTakeLine
    <2> QED BY <1>3, <2>1, <2>2, <2>3 DEF SyncStep
<1>4. CASE UNCHANGED stVars
    BY <1>0, <1>4, PayQuiet DEF stVars, Still
<1> QED BY <1>1, <1>2, <1>3, <1>4 DEF StatementNext

LEMMA BookedToTheCent ==
    ASSUME PayInv
    PROVE  PaymentInBooksOnce
<1> SUFFICES ASSUME NEW l \in listing
             PROVE  /\ Shown(l) <= l.amount \/ l \in gaveUp
                    /\ (LockKey(l, Whole) \in DOMAIN locks /\ locks[LockKey(l, Whole)] = Content(l, Whole) /\ l \notin gaveUp)
                         => Shown(l) = l.amount
                    /\ (\E part \in Parts : InBooks(l, part)) => conn.live \/ Own(l)
    BY DEF PaymentInBooksOnce
<1>1. EntryOK(l) /\ BankLockOK(l) /\ l.amount \in Nat /\ Whole \in Parts /\ Excess \in Parts
    BY LinesType DEF PayInv, StInv, Parts
<1>2. \A part \in Parts : entry[<<l, part>>] \in {"none", "pending", "classified", "discarded", "twice"}
    BY LinesType DEF PayInv, StInv, StTypeOK
<1>3. Duplicate(l) => OwedOn[l.ref] \in Nat /\ OwedOn[l.ref] <= l.amount
    BY StatementAssumption DEF Duplicate, Linkable, PaysFor, PayInv, StInv, StTypeOK
<1>4. \A part \in Parts : Times(l, part) = 0 \/ (Times(l, part) = 1 /\ entry[<<l, part>>] # "none")
    BY <1>1, <1>2 DEF Times, EntryOK
<1>5. (\E part \in Parts : InBooks(l, part)) => conn.live \/ Own(l)
    <2> SUFFICES ASSUME NEW part \in Parts, Times(l, part) > 0 PROVE conn.live \/ Own(l)
        BY DEF InBooks
    <2>1. entry[<<l, part>>] # "none"
        BY <1>4
    <2> QED BY <1>1, <2>1 DEF EntryOK
<1>6. ASSUME l \notin gaveUp
      PROVE  /\ Shown(l) <= l.amount
             /\ (LockKey(l, Whole) \in DOMAIN locks /\ locks[LockKey(l, Whole)] = Content(l, Whole)) => Shown(l) = l.amount
    <2>1. CASE entry[<<l, Whole>>] # "none"
        <3>1. ~(Linkable(l) /\ PaysFor(l)) /\ ~Duplicate(l) /\ entry[<<l, Excess>>] = "none" /\ entry[<<l, Whole>>] \notin {"none", "twice", "discarded"}
            BY <1>1, <1>6, <2>1 DEF EntryOK, Duplicate, Overpays
        <3>2. Times(l, Whole) = 1 /\ Times(l, Excess) = 0
            BY <3>1, <1>1, <1>2 DEF Times
        <3> QED BY <3>1, <3>2, <1>1 DEF Shown, InBooks
    <2>2. CASE entry[<<l, Whole>>] = "none" /\ entry[<<l, Excess>>] # "none"
        <3>1. Duplicate(l) /\ entry[<<l, Excess>>] \notin {"none", "twice", "discarded"}
            BY <1>1, <2>2 DEF EntryOK
        <3>2. Times(l, Whole) = 0 /\ Times(l, Excess) = 1
            BY <3>1, <2>2, <1>1, <1>2 DEF Times
        <3> QED BY <3>1, <3>2, <1>1, <1>3 DEF Shown, InBooks
    <2>3. CASE entry[<<l, Whole>>] = "none" /\ entry[<<l, Excess>>] = "none"
        <3>1. Times(l, Whole) = 0 /\ Times(l, Excess) = 0
            BY <2>3 DEF Times
        <3>2. Shown(l) = IF Duplicate(l) THEN OwedOn[l.ref] ELSE 0
            BY <3>1, <1>1, <1>3 DEF Shown, InBooks
        <3>3. Shown(l) <= l.amount
            BY <3>2, <1>1, <1>3
        <3>4. ASSUME LockKey(l, Whole) \in DOMAIN locks, locks[LockKey(l, Whole)] = Content(l, Whole) PROVE Shown(l) = l.amount
            <4>1. Duplicate(l) /\ ~Overpays(l)
                BY <3>4, <1>1, <1>6, <2>3 DEF BankLockOK, Settled
            <4>2. ~(l.amount > OwedOn[l.ref])
                BY <4>1 DEF Duplicate, Overpays
            <4> QED BY <4>1, <4>2, <3>2, <1>1, <1>3
        <3> QED BY <3>3, <3>4
    <2> QED BY <2>1, <2>2, <2>3
<1> QED BY <1>5, <1>6

(* A payment is in the account once and to the cent, for any statement,    *)
(* syncs that overlap under an expired lock, ids the bank reuses and       *)
(* connections made again, unless the bank gives one id to two payments    *)
(* above their charges.                                                    *)
THEOREM PaymentsAreInBooksOnce ==
    ASSUME ExcessIdsDiffer
    PROVE  StatementSpec => []PaymentInBooksOnce
<1>1. PayInv /\ [StatementNext]_stVars => PayInv'
    BY PayInvStep
<1>2. PayInv => PaymentInBooksOnce
    BY BookedToTheCent
<1> QED BY <1>1, <1>2, PayInvInit, PTL DEF StatementSpec

=============================================================================
