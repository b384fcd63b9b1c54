---------------------------- MODULE ParamCgiProofs ----------------------------
(***************************************************************************)
(* WriteParamStr never leaves the disk without a whole version of the      *)
(* parameters, but for the request after an unlucky kill, and a file that  *)
(* is there is what the tokens written so far make of the one the request  *)
(* found.                                                                  *)
(***************************************************************************)
EXTENDS ParamCgi, TLAPS, WellFoundedInduction

\* While the new file is written the old one is in its place, and what is renamed is
\* whole.
Inv ==
    /\ pc \in {"idle", "open", "copy", "rename"}
    /\ conf \in Files \cup {Missing}
    /\ todo \in Seq(Tokens) /\ (pc # "idle" => todo # <<>>)
    /\ pc = "copy" => /\ conf \in Files /\ src = conf
                      /\ new \in Seq(Values) /\ Len(new) <= Lines
    /\ pc = "rename" => new \in Files

-----------------------------------------------------------------------------
(* Files as sequences.                                                      *)

\* A sequence with a line for each parameter is a file.
LEMMA WholeIsFile ==
    ASSUME NEW s \in Seq(Values), Len(s) = Lines
    PROVE  s \in Files
    BY StoreAssumption DEF Files

\* A file is such a sequence.
LEMMA FileIsSeq ==
    ASSUME NEW f \in Files
    PROVE  f \in Seq(Values) /\ Len(f) = Lines
    BY StoreAssumption DEF Files

-----------------------------------------------------------------------------
(* The invariant.                                                           *)

LEMMA InvInit == Init => Inv
    BY DEF Init, Inv

\* A line more keeps the new file a sequence of values no longer than the old one.
LEMMA CopyLineInv == ASSUME Inv, CopyLine PROVE Inv'
<1>1. /\ pc = "copy" /\ Len(new) < Len(src) /\ UNCHANGED <<conf, pc, todo, src>>
      /\ new' = Append(new, LineOf(Head(todo), Len(new) + 1))
    BY DEF CopyLine
<1>2. /\ conf \in Files /\ src = conf /\ new \in Seq(Values)
      /\ todo \in Seq(Tokens) /\ todo # <<>>
    BY <1>1 DEF Inv
<1>3. Len(src) = Lines /\ Len(new) \in Nat /\ Lines \in Nat /\ Head(todo) \in Tokens
    BY <1>2, FileIsSeq, StoreAssumption
<1>4. LineOf(Head(todo), Len(new) + 1) \in Values
    <2>1. Len(new) + 1 \in 1 .. Lines
        BY <1>1, <1>3
    <2>2. src[Len(new) + 1] \in Values /\ Head(todo).value \in Values
        BY <1>2, <1>3, <2>1 DEF Files, Tokens
    <2> QED BY <2>2 DEF LineOf
<1>5. new' \in Seq(Values) /\ Len(new') = Len(new) + 1
    BY <1>1, <1>2, <1>4
<1>6. Len(new') <= Lines
    BY <1>1, <1>3, <1>5
<1> QED BY <1>1, <1>2, <1>5, <1>6 DEF Inv

\* The copy is complete when the old file goes.
LEMMA RemoveOldInv == ASSUME Inv, RemoveOld PROVE Inv' /\ new' \in Files
<1>1. /\ pc = "copy" /\ Len(new) = Len(src) /\ conf' = Missing /\ pc' = "rename"
      /\ UNCHANGED <<new, todo>>
    BY DEF RemoveOld, Copied
<1>2. conf \in Files /\ src = conf /\ new \in Seq(Values)
    BY <1>1 DEF Inv
<1>3. Len(new) = Lines
    BY <1>1, <1>2, FileIsSeq
<1>4. new' \in Files
    BY <1>1, <1>2, <1>3, WholeIsFile
<1>5. pc' # "copy" /\ pc' # "idle" /\ todo' \in Seq(Tokens) /\ todo' # <<>>
    BY <1>1 DEF Inv
<1> QED BY <1>1, <1>4, <1>5 DEF Inv

LEMMA RenameNewInv == ASSUME Inv, RenameNew PROVE Inv' /\ conf' \in Files
<1>1. /\ pc = "rename" /\ conf' = new /\ todo' = Tail(todo)
      /\ pc' = IF Len(todo) = 1 THEN "idle" ELSE "open"
    BY DEF RenameNew
<1>2. new \in Files /\ todo \in Seq(Tokens) /\ todo # <<>>
    BY <1>1 DEF Inv
<1>3. todo' \in Seq(Tokens) /\ (Len(todo) # 1 => todo' # <<>>)
    <2>1. Len(todo) \in Nat \ {0} /\ todo' \in Seq(Tokens) /\ Len(todo') = Len(todo) - 1
        BY <1>1, <1>2
    <2>2. Len(todo) # 1 => Len(todo') # 0
        BY <2>1
    <2>3. todo' = <<>> => Len(todo') = 0
        OBVIOUS
    <2> QED BY <2>1, <2>2, <2>3
<1>4. pc' \in {"idle", "open"} /\ (pc' # "idle" => todo' # <<>>)
    BY <1>1, <1>3
<1> QED BY <1>1, <1>2, <1>3, <1>4 DEF Inv

LEMMA OpenFilesInv == ASSUME Inv, OpenFiles PROVE Inv'
<1>1. pc = "open" /\ src' = conf /\ new' = <<>> /\ conf' = conf
    BY DEF OpenFiles, Opens
<1>2. CASE conf = Missing
    BY <1>1, <1>2 DEF Inv, OpenFiles
<1>3. CASE conf # Missing
    <2>1. pc' = "copy" /\ todo' = todo
        BY <1>3 DEF OpenFiles
    <2>2. new' \in Seq(Values) /\ Len(new') <= Lines
        BY <1>1, StoreAssumption
    <2> QED BY <1>1, <1>3, <2>1, <2>2 DEF Inv
<1> QED BY <1>2, <1>3

LEMMA InvNext == Inv /\ [Next]_vars => Inv'
<1> SUFFICES ASSUME Inv, [Next]_vars PROVE Inv'
    OBVIOUS
<1>1. ASSUME NEW r \in Requests, Update(r) PROVE Inv'
    <2>1. r \in Seq(Tokens) /\ r # <<>>
        BY StoreAssumption
    <2> QED BY <1>1, <2>1 DEF Inv, Update
<1>2. CASE Kill
    BY <1>2 DEF Inv, Kill
<1>3. CASE UNCHANGED vars
    BY <1>3 DEF Inv, vars
<1> QED BY <1>1, <1>2, <1>3, OpenFilesInv, CopyLineInv, RemoveOldInv, RenameNewInv DEF Next

-----------------------------------------------------------------------------
(* What the tokens make of the file.                                        *)

\* The files v lead from the one the request found over its first d tokens.
Chain(v, d) ==
    /\ v \in [0 .. d -> Files] /\ v[0] = base
    /\ \A k \in 1 .. d : v[k] = Written(v[k - 1], asked[k])

\* The file f is what the tokens that are done make of it.
Reached(f) == \E v : Chain(v, Done) /\ v[Done] = f

\* The old file is reached, and the new one is it with the lines of the next token, as
\* far as it is copied.
HistInv ==
    /\ asked \in Seq(Tokens) /\ Len(todo) <= Len(asked)
    /\ \A k \in 1 .. Len(todo) : todo[k] = asked[Done + k]
    /\ conf # Missing => Reached(conf)
    /\ pc = "copy" => \A k \in 1 .. Len(new) : new[k] = LineOf(Head(todo), k)
    /\ pc = "rename" => Reached(src) /\ src \in Files /\ new = Written(src, Head(todo))

LEMMA DoneNat ==
    ASSUME Inv, HistInv
    PROVE  /\ Len(todo) \in Nat /\ Len(asked) \in Nat /\ Done \in Nat
           /\ Done + Len(todo) = Len(asked)
<1>1. Len(todo) \in Nat /\ Len(asked) \in Nat /\ Len(todo) <= Len(asked)
    BY DEF Inv, HistInv
<1> QED BY <1>1 DEF Done

\* A token makes a file of a file.
LEMMA WrittenFile ==
    ASSUME NEW f \in Files, NEW t \in Tokens
    PROVE  Written(f, t) \in Files
    BY DEF Written, Files, Tokens

\* What is reached stays so while base, the tokens and their number do.
LEMMA ReachedKept ==
    ASSUME NEW f, Reached(f), Done' = Done, base' = base,
           \A k \in 1 .. Done : asked'[k] = asked[k]
    PROVE  \E v : Chain(v, Done)' /\ v[Done'] = f
<1>1. PICK v : Chain(v, Done) /\ v[Done] = f
    BY DEF Reached
<1>2. \A k \in 1 .. Done : v[k] = Written(v[k - 1], asked'[k])
    BY <1>1 DEF Chain
<1>3. v \in [0 .. Done -> Files] /\ v[0] = base
    BY <1>1 DEF Chain
<1>4. Chain(v, Done)'
    BY <1>2, <1>3 DEF Chain, Written
<1> QED BY <1>1, <1>4

\* One token more.
LEMMA ReachedNext ==
    ASSUME NEW f \in Files, Reached(f), Done \in Nat, Done' = Done + 1,
           asked' = asked, base' = base, asked[Done + 1] \in Tokens
    PROVE  \E v : Chain(v, Done)' /\ v[Done'] = Written(f, asked[Done + 1])
<1> DEFINE d == Done  g == Written(f, asked[d + 1])
<1>1. PICK v : Chain(v, d) /\ v[d] = f
    BY DEF Reached
<1>2. /\ v \in [0 .. d -> Files] /\ v[0] = base
      /\ \A k \in 1 .. d : v[k] = Written(v[k - 1], asked[k])
    BY <1>1 DEF Chain
<1>3. g \in Files
    BY WrittenFile
<1> HIDE DEF d
<1>u. PICK u : u = [k \in 0 .. d + 1 |-> IF k = d + 1 THEN g ELSE v[k]]
    OBVIOUS
<1>d. d \in Nat /\ Done' = d + 1
    BY DEF d
<1>4. /\ u[d + 1] = g /\ \A k \in 0 .. d : u[k] = v[k]
    <2> HIDE DEF g
    <2> QED BY <1>d, <1>u
<1>5. u \in [0 .. d + 1 -> Files]
    <2>1. ASSUME NEW k \in 0 .. d + 1 PROVE u[k] \in Files
        <3>1. k \in 0 .. d \/ k = d + 1
            BY <1>d
        <3> QED BY <1>2, <1>3, <1>4, <3>1
    <2> QED BY <1>u, <2>1
<1>6. ASSUME NEW k \in 1 .. d + 1 PROVE u[k] = Written(u[k - 1], asked[k])
    <2>1. CASE k \in 1 .. d
        <3>1. k \in 0 .. d /\ k - 1 \in 0 .. d
            BY <1>d, <2>1
        <3> QED BY <1>2, <1>4, <2>1, <3>1
    <2>2. CASE k = d + 1
        <3>1. k - 1 = d /\ d \in 0 .. d
            BY <1>d, <2>2
        <3> QED BY <1>1, <1>4, <2>2, <3>1
    <2> QED BY <1>d, <2>1, <2>2
<1>7. u[0] = base
    <2>1. 0 \in 0 .. d
        BY <1>d
    <2> QED BY <1>2, <1>4, <2>1
<1>8. Chain(u, d + 1)
    BY <1>5, <1>6, <1>7 DEF Chain
<1>9. Chain(u, Done)'
    BY <1>d, <1>8 DEF Chain, Written
<1> QED BY <1>4, <1>9, <1>d DEF d

LEMMA HistInit == Init => HistInv
<1> SUFFICES ASSUME Init PROVE HistInv
    OBVIOUS
<1>1. conf \in Files /\ base = conf /\ todo = <<>> /\ asked = <<>> /\ pc = "idle" /\ Done = 0
    BY DEF Init, Done
<1> DEFINE v == [k \in 0 .. 0 |-> conf]
<1>2. Chain(v, 0) /\ v[0] = conf
    BY <1>1 DEF Chain
<1> HIDE DEF v
<1>3. Reached(conf)
    BY <1>1, <1>2 DEF Reached
<1> QED BY <1>1, <1>3 DEF HistInv

LEMMA UpdateHist ==
    ASSUME Inv, HistInv, NEW r \in Requests, Update(r)
    PROVE  HistInv'
<1>1. /\ r \in Seq(Tokens) /\ todo' = r /\ asked' = r /\ base' = conf /\ conf' = conf
      /\ pc' = "open" /\ Len(r) \in Nat
    BY StoreAssumption DEF Update
<1>2. Done' = 0
    BY <1>1 DEF Done
<1>3. \A k \in 1 .. Len(r) : todo'[k] = asked'[Done' + k]
    BY <1>1, <1>2
<1>4. ASSUME conf # Missing PROVE Reached(conf)'
    <2>0. PICK v : v = [k \in 0 .. 0 |-> conf]
        OBVIOUS
    <2>1. conf \in Files
        BY <1>4 DEF Inv
    <2>2. v \in [0 .. 0 -> Files] /\ v[0] = conf
        BY <2>0, <2>1
    <2>3. Chain(v, Done)' /\ v[Done'] = conf'
        BY <1>1, <1>2, <2>2 DEF Chain
    <2> QED BY <2>3 DEF Reached
<1> QED BY <1>1, <1>3, <1>4 DEF HistInv

LEMMA OpenFilesHist == ASSUME Inv, HistInv, OpenFiles PROVE HistInv'
<1>0. /\ Len(todo) \in Nat /\ Len(asked) \in Nat /\ Done \in Nat /\ asked \in Seq(Tokens)
      /\ \A k \in 1 .. Len(todo) : todo[k] = asked[Done + k]
    BY DoneNat DEF HistInv
<1>1. new' = <<>> /\ UNCHANGED <<conf, base, asked>>
    BY DEF OpenFiles, Opens, request
<1>2. CASE conf = Missing
    <2>1. pc' = "idle" /\ todo' = <<>>
        BY <1>2 DEF OpenFiles
    <2> QED BY <1>0, <1>1, <1>2, <2>1 DEF HistInv
<1>3. CASE conf # Missing
    <2>1. pc' = "copy" /\ todo' = todo
        BY <1>3 DEF OpenFiles
    <2>2. Done' = Done
        BY <1>1, <2>1 DEF Done
    <2>3. Reached(conf)'
        BY <1>1, <1>3, <2>2, ReachedKept DEF HistInv, Reached
    <2> QED BY <1>0, <1>1, <2>1, <2>2, <2>3 DEF HistInv
<1> QED BY <1>2, <1>3

LEMMA CopyLineHist == ASSUME Inv, HistInv, CopyLine PROVE HistInv'
<1>1. /\ pc = "copy" /\ UNCHANGED <<conf, pc, todo, src, base, asked>>
      /\ new' = Append(new, LineOf(Head(todo), Len(new) + 1))
    BY DEF CopyLine, request
<1>2. new \in Seq(Values) /\ Len(new) \in Nat
    BY <1>1 DEF Inv
<1>3. Done' = Done
    BY <1>1 DEF Done
<1>4. conf # Missing => Reached(conf)'
    BY <1>1, <1>3, ReachedKept DEF HistInv, Reached
<1>5. ASSUME NEW k \in 1 .. Len(new') PROVE new'[k] = LineOf(Head(todo), k)
    <2>1. CASE k \in 1 .. Len(new)
        BY <1>1, <1>2, <2>1 DEF HistInv
    <2>2. CASE k = Len(new) + 1
        BY <1>1, <1>2, <2>2
    <2>3. Len(new') = Len(new) + 1
        BY <1>1, <1>2
    <2> QED BY <1>2, <2>1, <2>2, <2>3
<1>6. \A k \in 1 .. Len(new') : new'[k] = LineOf(Head(todo), k)'
    BY <1>1, <1>5 DEF LineOf
<1> QED BY <1>1, <1>3, <1>4, <1>6 DEF HistInv

LEMMA RemoveOldHist == ASSUME Inv, HistInv, RemoveOld PROVE HistInv'
<1>1. /\ pc = "copy" /\ Len(new) = Len(src) /\ conf' = Missing /\ pc' = "rename"
      /\ UNCHANGED <<new, todo, src, base, asked>>
    BY DEF RemoveOld, Copied, request
<1>2. conf \in Files /\ src = conf /\ new \in Seq(Values) /\ conf # Missing
    BY <1>1, StoreAssumption DEF Inv
<1>3. Len(new) = Lines /\ Lines \in Nat
    BY <1>1, <1>2, FileIsSeq, StoreAssumption
<1>4. Done' = Done
    BY <1>1 DEF Done
<1>5. Reached(src)'
    BY <1>1, <1>2, <1>4, ReachedKept DEF HistInv, Reached
<1>6. \A k \in 1 .. Lines : new[k] = LineOf(Head(todo), k)
    BY <1>1, <1>3 DEF HistInv
<1>7. new = [k \in 1 .. Lines |-> new[k]]
    BY <1>2, <1>3
<1>8. new = Written(src, Head(todo))
    BY <1>6, <1>7 DEF Written, LineOf
<1>9. new' = Written(src, Head(todo))' /\ src' \in Files
    BY <1>1, <1>2, <1>8 DEF Written
<1> QED BY <1>1, <1>4, <1>5, <1>9 DEF HistInv

LEMMA RenameNewHist == ASSUME Inv, HistInv, RenameNew PROVE HistInv'
<1>1. /\ pc = "rename" /\ conf' = new /\ todo' = Tail(todo) /\ pc' \in {"idle", "open"}
      /\ UNCHANGED <<src, base, asked>>
    BY DEF RenameNew, request
<1>2. todo \in Seq(Tokens) /\ todo # <<>> /\ asked \in Seq(Tokens)
    BY <1>1 DEF Inv, HistInv
<1>3. /\ Len(todo) \in Nat \ {0} /\ Len(asked) \in Nat /\ Done \in Nat
      /\ Done + Len(todo) = Len(asked)
    BY <1>2, DoneNat
<1>4. Len(todo') = Len(todo) - 1 /\ \A k \in 1 .. Len(todo) - 1 : todo'[k] = todo[k + 1]
    BY <1>1, <1>2, <1>3
<1>5. Done' = Done + 1
    BY <1>1, <1>3, <1>4 DEF Done
<1>6. ASSUME NEW k \in 1 .. Len(todo') PROVE todo'[k] = asked'[Done' + k]
    <2>1. k + 1 \in 1 .. Len(todo) /\ Done + (k + 1) = Done + 1 + k /\ k \in 1 .. Len(todo) - 1
        BY <1>3, <1>4
    <2>2. todo[k + 1] = asked[Done + (k + 1)]
        BY <2>1 DEF HistInv
    <2> QED BY <1>1, <1>4, <1>5, <2>1, <2>2
<1>7. Head(todo) = asked[Done + 1] /\ asked[Done + 1] \in Tokens
    <2>1. 1 \in 1 .. Len(todo) /\ Done + 1 \in 1 .. Len(asked)
        BY <1>3
    <2>2. Head(todo) = todo[1]
        BY <1>2
    <2> QED BY <1>2, <2>1, <2>2 DEF HistInv
<1>8. Reached(src) /\ src \in Files /\ conf' = Written(src, asked[Done + 1])
    BY <1>1, <1>7 DEF HistInv
<1>9. Reached(conf)'
    BY <1>1, <1>3, <1>5, <1>7, <1>8, ReachedNext DEF Reached
<1>10. Len(todo') <= Len(asked')
    BY <1>1, <1>3, <1>4
<1> QED BY <1>1, <1>2, <1>6, <1>9, <1>10 DEF HistInv

LEMMA KillHist == ASSUME Inv, HistInv, Kill PROVE HistInv'
<1>1. /\ pc' = "idle" /\ todo' = <<>> /\ asked' = SubSeq(asked, 1, Done)
      /\ UNCHANGED <<conf, base>>
    BY DEF Kill, Done
<1>2. /\ Len(todo) \in Nat /\ Len(asked) \in Nat /\ Done \in Nat
      /\ Done + Len(todo) = Len(asked) /\ asked \in Seq(Tokens)
    BY DoneNat DEF HistInv
<1> DEFINE d == Done
<1>3. /\ asked' \in Seq(Tokens) /\ Len(asked') = d
      /\ \A k \in 1 .. d : asked'[k] = asked[k]
    <2>1. d \in Nat /\ d <= Len(asked) /\ asked' = SubSeq(asked, 1, d)
        BY <1>1, <1>2
    <2> HIDE DEF d
    <2>2. \A k \in 1 .. d : asked[k] \in Tokens
        BY <1>2, <2>1
    <2> QED BY <1>2, <2>1, <2>2
<1>4. Done' = Done
    BY <1>1, <1>2, <1>3 DEF Done
<1>5. conf # Missing => Reached(conf)'
    BY <1>1, <1>3, <1>4, ReachedKept DEF HistInv, Reached
<1>6. Len(todo') = 0 /\ Len(todo') <= Len(asked')
    BY <1>1, <1>2, <1>3
<1> QED BY <1>1, <1>3, <1>5, <1>6 DEF HistInv

LEMMA HistNext == Inv /\ HistInv /\ [Next]_vars => HistInv'
<1> SUFFICES ASSUME Inv, HistInv, [Next]_vars PROVE HistInv'
    OBVIOUS
<1>1. CASE UNCHANGED vars
    <2>1. UNCHANGED <<conf, new, pc, todo, src, base, asked>> /\ Done' = Done
        BY <1>1 DEF vars, Done
    <2>2. conf # Missing => Reached(conf)'
        BY <2>1, ReachedKept DEF HistInv, Reached
    <2>3. pc = "rename" => Reached(src)'
        BY <2>1, ReachedKept DEF HistInv, Reached
    <2> QED BY <2>1, <2>2, <2>3 DEF HistInv, LineOf, Written
<1> QED BY <1>1, UpdateHist, OpenFilesHist, CopyLineHist, RemoveOldHist, RenameNewHist, KillHist
        DEF Next

-----------------------------------------------------------------------------
(* The chain is the function that WholeOrMissing speaks of.                 *)

\* Every non-empty set of numbers has a least one.
LEMMA Least ==
    ASSUME NEW S \in SUBSET Nat, S # {}
    PROVE  \E x \in S : \A y \in S : x <= y
<1>1. PICK x \in S : \A y \in S : ~(<<y, x>> \in OpToRel(<, Nat))
    BY NatLessThanWellFounded, WFMin
<1>2. \A y \in S : ~(y < x)
    BY <1>1 DEF OpToRel
<1> QED BY <1>2

LEMMA ChainIsFile ==
    ASSUME NEW v, NEW d \in Nat, Chain(v, d)
    PROVE  WrittenUpTo(d) = v[d]
<1> DEFINE G(g) == g = [k \in 0 .. d |-> IF k = 0 THEN base ELSE Written(g[k - 1], asked[k])]
           f == CHOOSE g : G(g)
<1>1. G(v)
    <2>1. v = [k \in 0 .. d |-> v[k]]
        BY DEF Chain
    <2>2. \A k \in 0 .. d : v[k] = IF k = 0 THEN base ELSE Written(v[k - 1], asked[k])
        <3>1. \A k \in 0 .. d : k = 0 \/ k \in 1 .. d
            OBVIOUS
        <3> QED BY <3>1 DEF Chain
    <2> QED BY <2>1, <2>2, Zenon
<1>2. G(f)
    BY <1>1
<1>3. WrittenUpTo(d) = f[d]
    BY DEF WrittenUpTo
<1> HIDE DEF f
<1>4. \A k \in 0 .. d : f[k] = IF k = 0 THEN base ELSE Written(f[k - 1], asked[k])
    BY <1>2, Zenon
<1>5. f[d] = v[d]
    <2> SUFFICES ASSUME f[d] # v[d] PROVE FALSE
        OBVIOUS
    <2> DEFINE S == {k \in 0 .. d : f[k] # v[k]}
    <2>1. S \in SUBSET Nat /\ S # {}
        <3>1. d \in S
            OBVIOUS
        <3> QED BY <3>1
    <2>2. PICK k \in S : \A y \in S : k <= y
        BY <2>1, Least
    <2>3. k \in 0 .. d /\ f[k] # v[k]
        OBVIOUS
    <2>4. CASE k = 0
        BY <1>4, <2>3, <2>4 DEF Chain
    <2>5. CASE k # 0
        <3>1. k \in 1 .. d /\ k - 1 \in 0 .. d /\ ~(k <= k - 1)
            BY <2>3, <2>5
        <3>2. f[k - 1] = v[k - 1]
            BY <2>2, <3>1
        <3>3. f[k] = Written(f[k - 1], asked[k]) /\ v[k] = Written(v[k - 1], asked[k])
            BY <1>4, <2>3, <2>5, <3>1 DEF Chain
        <3> QED BY <2>3, <3>2, <3>3
    <2> QED BY <2>4, <2>5
<1> QED BY <1>3, <1>5

-----------------------------------------------------------------------------
(* Theorems.                                                                *)

\* The invariants hold in every state of every behaviour.
THEOREM Invariance == Spec => []Inv
<1>1. Inv /\ [Next]_vars => Inv'
    BY InvNext
<1> QED BY <1>1, InvInit, PTL DEF Spec

\* Wherever WriteParamStr is killed, the file is missing or it is the file the request
\* found with the tokens written so far, each entirely: for files, values and requests
\* of any size.
THEOREM FileWholeOrMissing == Spec => []WholeOrMissing
<1>1. Init => Inv /\ HistInv
    BY InvInit, HistInit
<1>2. (Inv /\ HistInv) /\ [Next]_vars => (Inv /\ HistInv)'
    BY InvNext, HistNext
<1>3. ASSUME Inv, HistInv PROVE WholeOrMissing
    <2> SUFFICES ASSUME conf # Missing PROVE base # Missing /\ conf = WrittenUpTo(Done)
        BY DEF WholeOrMissing
    <2>1. PICK v : Chain(v, Done) /\ v[Done] = conf
        BY <1>3 DEF HistInv, Reached
    <2>2. Done \in Nat
        BY <1>3, DoneNat
    <2>3. base \in Files
        BY <2>1, <2>2 DEF Chain
    <2>4. WrittenUpTo(Done) = v[Done]
        BY <2>1, <2>2, ChainIsFile
    <2> QED BY <2>1, <2>3, <2>4, StoreAssumption
<1> QED BY <1>1, <1>2, <1>3, PTL DEF Spec

\* The step of WriteParamStr that loses the last whole version of a file, if any, is
\* the truncation of <file>.new by a request that finds no file: for files, values and
\* requests of any size.
THEOREM VersionKept == Spec => OnlyRetryLoses
<1>1. ASSUME Inv, [Next]_vars, Kept, ~(pc = "open" /\ conf = Missing)
      PROVE  Kept'
    <2>1. CASE RemoveOld
        BY <1>1, <2>1, RemoveOldInv DEF Kept
    <2>2. CASE RenameNew
        BY <1>1, <2>2, RenameNewInv DEF Kept
    <2>3. CASE OpenFiles
        BY <1>1, <2>3 DEF Inv, OpenFiles, Kept
    <2>4. CASE CopyLine
        BY <1>1, <2>4 DEF Inv, CopyLine, Kept
    <2>5. CASE Kill
        BY <1>1, <2>5 DEF Inv, Kill, Kept
    <2>6. CASE \E r \in Requests : Update(r)
        BY <1>1, <2>6 DEF Update, Kept
    <2>7. CASE UNCHANGED vars
        BY <1>1, <2>7 DEF vars, Kept
    <2> QED BY <1>1, <2>1, <2>2, <2>3, <2>4, <2>5, <2>6, <2>7 DEF Next
<1>2. Inv /\ [Next]_vars => [Kept => Kept' \/ (pc = "open" /\ conf = Missing)]_vars
    BY <1>1
<1> QED BY <1>2, Invariance, PTL DEF Spec, OnlyRetryLoses
=============================================================================
