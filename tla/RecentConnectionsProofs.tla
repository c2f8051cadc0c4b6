---------------------- MODULE RecentConnectionsProofs ----------------------
(***************************************************************************)
(* The file of recent connections loses nothing, the menus show it, and a  *)
(* torn one is fatal, for any number of programs, connections and          *)
(* additions, and any order of kills and starts.                           *)
(***************************************************************************)
EXTENDS RecentConnections, TLAPS, WellFoundedInduction

\* What a program has read is still all that was saved when it writes, and only
\* one program has the file open for writing.
Current ==
  \A p \in Program :
    /\ at[p] \in {"open", "write"} => doc[p] = saved
    /\ at[p] = "write" => file = "torn" /\ \A q \in Program \ {p} : at[q] \notin {"open", "write"}

IInv == FileTypes /\ (~misread /\ ~raced => Current /\ (file # "torn" => entries = saved))

LEMMA InductiveInit == Init => IInv
<1> SUFFICES ASSUME Init PROVE IInv
  OBVIOUS
<1>1. entries \in Seq(Entry) /\ (file # "whole" => entries = <<>>) /\ saved = entries
  <2>1. <<Foreign>> \in Seq(Entry) /\ <<>> \in Seq(Entry)
    <3>1. Foreign \in Entry
      BY DEF Entry
    <3> QED
      BY <3>1
  <2> QED
    BY <2>1 DEF Init
<1>2. at \in [Program -> Place] /\ doc \in [Program -> Seq(Entry)] /\ adding \in [Program -> Entry]
  BY DEF Init, Place, Entry
<1>3. FileTypes
  BY <1>1, <1>2 DEF Init, FileTypes
<1>4. Current
  BY DEF Init, Current
<1> QED
  BY <1>1, <1>3, <1>4 DEF IInv

LEMMA InductiveStep == IInv /\ [Next]_vars => IInv'
<1> SUFFICES ASSUME IInv, [Next]_vars PROVE IInv'
  OBVIOUS
<1> USE DEF IInv, FileTypes, Current, Place, Goto, disk, request, history
<1>1. ASSUME NEW p \in Program, Start(p) \/ Stop(p) PROVE IInv'
  <2>1. \E label \in {"load", "off"} : at' = [at EXCEPT ![p] = label]
    BY <1>1 DEF Start, Stop
  <2>2. UNCHANGED <<file, entries, doc, adding, saved, misread, raced>>
    BY <1>1 DEF Start, Stop
  <2> QED
    BY <2>1, <2>2
<1>2. ASSUME NEW p \in Program, Add(p) PROVE IInv'
  <2>1. PICK c \in Connection : adding' = [adding EXCEPT ![p] = c]
    BY <1>2 DEF Add
  <2>2. /\ at' = [at EXCEPT ![p] = "read"]
        /\ UNCHANGED <<file, entries, doc, saved, misread, raced>>
    BY <1>2 DEF Add
  <2> QED
    BY <2>1, <2>2 DEF Entry
<1>3. ASSUME NEW p \in Program, Load(p) PROVE IInv'
  <2>1. \E label \in {"run", "off"} : at' = [at EXCEPT ![p] = label]
    BY <1>3 DEF Load
  <2>2. /\ UNCHANGED <<file, entries, doc, adding, saved, raced>>
        /\ misread' \in BOOLEAN /\ (misread => misread')
    BY <1>3 DEF Load
  <2> QED
    BY <2>1, <2>2
<1>4. ASSUME NEW p \in Program, Read(p) PROVE IInv'
  <2>1. UNCHANGED <<file, entries, adding, saved, raced>>
    BY <1>4 DEF Read
  <2>2. CASE at' = [at EXCEPT ![p] = "off"] /\ UNCHANGED <<doc, misread>>
    BY <2>1, <2>2
  <2>3. CASE file = "whole" /\ at' = [at EXCEPT ![p] = "open"] /\ misread' = misread
             /\ doc' = [doc EXCEPT ![p] = entries]
    BY <2>1, <2>3
  <2>4. CASE at' = [at EXCEPT ![p] = "open"] /\ misread' = (misread \/ file # "absent")
             /\ doc' = [doc EXCEPT ![p] = <<>>]
    <3>1. misread' \in BOOLEAN /\ (~misread' => ~misread /\ file = "absent")
      BY <2>4, Zenon
    <3> QED
      BY <2>1, <2>4, <3>1
  <2> QED
    BY <1>4, <2>2, <2>3, <2>4 DEF Read
<1>5. ASSUME NEW p \in Program, Truncate(p) PROVE IInv'
  <2>1. UNCHANGED <<doc, adding, saved, misread>> /\ at[p] = "open"
    BY <1>5 DEF Truncate
  <2>2. CASE at' = [at EXCEPT ![p] = "load"] /\ UNCHANGED <<file, entries, raced>>
    BY <2>1, <2>2
  <2>3. CASE /\ file' = "torn" /\ entries' = <<>> /\ at' = [at EXCEPT ![p] = "write"]
             /\ raced' = (raced \/ \E q \in Program \ {p} : at[q] \in {"open", "write"})
    <3>1. /\ raced' \in BOOLEAN
          /\ ~raced' => ~raced /\ \A q \in Program \ {p} : at[q] \notin {"open", "write"}
      BY <2>3, Zenon
    <3> QED
      BY <2>1, <2>3, <3>1
  <2> QED
    BY <1>5, <2>2, <2>3 DEF Truncate
<1>6. ASSUME NEW p \in Program, Write(p) PROVE IInv'
  <2>1. /\ UNCHANGED <<doc, adding, misread, raced>>
        /\ at[p] = "write" /\ at' = [at EXCEPT ![p] = "load"]
    BY <1>6 DEF Write
  <2>2. CASE /\ file' = "whole" /\ entries' = Append(doc[p], adding[p])
             /\ saved' = Append(saved, adding[p])
    <3>1. entries' \in Seq(Entry) /\ saved' \in Seq(Entry)
      BY <2>2
    <3> QED
      BY <2>1, <2>2, <3>1
  <2>3. CASE file' = "torn" /\ entries' = <<>> /\ saved' = saved
    BY <2>1, <2>3
  <2> QED
    BY <1>6, <2>2, <2>3 DEF Write
<1>7. CASE UNCHANGED vars
  BY <1>7 DEF vars
<1> QED
  BY <1>1, <1>2, <1>3, <1>4, <1>5, <1>6, <1>7 DEF Next, Step

LEMMA Inductive == Spec => []IInv
  BY InductiveInit, InductiveStep, PTL DEF Spec

-----------------------------------------------------------------------------
\* Sets of naturals have a least element.
LEMMA LeastNatural ==
  ASSUME NEW T \in SUBSET Nat, T # {}
  PROVE  \E m \in T : \A n \in T : m <= n
<1> DEFINE R == OpToRel(<, Nat)
<1>1. IsWellFoundedOn(R, Nat)
  BY NatLessThanWellFounded
<1>2. R = {ss \in Nat \X Nat : ss[1] < ss[2]}
  BY DEF OpToRel
<1> HIDE DEF R
<1>3. PICK m \in T : \A n \in T : <<n, m>> \notin R
  BY <1>1, WFMin
<1>4. ASSUME NEW n \in T PROVE m <= n
  <2>1. <<n, m>> \in Nat \X Nat
    OBVIOUS
  <2>2. ~(<<n, m>>[1] < <<n, m>>[2])
    BY <1>2, <1>3, <2>1
  <2> QED
    BY <2>2
<1> QED
  BY <1>4

\* One turn of the loop over the entries.
Turn(list, known, i) ==
  IF i = 0 THEN <<>>
  ELSE IF list[i] \in Connection THEN Append(known[i - 1], list[i]) ELSE known[i - 1]

\* The loop can be run to every length: a least length it could not reach would
\* be one more than a length it does.
LEMMA LoopRuns ==
  ASSUME NEW list, NEW n \in Nat
  PROVE  \E known : known = [i \in 0..n |-> Turn(list, known, i)]
<1> DEFINE Runs(m) == \E known : known = [i \in 0..m |-> Turn(list, known, i)]
           T == {m \in Nat : ~Runs(m)}
<1>1. Runs(0)
  <2> DEFINE k == [i \in 0..0 |-> <<>>]
  <2>1. k = [i \in 0..0 |-> Turn(list, k, i)]
    BY DEF Turn
  <2> QED
    BY <2>1
<1>2. ASSUME NEW m \in Nat, Runs(m) PROVE Runs(m + 1)
  <2>1. PICK known : known = [i \in 0..m |-> Turn(list, known, i)]
    BY <1>2
  <2> DEFINE k == [i \in 0..(m + 1) |-> IF i <= m THEN known[i] ELSE Turn(list, known, m + 1)]
  <2>2. \A i \in 0..m : k[i] = known[i]
    OBVIOUS
  <2>3. ASSUME NEW i \in 0..(m + 1)
        PROVE  k[i] = Turn(list, k, i)
    <3>1. i = 0 \/ i - 1 \in 0..m
      OBVIOUS
    <3>2. Turn(list, k, i) = Turn(list, known, i)
      BY <2>2, <3>1 DEF Turn
    <3>3. CASE i = m + 1
      BY <3>2, <3>3
    <3>4. CASE i \in 0..m
      BY <2>1, <2>2, <3>2, <3>4
    <3> QED
      BY <3>3, <3>4
  <2>4. k = [i \in 0..(m + 1) |-> Turn(list, k, i)]
    <3>1. k = [i \in 0..(m + 1) |-> k[i]]
      OBVIOUS
    <3> HIDE DEF k
    <3> QED
      BY <2>3, <3>1
  <2> QED
    BY <2>4
<1> HIDE DEF Runs
<1>3. T = {}
  <2> SUFFICES ASSUME T # {} PROVE FALSE
    OBVIOUS
  <2>1. T \in SUBSET Nat
    OBVIOUS
  <2>2. PICK m \in T : \A k \in T : m <= k
    BY <2>1, LeastNatural
  <2>3. m \in Nat /\ m # 0 /\ ~Runs(m)
    BY <1>1, <2>2
  <2>4. m - 1 \in Nat /\ m - 1 \notin T
    BY <2>2, <2>3
  <2>5. Runs((m - 1) + 1)
    BY <1>2, <2>4
  <2> QED
    BY <2>3, <2>5
<1> QED
  BY <1>3 DEF Runs

\* The menu made from a list: connections only, and none from an empty list.
LEMMA KnownType ==
  ASSUME NEW list \in Seq(Entry)
  PROVE  Known(list) \in Seq(Connection) /\ (list = <<>> => Known(list) = <<>>)
<1> DEFINE n == Len(list)
           loop == CHOOSE known : known = [i \in 0..n |-> Turn(list, known, i)]
           T == {m \in 0..n : loop[m] \notin Seq(Connection)}
<1>1. n \in Nat /\ \A i \in 1..n : list[i] \in Entry
  OBVIOUS
<1>2. Known(list) = loop[n]
  BY DEF Known, Turn
<1>3. loop = [i \in 0..n |-> Turn(list, loop, i)]
  BY <1>1, LoopRuns
<1> HIDE DEF loop, n
<1>4. \A i \in 0..n : loop[i] = Turn(list, loop, i)
  BY <1>3
<1>5. loop[0] = <<>>
  BY <1>1, <1>4 DEF Turn
<1>6. T = {}
  <2> SUFFICES ASSUME T # {} PROVE FALSE
    OBVIOUS
  <2>1. T \in SUBSET Nat
    BY <1>1
  <2>2. PICK m \in T : \A k \in T : m <= k
    BY <2>1, LeastNatural
  <2>3. m \in 0..n /\ m # 0 /\ loop[m] \notin Seq(Connection)
    <3>1. m \in 0..n /\ loop[m] \notin Seq(Connection)
      BY <2>2
    <3>2. loop[0] \in Seq(Connection)
      BY <1>5
    <3> QED
      BY <3>1, <3>2
  <2>4. m - 1 \in 0..n /\ m - 1 \notin T
    BY <1>1, <2>2, <2>3
  <2>5. loop[m - 1] \in Seq(Connection)
    BY <2>4
  <2>6. loop[m] = IF list[m] \in Connection THEN Append(loop[m - 1], list[m]) ELSE loop[m - 1]
    BY <1>4, <2>3 DEF Turn
  <2> QED
    BY <2>3, <2>5, <2>6
<1>7. list = <<>> => n = 0
  BY DEF n
<1> QED
  BY <1>1, <1>2, <1>5, <1>6, <1>7

-----------------------------------------------------------------------------
\* What the menus and the bounds need of a step.
MInv ==
  /\ menu \in [Program -> Seq(Connection)]
  /\ adds \in 0..MaxAdds /\ stale \subseteq Program
  /\ MenuShowsFile

\* No step leaves a menu behind the file, but the menu of a program that is stale.
LEMMA MenuStep ==
  ASSUME IInv, MInv, [Next]_vars
  PROVE  MInv'
<1> USE DEF MInv
<1>0. /\ at \in [Program -> Place] /\ misread \in BOOLEAN /\ entries \in Seq(Entry)
      /\ (file # "whole" => entries = <<>>)
  BY DEF IInv, FileTypes
<1> USE RecentAssumption DEF MenuShowsFile, Goto, disk, request, history
<1>1. ASSUME NEW p \in Program, Start(p) \/ Stop(p) PROVE MInv'
  <2>1. \E label \in {"load", "off"} : at' = [at EXCEPT ![p] = label]
    BY <1>1 DEF Start, Stop
  <2>2. UNCHANGED <<file, entries, menu, adds, stale, misread>>
    BY <1>1 DEF Start, Stop
  <2> QED
    BY <1>0, <2>1, <2>2
<1>2. ASSUME NEW p \in Program, Add(p) PROVE MInv'
  BY <1>0, <1>2 DEF Add
<1>3. ASSUME NEW p \in Program, Load(p) PROVE MInv'
  <2>1. UNCHANGED <<file, entries, adds>>
    BY <1>3 DEF Load
  <2>2. CASE at' = [at EXCEPT ![p] = "off"] /\ UNCHANGED <<menu, stale, misread>>
    BY <1>0, <2>1, <2>2
  <2>3. CASE /\ file = "whole" /\ at' = [at EXCEPT ![p] = "run"]
             /\ menu' = [menu EXCEPT ![p] = Known(entries)]
             /\ stale' = stale \ {p} /\ misread' = misread
    <3>1. Known(entries) \in Seq(Connection)
      BY <1>0, KnownType
    <3> QED
      BY <1>0, <2>1, <2>3, <3>1
  <2>4. CASE /\ at' = [at EXCEPT ![p] = "run"]
             /\ menu' = [menu EXCEPT ![p] = <<>>]
             /\ stale' = stale \ {p} /\ misread' = (misread \/ file # "absent")
    <3>1. misread' \in BOOLEAN /\ (~misread' => ~misread /\ file = "absent")
      BY <2>4, Zenon
    <3>2. file = "absent" => Known(entries) = <<>>
      BY <1>0, KnownType
    <3> QED
      BY <1>0, <2>1, <2>4, <3>1, <3>2
  <2> QED
    BY <1>3, <2>2, <2>3, <2>4 DEF Load
<1>4. ASSUME NEW p \in Program, Read(p) PROVE MInv'
  <2>1. \E label \in {"open", "off"} : at' = [at EXCEPT ![p] = label]
    BY <1>4 DEF Read
  <2>2. UNCHANGED <<file, entries, menu, adds, stale>>
    BY <1>4 DEF Read
  <2>3. misread => misread'
    BY <1>4, Zenon DEF Read
  <2> QED
    BY <1>0, <2>1, <2>2, <2>3
<1>5. ASSUME NEW p \in Program, Truncate(p) PROVE MInv'
  <2>1. UNCHANGED <<menu, adds, misread>>
    BY <1>5 DEF Truncate
  <2>2. CASE at' = [at EXCEPT ![p] = "load"] /\ UNCHANGED <<file, entries, stale>>
    BY <1>0, <2>1, <2>2
  <2>3. CASE at' = [at EXCEPT ![p] = "write"] /\ stale' = stale \cup Others(p)
    BY <1>0, <2>1, <2>3 DEF Others
  <2> QED
    BY <1>5, <2>2, <2>3 DEF Truncate
<1>6. ASSUME NEW p \in Program, Write(p) PROVE MInv'
  <2>1. UNCHANGED <<menu, adds, misread>>
    BY <1>6 DEF Write
  <2>2. at' = [at EXCEPT ![p] = "load"] /\ stale' = stale \cup Others(p)
    BY <1>6 DEF Write
  <2> QED
    BY <1>0, <2>1, <2>2 DEF Others
<1>7. CASE UNCHANGED vars
  BY <1>7 DEF vars
<1> QED
  BY <1>1, <1>2, <1>3, <1>4, <1>5, <1>6, <1>7 DEF Next, Step

LEMMA MenuInductive == Spec => []MInv
<1>1. Init => MInv
  BY RecentAssumption DEF Init, MInv, MenuShowsFile
<1> QED
  BY <1>1, MenuStep, Inductive, PTL DEF Spec

\* Every variable keeps its type, the bound on additions included.
THEOREM TypeCorrect == Spec => []TypeOK
<1>1. IInv /\ MInv => TypeOK
  BY DEF IInv, MInv, TypeOK
<1> QED
  BY <1>1, Inductive, MenuInductive, PTL

\* refreshRecents(): the menu of a running program shows what the file holds,
\* unless another program has written since, or the file could not be opened.
THEOREM MenuShowsFileHolds == Spec => []MenuShowsFile
<1>1. MInv => MenuShowsFile
  BY DEF MInv
<1> QED
  BY <1>1, MenuInductive, PTL

-----------------------------------------------------------------------------
\* The file of a dead program stays torn until somebody fails to open it.
Doomed == misread \/ (file = "torn" /\ \A p \in Program : at[p] \in {"off", "load"})

LEMMA DoomedStep ==
  ASSUME IInv, Doomed, [Next]_vars
  PROVE  Doomed'
<1>1. at \in [Program -> Place] /\ misread \in BOOLEAN
  BY DEF IInv, FileTypes
<1>2. misread => misread'
  BY <1>1 DEF Next, Step, Start, Stop, Add, Load, Read, Truncate, Write, vars, history
<1>3. ASSUME file = "torn", \A p \in Program : at[p] \in {"off", "load"}
      PROVE  Doomed'
  <2>1. ASSUME NEW p \in Program, Start(p) \/ Stop(p) PROVE Doomed'
    BY <1>1, <1>3, <2>1 DEF Start, Stop, Goto, disk, Doomed
  <2>2. ASSUME NEW p \in Program, Load(p) PROVE Doomed'
    BY <1>1, <1>3, <2>2 DEF Load, Goto, disk, Doomed
  <2>3. ASSUME NEW p \in Program PROVE ~(Add(p) \/ Read(p) \/ Truncate(p) \/ Write(p))
    BY <1>3 DEF Add, Read, Truncate, Write
  <2>4. CASE UNCHANGED vars
    BY <1>3, <2>4 DEF vars, Doomed
  <2> QED
    BY <2>1, <2>2, <2>3, <2>4 DEF Next, Step
<1> QED
  BY <1>2, <1>3 DEF Doomed

\* A file torn by a kill between opening and writing, with no program left, keeps
\* every later one from getting past its constructor, unless it fails to open it.
THEOREM TornIsFatalHolds == Spec => TornIsFatal
<1>1. Dead => Doomed
  BY DEF Dead, Doomed
<1>2. Doomed => Unusable
  BY DEF Doomed, Unusable
<1> QED
  BY <1>1, <1>2, DoomedStep, Inductive, PTL DEF Spec, TornIsFatal

\* addRecentConnection(): a file that parses holds all additions ever saved, in
\* order, unless programs raced or a file could not be opened for reading.
THEOREM DurableHolds == Spec => []Durable
<1>1. IInv => Durable
  BY DEF IInv, Durable
<1> QED
  BY <1>1, Inductive, PTL
=============================================================================
