-------------------------- MODULE DeviceFilesProofs --------------------------
(***************************************************************************)
(* What processes do to each other's LEDs, pins, pointers and texts: the   *)
(* safety properties of DeviceFiles, for any number of processes and of    *)
(* runs.                                                                   *)
(***************************************************************************)
EXTENDS DeviceFiles, DeviceFacts, SequenceTheorems, FiniteSetTheorems, TLAPS

-----------------------------------------------------------------------------
(* The invariants.                                                          *)

On(p) == proc[p].phase # "out"
Prog(p) == Program(F, proc[p].w, proc[p].s)
\* Where in its program a process is.
At(p) == Len(Prog(p)) - Len(proc[p].prog) + 1
AtStep(p) == On(p) /\ At(p) <= Len(Prog(p))
StepOf(p) == Prog(p)[At(p)]

Texts == [by : Procs \cup {"old", "new"}, ends : BOOLEAN]
Record(r) == r = [phase |-> r.phase, w |-> r.w, s |-> r.s, prog |-> r.prog,
                  tmp |-> r.tmp, got |-> r.got]
Follows(p) ==
  /\ Record(proc[p]) /\ proc[p].phase \in {"out", "opening", "last", "again"}
  /\ ~On(p) => proc[p] = Out
  /\ On(p) => /\ proc[p].w \in F.which /\ proc[p].s \in Wishes(F)
              /\ proc[p].phase = "opening" <=> proc[p].s = "none"
              /\ At(p) \in 1 .. Len(Prog(p)) + 1
              /\ proc[p].prog = SubSeq(Prog(p), At(p), Len(Prog(p)))
Shape ==
  /\ dev \in Devices /\ proc = [p \in Procs |-> proc[p]]
  /\ \A p \in Procs : Follows(p)

\* The pointers: if the first is set, each of them is or will be by one who
\* has passed the test, and who is past the first has found or set it.
WillMap(q, ptr) ==
  /\ proc[q].phase = "opening" /\ At(q) > 1
  /\ \E i \in At(q) .. Len(Prog(q)) : Prog(q)[i].op = "map" /\ Prog(q)[i].ptr = ptr
PastFirst(p) == On(p) /\ (proc[p].phase = "opening" => At(p) > 2)
MapInv ==
  dev \in Lazy =>
    /\ First(F) \in mapped =>
         \A ptr \in Ptrs(F) : ptr \in mapped \/ \E q \in Procs : WillMap(q, ptr)
    /\ \A p \in Procs : PastFirst(p) => First(F) \in mapped

\* The registers are the driver's, and the wishes are for its LEDs.
RegTypes ==
  /\ DOMAIN reg = DOMAIN F.reset /\ raced \subseteq DOMAIN F.reset
  /\ asked \in [DOMAIN F.data -> {"none", "on", "off"}]

\* The bits of the registers, and of what was loaded to be changed.
BitsInv ==
  /\ \A r \in DOMAIN reg : reg[r] \subseteq BitsOf(r)
  /\ \A p \in Procs : AtStep(p) /\ StepOf(p).op \in Rmw =>
       proc[p].tmp \subseteq BitsOf(StepOf(p).cell)

\* What has become of what a pin needs.
StoresAhead(p, r) == \E i \in At(p) .. Len(Prog(p)) : StoresAt(Prog(p), i, r)
HasStored(p, r) == \E i \in 1 .. At(p) - 1 : StoresAt(Prog(p), i, r)
Settled(p, r) == On(p) /\ (proc[p].phase = "opening" => ~StoresAhead(p, r))
Cleared(p, r) == On(p) /\ (proc[p].phase = "opening" => HasStored(p, r))
Held(n) == n[2] \subseteq reg[n[1]] /\ n[3] \cap reg[n[1]] = {}

ClearedInv ==
  dev \in ClearFirst =>
    \A p \in Procs : On(p) => \A n \in F.needs[proc[p].w] : Both(n) =>
      /\ Cleared(p, n[1]) => n[3] \cap reg[n[1]] = {}
      /\ /\ proc[p].phase = "opening" /\ AtStep(p) /\ HasStored(p, n[1])
         /\ StepOf(p).op = "or" /\ StepOf(p).cell = n[1]
         => n[3] \cap proc[p].tmp = {}

OpensAgain(q, w, r) ==
  proc[q].phase = "opening" /\ proc[q].w = w /\ StoresAhead(q, r)
PinsInv ==
  \A p \in Procs : On(p) => \A n \in F.needs[proc[p].w] : Settled(p, n[1]) =>
    \/ Held(n)
    \/ n[1] \in raced /\ SharedNeed(n[1])
    \/ dev \in ClearFirst /\ \E q \in Procs : OpensAgain(q, proc[p].w, n[1])

\* How much of its text a process has.
InCall(p) == proc[p].phase \in {"last", "again"}
GotInv ==
  \A p \in Procs :
    /\ proc[p].got \in Seq(Texts)
    /\ ~InCall(p) \/ dev \notin Hellos => proc[p].got = << >>
    /\ InCall(p) /\ dev \in Hello01 =>
         Len(proc[p].got) = IF Prog(p)[1].op = "fetch" THEN At(p) - 1 ELSE 0
    /\ InCall(p) /\ dev = "hello07" =>
         Len(proc[p].got) = IF At(p) <= 2 THEN 0 ELSE At(p) - 2

\* The texts: nobody is between two pieces of anything while one stores,
\* and nobody stores while one fetches.  The first piece ends its text, or the
\* second is of the same.
IsAmid(q, op) == AtStep(q) /\ StepOf(q).op = op /\ At(q) = 2
Whole(a, b) == a.ends \/ a = b
TextInv ==
  dev \in Hello01 =>
    /\ off = 0
    /\ ~blurred =>
         /\ \A p, q \in Procs : IsAmid(p, "store") =>
              /\ buf[0] = Piece(p, FALSE)
              /\ p # q => ~IsAmid(q, "store") /\ ~IsAmid(q, "fetch")
         /\ (\A p \in Procs : ~IsAmid(p, "store")) => Whole(buf[0], buf[1])
         /\ \A p \in Procs : IsAmid(p, "fetch") => proc[p].got[1] = buf[0]
         /\ \A p \in Procs : Len(proc[p].got) = 2 =>
              Whole(proc[p].got[1], proc[p].got[2])
MapTextInv ==
  dev = "hello07" =>
    /\ off \in {0, 2} /\ \A c \in 0 .. 3 : buf[c] \in {Old, New}
    /\ off = 2 => buf[2] = Old /\ buf[3] = Old
    /\ \A p \in Procs : \A i \in 1 .. Len(proc[p].got) :
         proc[p].got[i] = Old \/ (off = 0 /\ proc[p].got[i] = New)

-----------------------------------------------------------------------------
(* What is left of a program.                                               *)

(* The steps of P from the i-th on: the first of them, and the others.     *)
LEMMA Rest ==
  ASSUME NEW S, NEW P \in Seq(S), NEW i \in 1 .. Len(P) + 1
  PROVE  LET Q == SubSeq(P, i, Len(P))
         IN  /\ Q \in Seq(S) /\ Len(Q) = Len(P) - i + 1
             /\ \A k \in 1 .. Len(Q) : Q[k] = P[i + k - 1]
             /\ i <= Len(P) <=> Q # << >>
             /\ i <= Len(P) => Head(Q) = P[i] /\ Tail(Q) = SubSeq(P, i + 1, Len(P))
<1> DEFINE Q == SubSeq(P, i, Len(P))
<1>1. \A k \in i .. Len(P) : P[k] \in S
  BY ElementOfSeq, LenProperties
<1>2. Q \in Seq(S) /\ Len(Q) = Len(P) - i + 1 /\ \A k \in 1 .. Len(Q) : Q[k] = P[i + k - 1]
  BY <1>1, SubSeqProperties, LenProperties
<1>3. i <= Len(P) <=> Q # << >>
  <2> HIDE DEF Q
  <2> QED BY <1>2, EmptySeq, LenProperties
<1>4. i <= Len(P) => Head(Q) = P[i] /\ Tail(Q) = SubSeq(P, i + 1, Len(P))
  BY HeadTailOfSubSeq, LenProperties
<1> QED
  BY <1>2, <1>3, <1>4

-----------------------------------------------------------------------------
(* What the steps do to the processes.                                      *)

(* The file of the driver in use is as the table says.                     *)
LEMMA FileOfDev == ASSUME Shape PROVE FileFits(dev, F)
BY TableAssumption, DevicesAssumption DEF Shape, F

(* So is the program of each process.                                      *)
LEMMA ProgramOf ==
  ASSUME Shape, NEW p \in Procs, On(p)
  PROVE  /\ ProgramFits(dev, F, proc[p].w, proc[p].s, Prog(p))
         /\ Prog(p) \in Seq(StepsOf(Prog(p))) /\ Len(Prog(p)) \in Nat
<1>1. proc[p].w \in F.which /\ proc[p].s \in Wishes(F)
  BY DEF Shape, Follows
<1>2. ProgramFits(dev, F, proc[p].w, proc[p].s, Prog(p))
  BY <1>1, FileOfDev DEF FileFits, Prog
<1> QED
  BY <1>2, LenProperties DEF ProgramFits

(* A process with something left is at a step of its program, and has the  *)
(* steps from there on left.                                               *)
LEMMA AtItsStep ==
  ASSUME Shape, NEW p \in Procs
  PROVE  /\ On(p) => At(p) \in 1 .. Len(Prog(p)) + 1 /\ Len(Prog(p)) \in Nat
         /\ proc[p].prog # << >> <=> AtStep(p)
         /\ AtStep(p) => /\ At(p) \in 1 .. Len(Prog(p))
                         /\ Head(proc[p].prog) = StepOf(p)
                         /\ Tail(proc[p].prog) = SubSeq(Prog(p), At(p) + 1, Len(Prog(p)))
         /\ AtStep(p) => /\ Len(proc[p].prog) = Len(Prog(p)) - At(p) + 1
                         /\ \A k \in 1 .. Len(proc[p].prog) :
                              proc[p].prog[k] = Prog(p)[At(p) + k - 1]
<1>1. CASE ~On(p)
  <2>1. proc[p].prog = << >>
    BY <1>1 DEF Shape, Follows, Out
  <2> QED BY <1>1, <2>1 DEF AtStep
<1>2. CASE On(p)
  <2>1. Prog(p) \in Seq(StepsOf(Prog(p))) /\ Len(Prog(p)) \in Nat
    BY <1>2, ProgramOf
  <2>2. /\ At(p) \in 1 .. Len(Prog(p)) + 1
        /\ proc[p].prog = SubSeq(Prog(p), At(p), Len(Prog(p)))
    BY <1>2 DEF Shape, Follows
  <2> DEFINE P == Prog(p)
             Q == proc[p].prog
             i == At(p)
  <2>3. P \in Seq(StepsOf(P)) /\ i \in 1 .. Len(P) + 1 /\ Q = SubSeq(P, i, Len(P))
    BY <2>1, <2>2
  <2> HIDE DEF P, Q, i
  <2>4. /\ Len(Q) = Len(P) - i + 1
        /\ \A k \in 1 .. Len(Q) : Q[k] = P[i + k - 1]
        /\ i <= Len(P) <=> Q # << >>
        /\ i <= Len(P) => Head(Q) = P[i] /\ Tail(Q) = SubSeq(P, i + 1, Len(P))
    BY <2>3, Rest
  <2>5. AtStep(p) <=> i <= Len(P)
    BY <1>2 DEF AtStep, i, P
  <2>6. StepOf(p) = P[i]
    BY DEF StepOf, i, P
  <2>7. Q # << >> <=> AtStep(p)
    BY <2>4, <2>5
  <2>8. AtStep(p) => /\ i \in 1 .. Len(P) /\ Head(Q) = StepOf(p)
                     /\ Tail(Q) = SubSeq(P, i + 1, Len(P))
    BY <2>3, <2>4, <2>5, <2>6, <2>1 DEF P
  <2> QED BY <1>2, <2>1, <2>2, <2>4, <2>5, <2>7, <2>8 DEF P, Q, i
<1> QED
  BY <1>1, <1>2

\* What another process does leaves this one where it is.
Same(q) ==
  /\ proc'[q] = proc[q] /\ On(q)' = On(q) /\ At(q)' = At(q) /\ Prog(q)' = Prog(q)
  /\ AtStep(q)' = AtStep(q) /\ StepOf(q)' = StepOf(q) /\ InCall(q)' = InCall(q)
OthersSame(p) == \A q \in Procs \ {p} : Same(q)

\* The process goes on in its program, at the n-th step.
GoesTo(p, n) ==
  /\ proc'[p].phase = proc[p].phase /\ proc'[p].w = proc[p].w /\ proc'[p].s = proc[p].s
  /\ Prog(p)' = Prog(p) /\ At(p)' = n /\ On(p)' /\ InCall(p)' = InCall(p)
  /\ AtStep(p)' = (n <= Len(Prog(p))) /\ StepOf(p)' = Prog(p)[n]
\* Or it starts a program, at the first step.
Starts(p, phase, w, s) ==
  /\ proc'[p].phase = phase /\ proc'[p].w = w /\ proc'[p].s = s
  /\ Prog(p)' = Program(F, w, s) /\ At(p)' = 1 /\ On(p)'
  /\ AtStep(p)' = (1 <= Len(Program(F, w, s))) /\ StepOf(p)' = Program(F, w, s)[1]

(* Leaving a process alone, and its driver.                                *)
LEMMA LeftAlone ==
  ASSUME dev' = dev, NEW q, proc'[q] = proc[q]
  PROVE  Same(q) /\ Follows(q)' = Follows(q)
<1>1. F' = F
  BY DEF F
<1>2. Prog(q)' = Prog(q)
  BY <1>1 DEF Prog
<1>3. On(q)' = On(q) /\ At(q)' = At(q)
  BY <1>2 DEF On, At
<1>4. AtStep(q)' = AtStep(q) /\ StepOf(q)' = StepOf(q) /\ InCall(q)' = InCall(q)
  BY <1>2, <1>3 DEF AtStep, StepOf, InCall
<1>5. Follows(q)' = Follows(q)
  BY <1>1, <1>2, <1>3 DEF Follows, Out
<1> QED
  BY <1>2, <1>3, <1>4, <1>5 DEF Same

(* Where a process is that has the steps of its program from the n-th on   *)
(* left.                                                                   *)
LEMMA Placed ==
  ASSUME dev' = dev, dev \in Devices, Shape, NEW p \in Procs,
         proc' = [q \in Procs |-> proc'[q]], \A q \in Procs \ {p} : proc'[q] = proc[q],
         Record(proc[p])', proc'[p].phase \in {"opening", "last", "again"},
         proc'[p].w \in F.which, proc'[p].s \in Wishes(F),
         proc'[p].phase = "opening" <=> proc'[p].s = "none",
         NEW n \in 1 .. Len(Program(F, proc'[p].w, proc'[p].s)) + 1,
         proc'[p].prog = SubSeq(Program(F, proc'[p].w, proc'[p].s), n,
                                Len(Program(F, proc'[p].w, proc'[p].s)))
  PROVE  /\ Shape' /\ OthersSame(p) /\ Prog(p)' = Program(F, proc'[p].w, proc'[p].s)
         /\ At(p)' = n /\ On(p)' /\ AtStep(p)' = (n <= Len(Prog(p)'))
         /\ StepOf(p)' = Prog(p)'[n]
<1> DEFINE P == Program(F, proc'[p].w, proc'[p].s)
<1>1. F' = F
  BY DEF F
<1>2. Prog(p)' = P
  BY <1>1 DEF Prog
<1>3. On(p)'
  BY DEF On
<1>4. P \in Seq(StepsOf(P)) /\ Len(P) \in Nat
  BY FileOfDev, LenProperties DEF FileFits, ProgramFits
<1>5. Len(proc'[p].prog) = Len(P) - n + 1
  <2> HIDE DEF P
  <2>1. n \in 1 .. Len(P) + 1 /\ proc'[p].prog = SubSeq(P, n, Len(P))
    BY DEF P
  <2> QED BY <1>4, <2>1, Rest
<1>6. At(p)' = n
  <2> HIDE DEF P
  <2>1. n \in 1 .. Len(P) + 1
    BY DEF P
  <2> QED BY <1>2, <1>4, <1>5, <2>1 DEF At
<1>7. AtStep(p)' = (n <= Len(P)) /\ StepOf(p)' = P[n]
  BY <1>2, <1>3, <1>6 DEF AtStep, StepOf
<1>8. Follows(p)'
  <2> HIDE DEF P
  <2>1. n \in 1 .. Len(P) + 1 /\ proc'[p].prog = SubSeq(P, n, Len(P))
    BY DEF P
  <2> QED BY <1>1, <1>2, <1>3, <1>6, <2>1 DEF Follows
<1>9. \A q \in Procs \ {p} : Same(q) /\ Follows(q)'
  BY LeftAlone DEF Shape
<1>10. Shape'
  BY <1>8, <1>9 DEF Shape
<1> QED
  BY <1>2, <1>3, <1>6, <1>7, <1>9, <1>10 DEF OthersSame

(* GoesOn changes the program, and what was loaded or got.                 *)
LEMMA GoesOnFields ==
  ASSUME Shape, NEW p \in Procs, NEW prog, NEW tmp, NEW got, GoesOn(p, prog, tmp, got)
  PROVE  /\ proc' = [q \in Procs |-> proc'[q]] /\ \A q \in Procs \ {p} : proc'[q] = proc[q]
         /\ Record(proc[p])' /\ proc'[p].phase = proc[p].phase
         /\ proc'[p].w = proc[p].w /\ proc'[p].s = proc[p].s
         /\ proc'[p].prog = prog /\ proc'[p].tmp = tmp /\ proc'[p].got = got
<1>1. proc = [q \in Procs |-> proc[q]] /\ Record(proc[p])
  BY DEF Shape, Follows
<1> DEFINE r == proc[p]
<1>2. proc' = [proc EXCEPT ![p] = [[[r EXCEPT !.prog = prog] EXCEPT !.tmp = tmp]
                                     EXCEPT !.got = got]]
  BY <1>1 DEF GoesOn
<1>3. proc' = [q \in Procs |-> proc'[q]] /\ \A q \in Procs \ {p} : proc'[q] = proc[q]
  BY <1>1, <1>2
<1>4. proc'[p] = [[[r EXCEPT !.prog = prog] EXCEPT !.tmp = tmp] EXCEPT !.got = got]
  BY <1>1, <1>2
<1>5. proc'[p] = [phase |-> r.phase, w |-> r.w, s |-> r.s, prog |-> prog,
                  tmp |-> tmp, got |-> got]
  <2> HIDE DEF r
  <2>1. r = [phase |-> r.phase, w |-> r.w, s |-> r.s, prog |-> r.prog,
             tmp |-> r.tmp, got |-> r.got]
    BY <1>1 DEF Record, r
  <2> QED BY <1>4, <2>1
<1> QED
  BY <1>3, <1>5 DEF Record

(* A step of the program moves its process to the next.                    *)
LEMMA Advances ==
  ASSUME Shape, NEW p \in Procs, AtStep(p), dev' = dev,
         NEW tmp, NEW got, GoesOn(p, Tail(proc[p].prog), tmp, got)
  PROVE  /\ Shape' /\ OthersSame(p) /\ GoesTo(p, At(p) + 1)
         /\ proc'[p].tmp = tmp /\ proc'[p].got = got
<1>1. /\ proc' = [q \in Procs |-> proc'[q]] /\ \A q \in Procs \ {p} : proc'[q] = proc[q]
      /\ Record(proc[p])' /\ proc'[p].phase = proc[p].phase
      /\ proc'[p].w = proc[p].w /\ proc'[p].s = proc[p].s
      /\ proc'[p].prog = Tail(proc[p].prog) /\ proc'[p].tmp = tmp /\ proc'[p].got = got
  BY GoesOnFields
<1>2. /\ On(p) /\ At(p) \in 1 .. Len(Prog(p)) /\ Len(Prog(p)) \in Nat
      /\ proc'[p].prog = SubSeq(Prog(p), At(p) + 1, Len(Prog(p)))
  BY <1>1, AtItsStep DEF AtStep
<1>3. /\ dev \in Devices /\ proc[p].phase \in {"opening", "last", "again"}
      /\ proc[p].w \in F.which /\ proc[p].s \in Wishes(F)
      /\ proc[p].phase = "opening" <=> proc[p].s = "none"
  BY <1>2 DEF Shape, Follows, On
<1>4. Program(F, proc'[p].w, proc'[p].s) = Prog(p)
  BY <1>1 DEF Prog
<1>5. At(p) + 1 \in 1 .. Len(Prog(p)) + 1
  BY <1>2
<1>6. /\ Shape' /\ OthersSame(p) /\ Prog(p)' = Prog(p)
      /\ At(p)' = At(p) + 1 /\ On(p)' /\ AtStep(p)' = (At(p) + 1 <= Len(Prog(p)))
      /\ StepOf(p)' = Prog(p)[At(p) + 1]
  <2> DEFINE n == At(p) + 1
  <2> HIDE DEF n
  <2> QED BY <1>1, <1>2, <1>3, <1>4, <1>5, Placed DEF n
<1>7. InCall(p)' = InCall(p)
  BY <1>1 DEF InCall
<1> QED
  BY <1>1, <1>6, <1>7 DEF GoesTo

(* The test of a pointer is the first step of a lazy open, and the maps    *)
(* are the next n.                                                         *)
Tests(p, n) ==
  /\ dev \in Lazy /\ proc[p].phase = "opening" /\ At(p) = 1
  /\ n \in 1 .. Len(Prog(p)) - 1 /\ StepOf(p).v = {n} /\ StepOf(p).ptr = First(F)
  /\ \A i \in 1 .. n + 1 : Prog(p)[i].op \in {"unless", "map"}
LEMMA AtTest ==
  ASSUME Shape, NEW p \in Procs, AtStep(p), StepOf(p).op = "unless"
  PROVE  \E n \in 1 .. Len(Prog(p)) - 1 : Tests(p, n)
<1>1. On(p) /\ At(p) \in 1 .. Len(Prog(p)) /\ Prog(p)[At(p)].op = "unless"
  BY AtItsStep DEF AtStep, StepOf
<1>2. MapsAfterTest(dev, F, proc[p].s, Prog(p)) /\ Len(Prog(p)) \in Nat
  BY <1>1, ProgramOf DEF ProgramFits
<1>3. dev \in Lazy /\ proc[p].s = "none" /\ TestsAndMaps(F, Prog(p))
  BY <1>1, <1>2 DEF MapsAfterTest
<1>4. proc[p].phase = "opening"
  BY <1>1, <1>3 DEF Shape, Follows
<1>5. PICK n \in 1 .. Len(Prog(p)) - 1 :
        /\ Prog(p)[1].op = "unless" /\ Prog(p)[1].v = {n} /\ Prog(p)[1].ptr = First(F)
        /\ \A i \in 2 .. Len(Prog(p)) :
             Prog(p)[i].op # "unless" /\ (Prog(p)[i].op = "map" <=> i <= n + 1)
  BY <1>3 DEF TestsAndMaps
<1>6. At(p) = 1
  BY <1>1, <1>2, <1>5
<1>7. \A i \in 1 .. n + 1 : Prog(p)[i].op \in {"unless", "map"}
  BY <1>2, <1>5
<1> QED
  BY <1>3, <1>4, <1>5, <1>6, <1>7 DEF Tests, StepOf

(* It skips the maps if the pointer is set.                                *)
LEMMA Skips ==
  ASSUME Shape, NEW p \in Procs, AtStep(p), dev' = dev, Skipped(p, StepOf(p))
  PROVE  /\ Shape' /\ OthersSame(p)
         /\ \E n \in 1 .. Len(Prog(p)) - 1 :
              Tests(p, n) /\ GoesTo(p, IF First(F) \in mapped THEN n + 2 ELSE 2)
         /\ proc'[p].tmp = proc[p].tmp /\ proc'[p].got = proc[p].got
<1>1. PICK n \in 1 .. Len(Prog(p)) - 1 : Tests(p, n)
  BY AtTest DEF Skipped
<1>2. (CHOOSE m \in StepOf(p).v : TRUE) = n
  BY <1>1 DEF Tests
<1>3. StepOf(p).ptr = First(F) /\ At(p) = 1
  BY <1>1 DEF Tests
<1>4. CASE First(F) \in mapped
  <2>1. GoesOn(p, SubSeq(proc[p].prog, n + 2, Len(proc[p].prog)), proc[p].tmp, proc[p].got)
    BY <1>2, <1>3, <1>4 DEF Skipped
  <2>2. /\ On(p) /\ Prog(p) \in Seq(StepsOf(Prog(p))) /\ Len(Prog(p)) \in Nat
        /\ proc[p].prog = SubSeq(Prog(p), 1, Len(Prog(p)))
    BY <1>3, ProgramOf DEF Shape, Follows, AtStep
  <2>3. proc[p].prog = Prog(p)
    BY <2>2, SubSeqFull
  <2>4. /\ proc' = [q \in Procs |-> proc'[q]] /\ \A q \in Procs \ {p} : proc'[q] = proc[q]
        /\ Record(proc[p])' /\ proc'[p].phase = proc[p].phase
        /\ proc'[p].w = proc[p].w /\ proc'[p].s = proc[p].s
        /\ proc'[p].prog = SubSeq(proc[p].prog, n + 2, Len(proc[p].prog))
        /\ proc'[p].tmp = proc[p].tmp /\ proc'[p].got = proc[p].got
    <3> DEFINE rest == SubSeq(proc[p].prog, n + 2, Len(proc[p].prog))
    <3>1. GoesOn(p, rest, proc[p].tmp, proc[p].got)
      BY <2>1
    <3> HIDE DEF rest
    <3>2. /\ proc' = [q \in Procs |-> proc'[q]] /\ \A q \in Procs \ {p} : proc'[q] = proc[q]
          /\ Record(proc[p])' /\ proc'[p].phase = proc[p].phase
          /\ proc'[p].w = proc[p].w /\ proc'[p].s = proc[p].s
          /\ proc'[p].prog = rest /\ proc'[p].tmp = proc[p].tmp /\ proc'[p].got = proc[p].got
      BY <3>1, GoesOnFields
    <3> QED BY <3>2 DEF rest
  <2>5. /\ dev \in Devices /\ proc[p].phase \in {"opening", "last", "again"}
        /\ proc[p].w \in F.which /\ proc[p].s \in Wishes(F)
        /\ proc[p].phase = "opening" <=> proc[p].s = "none"
    BY <2>2 DEF Shape, Follows, On
  <2>6. Program(F, proc'[p].w, proc'[p].s) = Prog(p)
    BY <2>4 DEF Prog
  <2>7. /\ Shape' /\ OthersSame(p) /\ Prog(p)' = Prog(p) /\ At(p)' = n + 2 /\ On(p)'
        /\ AtStep(p)' = (n + 2 <= Len(Prog(p))) /\ StepOf(p)' = Prog(p)[n + 2]
    <3> DEFINE m == n + 2
    <3>1. m \in 1 .. Len(Prog(p)) + 1
      BY <2>2
    <3> HIDE DEF m
    <3> QED BY <2>3, <2>4, <2>5, <2>6, <3>1, Placed DEF m
  <2>8. InCall(p)' = InCall(p)
    BY <2>4 DEF InCall
  <2> QED BY <1>1, <1>4, <2>4, <2>7, <2>8 DEF GoesTo
<1>5. CASE First(F) \notin mapped
  <2>1. GoesOn(p, Tail(proc[p].prog), proc[p].tmp, proc[p].got)
    BY <1>3, <1>5 DEF Skipped
  <2>2. /\ Shape' /\ OthersSame(p) /\ GoesTo(p, At(p) + 1)
        /\ proc'[p].tmp = proc[p].tmp /\ proc'[p].got = proc[p].got
    BY <2>1, Advances
  <2>3. At(p) + 1 = 2
    BY <1>3
  <2> QED BY <1>1, <1>5, <2>2, <2>3
<1> QED
  BY <1>4, <1>5

(* A process that is given a program starts at its first step.             *)
LEMMA Started ==
  ASSUME Shape, NEW p \in Procs, dev' = dev,
         proc' = [q \in Procs |-> proc'[q]], \A q \in Procs \ {p} : proc'[q] = proc[q],
         Record(proc[p])', proc'[p].phase \in {"opening", "last", "again"},
         proc'[p].w \in F.which, proc'[p].s \in Wishes(F),
         proc'[p].phase = "opening" <=> proc'[p].s = "none",
         proc'[p].prog = Program(F, proc'[p].w, proc'[p].s)
  PROVE  Shape' /\ OthersSame(p) /\ Starts(p, proc'[p].phase, proc'[p].w, proc'[p].s)
<1> DEFINE P == Program(F, proc'[p].w, proc'[p].s)
<1>1. P \in Seq(StepsOf(P)) /\ Len(P) \in Nat
  BY FileOfDev, LenProperties DEF FileFits, ProgramFits
<1>2. P = SubSeq(P, 1, Len(P))
  <2> HIDE DEF P
  <2> QED BY <1>1, SubSeqFull
<1>3. 1 \in 1 .. Len(P) + 1 /\ dev \in Devices
  BY <1>1 DEF Shape
<1>4. /\ Shape' /\ OthersSame(p) /\ Prog(p)' = P
      /\ At(p)' = 1 /\ On(p)' /\ AtStep(p)' = (1 <= Len(Prog(p)')) /\ StepOf(p)' = Prog(p)'[1]
  BY <1>2, <1>3, Placed
<1> QED
  BY <1>4 DEF Starts

(* The open.                                                               *)
LEMMA OpensAs ==
  ASSUME Shape, NEW p \in Procs, Opens(p)
  PROVE  /\ Shape' /\ OthersSame(p) /\ ~On(p) /\ proc'[p].got = << >>
         /\ \E w \in F.which : Starts(p, "opening", w, "none")
<1>1. PICK w \in F.which :
        proc' = [proc EXCEPT ![p] = [Out EXCEPT !.phase = "opening", !.w = w,
                                                !.prog = F.open[w]]]
  BY DEF Opens
<1>2. proc = [q \in Procs |-> proc[q]] /\ dev' = dev /\ ~On(p)
  BY DEF Shape, Opens, kept, On
<1>3. /\ proc' = [q \in Procs |-> proc'[q]] /\ \A q \in Procs \ {p} : proc'[q] = proc[q]
      /\ proc'[p] = [phase |-> "opening", w |-> w, s |-> "none", prog |-> F.open[w],
                     tmp |-> {}, got |-> << >>]
  BY <1>1, <1>2 DEF Out
<1>4. /\ Record(proc[p])' /\ proc'[p].phase = "opening" /\ proc'[p].w = w
      /\ proc'[p].s = "none" /\ proc'[p].prog = Program(F, w, "none")
      /\ proc'[p].got = << >>
  BY <1>3 DEF Record, Program
<1>5. "none" \in Wishes(F)
  BY DEF Wishes
<1> QED
  BY <1>2, <1>3, <1>4, <1>5, Started

(* The calls.                                                              *)
LEMMA CallsAs ==
  ASSUME Shape, NEW p \in Procs, Calls(p)
  PROVE  /\ Shape' /\ OthersSame(p)
         /\ proc[p].phase = "opening" /\ On(p) /\ ~AtStep(p) /\ ~InCall(p)
         /\ \E s \in F.test.calls : /\ Starts(p, proc'[p].phase, proc[p].w, s)
                                    /\ proc'[p].phase \in {"last", "again"}
         /\ proc'[p].got = proc[p].got
<1>1. PICK s \in F.test.calls :
        proc' = [proc EXCEPT ![p].phase = IF s \in F.test.again THEN "again" ELSE "last",
                             ![p].s = s, ![p].prog = F.call[proc[p].w][s]]
  BY DEF Calls
<1>2. /\ proc = [q \in Procs |-> proc[q]] /\ Record(proc[p]) /\ dev' = dev
      /\ proc[p].phase = "opening" /\ proc[p].prog = << >>
  BY DEF Shape, Follows, Calls, kept
<1>3. On(p) /\ ~AtStep(p) /\ ~InCall(p) /\ proc[p].w \in F.which
  BY <1>2, AtItsStep DEF On, InCall, Shape, Follows
<1> DEFINE r == proc[p]
           phase == IF s \in F.test.again THEN "again" ELSE "last"
           call == F.call[proc[p].w][s]
<1>4. /\ proc' = [q \in Procs |-> proc'[q]] /\ \A q \in Procs \ {p} : proc'[q] = proc[q]
      /\ proc'[p] = [[[r EXCEPT !.phase = phase] EXCEPT !.s = s] EXCEPT !.prog = call]
  BY <1>1, <1>2
<1>5. proc'[p] = [phase |-> phase, w |-> r.w, s |-> s, prog |-> call,
                  tmp |-> r.tmp, got |-> r.got]
  <2> HIDE DEF r, phase, call
  <2>1. r = [phase |-> r.phase, w |-> r.w, s |-> r.s, prog |-> r.prog,
             tmp |-> r.tmp, got |-> r.got]
    BY <1>2 DEF Record, r
  <2> QED BY <1>4, <2>1
<1>6. s # "none" /\ s \in Wishes(F)
  BY FileOfDev DEF FileFits, Fields, Wishes
<1>7. call = Program(F, proc[p].w, s)
  BY <1>6 DEF Program
<1> HIDE DEF call
<1>8. /\ Record(proc[p])' /\ proc'[p].phase \in {"last", "again"} /\ proc'[p].w = proc[p].w
      /\ proc'[p].s = s /\ proc'[p].prog = call /\ proc'[p].got = proc[p].got
  BY <1>5 DEF Record
<1>9. Shape' /\ OthersSame(p) /\ Starts(p, proc'[p].phase, proc'[p].w, proc'[p].s)
  BY <1>2, <1>3, <1>4, <1>6, <1>7, <1>8, Started
<1> QED
  BY <1>2, <1>3, <1>8, <1>9

(* The calls that are repeated.                                            *)
LEMMA CallsAgainAs ==
  ASSUME Shape, NEW p \in Procs, CallsAgain(p)
  PROVE  /\ Shape' /\ OthersSame(p) /\ InCall(p) /\ proc[p].phase = "again"
         /\ \E s \in F.test.again : Starts(p, "again", proc[p].w, s)
         /\ proc'[p].got = proc[p].got /\ dev \notin Hellos
<1>1. PICK s \in F.test.again :
        proc' = [proc EXCEPT ![p].s = s, ![p].prog = F.call[proc[p].w][s]]
  BY DEF CallsAgain
<1>2. /\ proc = [q \in Procs |-> proc[q]] /\ Record(proc[p]) /\ dev' = dev
      /\ proc[p].phase = "again"
  BY DEF Shape, Follows, CallsAgain, kept
<1>3. InCall(p) /\ proc[p].w \in F.which
  BY <1>2 DEF On, InCall, Shape, Follows
<1> DEFINE r == proc[p]
           call == F.call[proc[p].w][s]
<1>4. /\ proc' = [q \in Procs |-> proc'[q]] /\ \A q \in Procs \ {p} : proc'[q] = proc[q]
      /\ proc'[p] = [[r EXCEPT !.s = s] EXCEPT !.prog = call]
  BY <1>1, <1>2
<1>5. proc'[p] = [phase |-> r.phase, w |-> r.w, s |-> s, prog |-> call,
                  tmp |-> r.tmp, got |-> r.got]
  <2> HIDE DEF r, call
  <2>1. r = [phase |-> r.phase, w |-> r.w, s |-> r.s, prog |-> r.prog,
             tmp |-> r.tmp, got |-> r.got]
    BY <1>2 DEF Record, r
  <2> QED BY <1>4, <2>1
<1>6. s # "none" /\ s \in Wishes(F) /\ dev \notin Hellos
  BY FileOfDev DEF FileFits, Fields, Particular, Wishes
<1>7. call = Program(F, proc[p].w, s)
  BY <1>6 DEF Program
<1> HIDE DEF call
<1>8. /\ Record(proc[p])' /\ proc'[p].phase = "again" /\ proc'[p].w = proc[p].w
      /\ proc'[p].s = s /\ proc'[p].prog = call /\ proc'[p].got = proc[p].got
  BY <1>2, <1>5 DEF Record
<1>9. Shape' /\ OthersSame(p) /\ Starts(p, proc'[p].phase, proc'[p].w, proc'[p].s)
  BY <1>2, <1>3, <1>4, <1>6, <1>7, <1>8, Started
<1> QED
  BY <1>2, <1>3, <1>6, <1>8, <1>9

(* The close.                                                              *)
LEMMA ClosesAs ==
  ASSUME Shape, NEW p \in Procs, Closes(p)
  PROVE  /\ Shape' /\ OthersSame(p) /\ proc[p].phase = "last" /\ ~AtStep(p)
         /\ proc'[p] = Out /\ ~On(p)' /\ ~AtStep(p)' /\ ~InCall(p)'
<1>1. /\ proc' = [proc EXCEPT ![p] = Out] /\ dev' = dev
      /\ proc = [q \in Procs |-> proc[q]] /\ proc[p].phase = "last"
  BY DEF Shape, Closes, kept
<1>2. /\ proc' = [q \in Procs |-> proc'[q]] /\ \A q \in Procs \ {p} : proc'[q] = proc[q]
      /\ proc'[p] = Out
  BY <1>1
<1>3. proc'[p].phase = "out" /\ Record(Out) /\ Out.phase = "out"
  BY <1>2 DEF Out, Record
<1>4. Follows(p)' /\ ~On(p)' /\ ~AtStep(p)' /\ ~InCall(p)'
  BY <1>2, <1>3 DEF Follows, On, AtStep, InCall, Record, Out
<1>5. \A q \in Procs \ {p} : Same(q) /\ Follows(q)'
  BY <1>1, <1>2, LeftAlone DEF Shape
<1>6. Shape'
  BY <1>1, <1>2, <1>4, <1>5 DEF Shape
<1>7. ~AtStep(p)
  BY AtItsStep DEF Closes
<1> QED
  BY <1>1, <1>2, <1>4, <1>5, <1>6, <1>7 DEF OthersSame

(* A toggle looks whether the LED is lit and becomes the write of the      *)
(* other level.                                                            *)
LEMMA TogglesAs ==
  ASSUME Shape, NEW p \in Procs, AtStep(p), dev' = dev, Toggled(p, StepOf(p))
  PROVE  /\ Shape' /\ OthersSame(p) /\ proc[p].phase # "opening" /\ dev \notin Hellos
         /\ \E s \in {"on", "off"} : Starts(p, proc[p].phase, proc[p].w, s)
         /\ proc'[p].got = proc[p].got
<1> DEFINE st == StepOf(p)
           P == Prog(p)
           w == proc[p].w
<1>1. /\ On(p) /\ At(p) \in 1 .. Len(P) /\ st = P[At(p)] /\ st.op = "toggle"
      /\ Tail(proc[p].prog) = SubSeq(P, At(p) + 1, Len(P))
  BY AtItsStep DEF AtStep, StepOf, Toggled
<1>2. /\ TogglesWrite(F, w, proc[p].s, P) /\ CopiesText(dev, proc[p].s, P)
      /\ P \in Seq(StepsOf(P)) /\ Len(P) \in Nat
  BY <1>1, ProgramOf DEF ProgramFits
<1>3. /\ Len(P) = 1 /\ At(p) = 1 /\ st = P[1] /\ proc[p].s # "none"
      /\ {"on", "off"} \subseteq F.test.calls
      /\ w \in DOMAIN F.data /\ F.data[w].level = 0
      /\ st.v = {F.data[w].bit} /\ st.cell = F.data[w].r
      /\ F.call[w]["on"] = AndNot(st.ptr, st.cell, st.v)
      /\ F.call[w]["off"] = OrInto(st.ptr, st.cell, st.v)
  BY <1>1, <1>2 DEF TogglesWrite
<1>4. dev \notin Hellos
  <2> SUFFICES ASSUME dev \in Hellos PROVE FALSE
    OBVIOUS
  <2>1. \/ dev \in Hello01 /\ OneCopy(P)
        \/ dev = "hello07" /\ Len(P) = 3
    BY <1>2, <1>3 DEF CopiesText, Hellos, Hello01
  <2>2. Len(P) = 1 => ~OneCopy(P)
    <3>1. P[1].op # "store"
      BY <1>1, <1>3
    <3> QED BY <3>1 DEF OneCopy, StoresString
  <2> QED BY <1>3, <2>1, <2>2
<1>5. Tail(proc[p].prog) = << >>
  BY <1>1, <1>3, SubSeqEmpty
<1> DEFINE becomes == IF st.v \subseteq reg[st.cell] THEN AndNot(st.ptr, st.cell, st.v)
                                                     ELSE OrInto(st.ptr, st.cell, st.v)
           wish == IF Lights(w, reg[st.cell]) THEN "off" ELSE "on"
<1>6. /\ st.v \subseteq reg[st.cell] <=> wish = "on"
      /\ wish \in {"on", "off"}
  BY <1>3 DEF Lights
<1>7. becomes = F.call[w][wish]
  BY <1>3, <1>6
<1>8. wish # "none" /\ wish \in Wishes(F)
  BY <1>3, <1>6 DEF Wishes
<1>9. becomes = Program(F, w, wish)
  BY <1>7, <1>8 DEF Program
<1>10. proc' = [proc EXCEPT ![p].prog = becomes \o Tail(@), ![p].s = wish]
  BY DEF Toggled
<1> HIDE DEF becomes, wish, P, st
<1>11. becomes \o << >> = becomes
  <2> DEFINE Q == Program(F, w, wish)
  <2>1. w \in F.which
    BY <1>1 DEF Shape, Follows
  <2>2. Q \in Seq(StepsOf(Q))
    BY <1>8, <2>1, FileOfDev DEF FileFits, ProgramFits
  <2> HIDE DEF Q
  <2>3. Q \o << >> = Q
    BY <2>2, ConcatEmptySeq
  <2> QED BY <1>9, <2>3 DEF Q
<1>12. proc = [q \in Procs |-> proc[q]] /\ Record(proc[p])
  BY DEF Shape, Follows
<1> DEFINE r == proc[p]
<1>13. /\ proc' = [q \in Procs |-> proc'[q]] /\ \A q \in Procs \ {p} : proc'[q] = proc[q]
       /\ proc'[p] = [[r EXCEPT !.prog = becomes \o Tail(r.prog)] EXCEPT !.s = wish]
  BY <1>10, <1>12
<1>14. proc'[p] = [phase |-> r.phase, w |-> r.w, s |-> wish, prog |-> becomes,
                   tmp |-> r.tmp, got |-> r.got]
  <2>1. proc'[p] = [[r EXCEPT !.prog = becomes] EXCEPT !.s = wish]
    BY <1>5, <1>11, <1>13
  <2> HIDE DEF r
  <2>2. r = [phase |-> r.phase, w |-> r.w, s |-> r.s, prog |-> r.prog,
             tmp |-> r.tmp, got |-> r.got]
    BY <1>12 DEF Record, r
  <2> QED BY <2>1, <2>2
<1>15. /\ proc[p].phase \in {"last", "again"} /\ proc[p].w \in F.which
  BY <1>1, <1>3 DEF Shape, Follows, On
<1>16. /\ Record(proc[p])' /\ proc'[p].phase = proc[p].phase /\ proc'[p].w = w
       /\ proc'[p].s = wish /\ proc'[p].prog = Program(F, w, wish)
       /\ proc'[p].got = proc[p].got
  BY <1>9, <1>14 DEF Record
<1>17. Shape' /\ OthersSame(p) /\ Starts(p, proc'[p].phase, proc'[p].w, proc'[p].s)
  BY <1>8, <1>13, <1>15, <1>16, Started
<1> QED
  BY <1>4, <1>6, <1>15, <1>16, <1>17

(* The other steps go on to the next, with what they loaded or got.        *)
Steps(p, st) ==
  \/ Mapped(p, st) \/ Loaded(p, st) \/ Stored(p, st) \/ Unpressed(p, st)
  \/ StoredPiece(p, st) \/ FetchedPiece(p, st)
\* It gets a piece by fetching it, and in no other way.
Gains(p, st) ==
  IF st.op = "fetch"
  THEN \E piece \in Fetchable(CellOf(st)) : proc'[p].got = Append(proc[p].got, piece)
  ELSE proc'[p].got = proc[p].got
LEMMA StepsAs ==
  ASSUME Shape, NEW p \in Procs, AtStep(p), dev' = dev, Steps(p, StepOf(p))
  PROVE  /\ Shape' /\ OthersSame(p) /\ GoesTo(p, At(p) + 1)
         /\ StepOf(p).op = "load" => proc'[p].tmp = reg[StepOf(p).cell]
         /\ Gains(p, StepOf(p))
<1> DEFINE st == StepOf(p)
<1> HIDE DEF st
<1>1. Mapped(p, st) => /\ GoesOn(p, Tail(proc[p].prog), proc[p].tmp, proc[p].got)
                       /\ st.op = "map"
  BY DEF Mapped, NextStep
<1>2. Loaded(p, st) => /\ GoesOn(p, Tail(proc[p].prog), reg[st.cell], proc[p].got)
                       /\ st.op = "load"
  BY DEF Loaded
<1>3. Stored(p, st) => /\ GoesOn(p, Tail(proc[p].prog), {}, proc[p].got)
                       /\ st.op \in Stores
  BY DEF Stored, Stores, Rmw
<1>4. Unpressed(p, st) => /\ GoesOn(p, Tail(proc[p].prog), proc[p].tmp, proc[p].got)
                          /\ st.op = "unpressed"
  BY DEF Unpressed, NextStep
<1>5. StoredPiece(p, st) => /\ GoesOn(p, Tail(proc[p].prog), proc[p].tmp, proc[p].got)
                            /\ st.op = "store"
  BY DEF StoredPiece, NextStep
<1>6. FetchedPiece(p, st) =>
        /\ \E piece \in Fetchable(CellOf(st)) :
             GoesOn(p, Tail(proc[p].prog), proc[p].tmp, Append(proc[p].got, piece))
        /\ st.op = "fetch"
  BY DEF FetchedPiece
<1>7. PICK tmp, got :
        /\ GoesOn(p, Tail(proc[p].prog), tmp, got)
        /\ st.op = "load" => tmp = reg[st.cell]
        /\ IF st.op = "fetch"
           THEN \E piece \in Fetchable(CellOf(st)) : got = Append(proc[p].got, piece)
           ELSE got = proc[p].got
  <2>1. CASE Loaded(p, st)
    BY <1>2, <2>1
  <2>2. CASE FetchedPiece(p, st)
    BY <1>6, <2>2
  <2>3. CASE Stored(p, st)
    <3>1. st.op \notin {"load", "fetch"}
      BY <1>3, <2>3 DEF Stores, Rmw
    <3> QED BY <1>3, <2>3, <3>1
  <2>4. CASE Mapped(p, st)
    BY <1>1, <2>4
  <2>5. CASE Unpressed(p, st) \/ StoredPiece(p, st)
    BY <1>4, <1>5, <2>5
  <2> QED BY <2>1, <2>2, <2>3, <2>4, <2>5 DEF Steps, st
<1>8. /\ Shape' /\ OthersSame(p) /\ GoesTo(p, At(p) + 1)
      /\ proc'[p].tmp = tmp /\ proc'[p].got = got
  <2>1. GoesOn(p, Tail(proc[p].prog), tmp, got)
    BY <1>7
  <2> QED BY <2>1, Advances
<1> QED
  BY <1>7, <1>8 DEF st, Gains

(* What a process inside the driver does is one of these.                  *)
LEMMA RunsAs ==
  ASSUME Shape, NEW p \in Procs, Runs(p)
  PROVE  /\ AtStep(p) /\ ~oops /\ UNCHANGED <<dev, off, runs>>
         /\ \/ Skipped(p, StepOf(p)) \/ Toggled(p, StepOf(p)) \/ Steps(p, StepOf(p))
            \/ NullFollowed(p, StepOf(p))
<1>1. proc[p].prog # << >>
  BY DEF Runs
<1>2. AtStep(p) /\ Head(proc[p].prog) = StepOf(p)
  BY <1>1, AtItsStep
<1> QED
  BY <1>2 DEF Runs, Steps

(* The processes are untouched.                                            *)
LEMMA Untouched ==
  ASSUME Shape, UNCHANGED <<dev, proc>>
  PROVE  Shape' /\ F' = F /\ \A q \in Procs : Same(q)
<1>1. \A q \in Procs : Same(q) /\ Follows(q)' = Follows(q)
  BY LeftAlone
<1> QED
  BY <1>1 DEF Shape, F

(* Every step keeps each process at a step of its program.                 *)
LEMMA ShapeStep == ASSUME Shape, [Next]_vars PROVE Shape' /\ dev' = dev /\ F' = F
<1>1. ASSUME NEW p \in Procs, Runs(p) PROVE Shape' /\ dev' = dev
  <2>1. AtStep(p) /\ dev' = dev
    BY <1>1, RunsAs
  <2>2. CASE Skipped(p, StepOf(p))
    BY <2>1, <2>2, Skips
  <2>3. CASE Toggled(p, StepOf(p))
    BY <2>1, <2>3, TogglesAs
  <2>4. CASE Steps(p, StepOf(p))
    BY <2>1, <2>4, StepsAs
  <2>5. CASE NullFollowed(p, StepOf(p))
    BY <2>1, <2>5, Untouched DEF NullFollowed
  <2> QED BY <1>1, <2>1, <2>2, <2>3, <2>4, <2>5, RunsAs
<1>2. ASSUME NEW p \in Procs, Opens(p) \/ Calls(p) \/ CallsAgain(p) \/ Closes(p)
      PROVE  Shape' /\ dev' = dev
  BY <1>2, OpensAs, CallsAs, CallsAgainAs, ClosesAs DEF Opens, Calls, CallsAgain, Closes, kept
<1>3. ASSUME Press \/ UNCHANGED vars PROVE Shape' /\ dev' = dev
  BY <1>3, Untouched DEF Press, vars
<1>4. Shape' /\ dev' = dev
  BY <1>1, <1>2, <1>3 DEF Next
<1> QED
  BY <1>4 DEF F

\* What a step is for the process that takes it.
shared == <<reg, mapped, buf, asked, raced, blurred>>
Skipping(p) ==
  /\ AtStep(p) /\ UNCHANGED shared
  /\ \E n \in 1 .. Len(Prog(p)) - 1 :
       Tests(p, n) /\ GoesTo(p, IF First(F) \in mapped THEN n + 2 ELSE 2)
  /\ proc'[p].got = proc[p].got
Stepping(p) ==
  /\ AtStep(p) /\ Steps(p, StepOf(p)) /\ GoesTo(p, At(p) + 1)
  /\ StepOf(p).op = "load" => proc'[p].tmp = reg[StepOf(p).cell]
  /\ Gains(p, StepOf(p))
Opening(p) ==
  /\ ~On(p) /\ UNCHANGED shared /\ proc'[p].got = << >>
  /\ \E w \in F.which : Starts(p, "opening", w, "none")
Calling(p) ==
  /\ On(p) /\ (proc[p].phase = "opening" => ~AtStep(p)) /\ UNCHANGED shared
  /\ (InCall(p) => dev \notin Hellos) /\ proc'[p].got = proc[p].got
  /\ \E ph \in {"last", "again"} : \E s \in Wishes(F) \ {"none"} :
       Starts(p, ph, proc[p].w, s)
Leaving(p) ==
  /\ On(p) /\ proc[p].phase # "opening" /\ ~AtStep(p) /\ UNCHANGED shared
  /\ ~On(p)' /\ ~AtStep(p)' /\ proc'[p] = Out
Acts(p) ==
  /\ OthersSame(p)
  /\ Skipping(p) \/ Stepping(p) \/ Opening(p) \/ Calling(p) \/ Leaving(p)
Idling ==
  /\ UNCHANGED <<proc, mapped, buf, asked, raced, blurred>>
  /\ Press \/ UNCHANGED reg
  /\ \A q \in Procs : Same(q)

(* Every step is one of these, of one process or of none.                  *)
LEMMA StepCases ==
  ASSUME Shape, [Next]_vars
  PROVE  UNCHANGED off /\ (Idling \/ \E p \in Procs : Acts(p))
<1>1. ASSUME NEW p \in Procs, Runs(p) PROVE UNCHANGED off /\ (Idling \/ Acts(p))
  <2>1. AtStep(p) /\ On(p) /\ dev' = dev /\ UNCHANGED off
    BY <1>1, RunsAs DEF AtStep
  <2>2. CASE Skipped(p, StepOf(p))
    <3>1. UNCHANGED shared
      BY <2>2 DEF Skipped, shared
    <3>2. Skipping(p) /\ OthersSame(p)
      BY <2>1, <2>2, <3>1, Skips DEF Skipping
    <3> QED BY <2>1, <3>2 DEF Acts
  <2>3. CASE Toggled(p, StepOf(p))
    <3>1. UNCHANGED shared
      BY <2>3 DEF Toggled, shared
    <3>2. /\ OthersSame(p) /\ proc[p].phase # "opening" /\ dev \notin Hellos
          /\ \E s \in {"on", "off"} : Starts(p, proc[p].phase, proc[p].w, s)
          /\ proc'[p].got = proc[p].got
      BY <2>1, <2>3, TogglesAs
    <3>3. proc[p].phase \in {"last", "again"}
      BY <2>1, <3>2 DEF Shape, Follows, On
    <3>4. {"on", "off"} \subseteq F.test.calls
      <4>1. StepOf(p).op = "toggle" /\ At(p) \in 1 .. Len(Prog(p))
        BY <2>1, <2>3, AtItsStep DEF Toggled
      <4> QED BY <2>1, <4>1, ProgramOf DEF ProgramFits, TogglesWrite, StepOf
    <3>5. Calling(p)
      BY <2>1, <3>1, <3>2, <3>3, <3>4 DEF Calling, Wishes
    <3> QED BY <2>1, <3>2, <3>5 DEF Acts
  <2>4. CASE Steps(p, StepOf(p))
    <3>1. Stepping(p) /\ OthersSame(p)
      BY <2>1, <2>4, StepsAs DEF Stepping
    <3> QED BY <2>1, <3>1 DEF Acts
  <2>5. CASE NullFollowed(p, StepOf(p))
    <3>1. UNCHANGED <<proc, reg, mapped, buf, asked, raced, blurred>>
      BY <2>5 DEF NullFollowed
    <3>2. Idling
      BY <2>1, <3>1, Untouched DEF Idling
    <3> QED BY <2>1, <3>2
  <2> QED BY <1>1, <2>2, <2>3, <2>4, <2>5, RunsAs
<1>2. ASSUME NEW p \in Procs, Opens(p) PROVE UNCHANGED off /\ Acts(p)
  <2>1. UNCHANGED shared /\ UNCHANGED off
    BY <1>2 DEF Opens, kept, shared
  <2> QED BY <1>2, <2>1, OpensAs DEF Acts, Opening
<1>3. ASSUME NEW p \in Procs, Calls(p) PROVE UNCHANGED off /\ Acts(p)
  <2>1. UNCHANGED shared /\ UNCHANGED off
    BY <1>3 DEF Calls, kept, shared
  <2>2. "none" \notin F.test.calls
    BY FileOfDev DEF FileFits, Fields
  <2> QED BY <1>3, <2>1, <2>2, CallsAs DEF Acts, Calling, Wishes
<1>4. ASSUME NEW p \in Procs, CallsAgain(p) PROVE UNCHANGED off /\ Acts(p)
  <2>1. UNCHANGED shared /\ UNCHANGED off
    BY <1>4 DEF CallsAgain, kept, shared
  <2>2. "none" \notin F.test.calls /\ F.test.again \subseteq F.test.calls
    BY FileOfDev DEF FileFits, Fields
  <2>3. On(p) /\ proc[p].phase # "opening"
    BY <1>4 DEF CallsAgain, On
  <2> QED BY <1>4, <2>1, <2>2, <2>3, CallsAgainAs DEF Acts, Calling, Wishes
<1>5. ASSUME NEW p \in Procs, Closes(p) PROVE UNCHANGED off /\ Acts(p)
  <2>1. UNCHANGED shared /\ UNCHANGED off /\ On(p)
    BY <1>5 DEF Closes, kept, shared, On
  <2> QED BY <1>5, <2>1, ClosesAs DEF Acts, Leaving
<1>6. ASSUME Press \/ UNCHANGED vars PROVE UNCHANGED off /\ Idling
  BY <1>6, Untouched DEF Press, vars, Idling
<1> QED
  BY <1>1, <1>2, <1>3, <1>4, <1>5, <1>6 DEF Next

(* At first no process is inside the driver.                               *)
LEMMA ShapeInit == ASSUME Init PROVE Shape
<1>1. \A p \in Procs : proc[p] = Out
  BY DEF Init
<1>2. Record(Out) /\ Out.phase = "out"
  BY DEF Record, Out
<1>3. \A p \in Procs : Follows(p)
  BY <1>1, <1>2 DEF Follows, On
<1> QED
  BY <1>3 DEF Init, Shape

(* Every process is at a step of its program, or outside.                  *)
THEOREM Positions == Spec => []Shape
<1>1. Init => Shape
  BY ShapeInit
<1>2. Shape /\ [Next]_vars => Shape'
  BY ShapeStep
<1> QED
  BY <1>1, <1>2, PTL DEF Spec

-----------------------------------------------------------------------------
(* Pointers.                                                                *)

(* A lazy open, and where the maps are.                                    *)
LEMMA LazyProgram ==
  ASSUME Shape, NEW p \in Procs, On(p), dev \in Lazy
  PROVE  /\ proc[p].phase = "opening" => TestsAndMaps(F, Prog(p))
         /\ AtStep(p) /\ StepOf(p).op = "map" => proc[p].phase = "opening"
         /\ AtStep(p) /\ StepOf(p).op \in Moves => StepOf(p).ptr \in Ptrs(F)
<1>1. MapsAfterTest(dev, F, proc[p].s, Prog(p)) /\ Len(Prog(p)) \in Nat
  BY ProgramOf DEF ProgramFits
<1>2. proc[p].phase = "opening" <=> proc[p].s = "none"
  BY DEF Shape, Follows
<1>3. AtStep(p) => At(p) \in 1 .. Len(Prog(p))
  BY AtItsStep
<1> QED
  BY <1>1, <1>2, <1>3 DEF MapsAfterTest, StepOf

(* What a process does about the pointers.                                 *)
LEMMA MapStepOf ==
  ASSUME Shape, MapInv, NEW p \in Procs, Acts(p), dev \in Lazy, UNCHANGED dev
  PROVE  MapInv'
<1>1. \/ \E n \in 1 .. Len(Prog(p)) - 1 :
           /\ Tests(p, n) /\ UNCHANGED mapped
           /\ GoesTo(p, IF First(F) \in mapped THEN n + 2 ELSE 2)
      \/ AtStep(p) /\ StepOf(p).op # "map" /\ GoesTo(p, At(p) + 1) /\ UNCHANGED mapped
      \/ AtStep(p) /\ StepOf(p).op = "map" /\ GoesTo(p, At(p) + 1)
           /\ mapped' = mapped \cup {StepOf(p).ptr}
      \/ ~On(p) /\ proc'[p].phase = "opening" /\ At(p)' = 1 /\ UNCHANGED mapped
      \/ On(p) /\ (proc[p].phase = "opening" => ~AtStep(p))
           /\ proc'[p].phase # "opening" /\ UNCHANGED mapped
  <2>1. CASE Skipping(p)
    BY <2>1 DEF Skipping, shared
  <2>2. CASE Stepping(p)
    <3> DEFINE st == StepOf(p)
    <3> HIDE DEF st
    <3>1. Steps(p, st)
      BY <2>2 DEF Stepping, st
    <3>2. \/ st.op = "map" /\ mapped' = mapped \cup {st.ptr}
          \/ st.op # "map" /\ UNCHANGED mapped
      BY <3>1 DEF Steps, Mapped, Loaded, Stored, Unpressed, StoredPiece, FetchedPiece
    <3>3. AtStep(p) /\ GoesTo(p, At(p) + 1)
      BY <2>2 DEF Stepping
    <3> QED BY <3>2, <3>3 DEF st
  <2>3. CASE Opening(p)
    BY <2>3 DEF Opening, Starts, shared
  <2>4. CASE Calling(p)
    BY <2>4 DEF Calling, Starts, shared
  <2>5. CASE Leaving(p)
    BY <2>5 DEF Leaving, Out, shared
  <2> QED BY <2>1, <2>2, <2>3, <2>4, <2>5 DEF Acts
<1> DEFINE P == Prog(p)
<1>2. \A q \in Procs \ {p} : Same(q)
  BY DEF OthersSame, Acts
<1>3. On(p) => At(p) \in 1 .. Len(P) + 1 /\ Len(P) \in Nat
  BY AtItsStep
<1>4. proc[p].phase = "opening" => On(p) /\ TestsAndMaps(F, P)
  BY LazyProgram DEF On
<1>5. AtStep(p) /\ StepOf(p).op = "map" => proc[p].phase = "opening"
  BY LazyProgram DEF AtStep
<1>6. mapped \subseteq mapped'
  BY <1>1
<1>7. ASSUME NEW q \in Procs, PastFirst(q)' PROVE First(F) \in mapped'
  <2>1. CASE q # p
    BY <1>2, <1>6, <1>7, <2>1 DEF Same, PastFirst, MapInv
  <2>2. CASE q = p
    <3> SUFFICES ASSUME First(F) \notin mapped PROVE First(F) \in mapped'
      BY <1>6
    <3>1. ~PastFirst(p)
      BY DEF MapInv
    <3>2. CASE On(p)
      <4>1. proc[p].phase = "opening" /\ At(p) <= 2 /\ TestsAndMaps(F, P)
        BY <1>3, <1>4, <3>1, <3>2 DEF PastFirst
      <4>2. PICK n \in 1 .. Len(P) - 1 :
              /\ P[1].op = "unless" /\ P[2].ptr = First(F)
              /\ \A i \in 2 .. Len(P) : P[i].op = "map" <=> i <= n + 1
        BY <4>1 DEF TestsAndMaps
      <4>3. P[2].op = "map" /\ Len(P) >= 2 /\ AtStep(p)
        BY <1>3, <3>2, <4>1, <4>2 DEF AtStep
      <4>4. At(p)' > 2 /\ proc'[p].phase = "opening"
        BY <1>1, <1>7, <2>2, <3>2, <4>1, <4>3 DEF PastFirst, GoesTo, Tests
      <4>5. At(p) = 2 /\ GoesTo(p, At(p) + 1)
        BY <1>1, <1>3, <3>2, <4>1, <4>3, <4>4 DEF GoesTo, Tests
      <4>6. StepOf(p).op = "map" /\ StepOf(p).ptr = First(F)
        BY <4>2, <4>3, <4>5 DEF StepOf
      <4> QED BY <1>1, <3>2, <4>1, <4>3, <4>5, <4>6 DEF Tests
    <3>3. CASE ~On(p)
      <4>1. ~AtStep(p) /\ proc[p].phase # "opening"
        BY <3>3 DEF AtStep, On
      <4>2. proc'[p].phase = "opening" /\ At(p)' = 1
        BY <1>1, <3>3, <4>1 DEF Tests
      <4> QED BY <1>7, <2>2, <4>2 DEF PastFirst
    <3> QED BY <3>2, <3>3
  <2> QED BY <2>1, <2>2
<1>8. ASSUME First(F) \in mapped', NEW ptr \in Ptrs(F), ptr \notin mapped'
      PROVE  \E q \in Procs : WillMap(q, ptr)'
  <2>1. CASE First(F) \in mapped
    <3>1. PICK q \in Procs : WillMap(q, ptr)
      BY <1>6, <1>8, <2>1 DEF MapInv
    <3>2. CASE q # p
      BY <1>2, <3>1, <3>2 DEF Same, WillMap
    <3>3. CASE q = p
      <4>1. PICK i \in At(p) .. Len(P) : P[i].op = "map" /\ P[i].ptr = ptr
        BY <3>1, <3>3 DEF WillMap
      <4>2. proc[p].phase = "opening" /\ At(p) > 1 /\ On(p)
        BY <3>1, <3>3 DEF WillMap, On
      <4>3. AtStep(p)
        BY <1>3, <4>1, <4>2 DEF AtStep
      <4>4. /\ GoesTo(p, At(p) + 1)
            /\ StepOf(p).op = "map" => mapped' = mapped \cup {StepOf(p).ptr}
        BY <1>1, <4>2, <4>3 DEF Tests
      <4>5. i # At(p)
        BY <1>8, <4>1, <4>4 DEF StepOf
      <4>6. WillMap(p, ptr)'
        BY <1>3, <4>1, <4>2, <4>4, <4>5 DEF WillMap, GoesTo
      <4> QED BY <4>6
    <3> QED BY <3>2, <3>3
  <2>2. CASE First(F) \notin mapped
    <3>1. /\ AtStep(p) /\ StepOf(p).op = "map" /\ GoesTo(p, At(p) + 1)
          /\ StepOf(p).ptr = First(F)
      BY <1>1, <1>8, <2>2
    <3>2. proc[p].phase = "opening" /\ On(p) /\ TestsAndMaps(F, P) /\ ~PastFirst(p)
      BY <1>4, <1>5, <2>2, <3>1 DEF MapInv
    <3>3. PICK n \in 1 .. Len(P) - 1 :
            /\ P[1].op = "unless" /\ P[2].ptr = First(F)
            /\ \A i \in 2 .. Len(P) : P[i].op = "map" <=> i <= n + 1
      BY <3>2 DEF TestsAndMaps
    <3>4. At(p) = 2
      BY <1>3, <3>1, <3>2, <3>3 DEF PastFirst, StepOf
    <3>5. PICK i \in 1 .. Len(P) : P[i].op = "map" /\ P[i].ptr = ptr
      BY <3>2 DEF TestsAndMaps, MapsOf
    <3>6. i > 2
      BY <1>8, <3>3, <3>5
    <3>7. WillMap(p, ptr)'
      BY <1>3, <3>1, <3>2, <3>4, <3>5, <3>6 DEF WillMap, GoesTo
    <3> QED BY <3>7
  <2> QED BY <2>1, <2>2
<1>9. First(F)' = First(F) /\ Ptrs(F)' = Ptrs(F)
  BY DEF First, Ptrs, F
<1> QED
  BY <1>7, <1>8, <1>9 DEF MapInv

(* A set pointer is set, and no other driver is asked to do more.          *)
LEMMA MapStep == ASSUME Shape, MapInv, [Next]_vars PROVE MapInv'
<1>1. F' = F /\ dev' = dev
  BY ShapeStep
<1> SUFFICES ASSUME dev \in Lazy PROVE MapInv'
  BY <1>1 DEF MapInv
<1>2. ASSUME UNCHANGED <<dev, proc, mapped>> PROVE MapInv'
  <2>1. \A q \in Procs : Same(q)
    BY <1>2, Untouched
  <2>2. /\ \A q \in Procs : PastFirst(q)' = PastFirst(q)
        /\ \A q \in Procs : \A ptr : WillMap(q, ptr)' = WillMap(q, ptr)
    BY <2>1 DEF PastFirst, WillMap, Same
  <2>3. First(F)' = First(F) /\ Ptrs(F)' = Ptrs(F)
    BY <1>1 DEF First, Ptrs
  <2> QED BY <1>2, <2>2, <2>3 DEF MapInv
<1>3. ASSUME NEW p \in Procs, Acts(p) PROVE MapInv'
  BY <1>1, <1>3, MapStepOf
<1> QED
  BY <1>1, <1>2, <1>3, StepCases DEF Idling

(* Whoever will map has a map left.                                        *)
LEMMA MapLeft ==
  ASSUME Shape, NEW q \in Procs, NEW ptr, WillMap(q, ptr)
  PROVE  \E s \in ToSet(proc[q].prog) : s.op = "map"
<1>1. On(q)
  BY DEF WillMap, On
<1>2. PICK i \in At(q) .. Len(Prog(q)) : Prog(q)[i].op = "map"
  BY DEF WillMap
<1>3. At(q) \in 1 .. Len(Prog(q)) + 1 /\ Len(Prog(q)) \in Nat /\ AtStep(q)
  BY <1>1, <1>2, AtItsStep DEF AtStep
<1>4. proc[q].prog \in Seq(StepsOf(Prog(q)))
  <2> DEFINE P == Prog(q)
             n == At(q)
  <2>1. P \in Seq(StepsOf(P)) /\ n \in 1 .. Len(P) + 1 /\ proc[q].prog = SubSeq(P, n, Len(P))
    BY <1>1, ProgramOf DEF Shape, Follows
  <2> HIDE DEF P, n
  <2>2. proc[q].prog \in Seq(StepsOf(P))
    BY <2>1, Rest
  <2> QED BY <2>2 DEF P
<1>5. DOMAIN proc[q].prog = 1 .. Len(proc[q].prog)
  BY <1>4, LenProperties
<1>6. /\ Len(proc[q].prog) = Len(Prog(q)) - At(q) + 1
      /\ \A k \in 1 .. Len(proc[q].prog) : proc[q].prog[k] = Prog(q)[At(q) + k - 1]
  BY <1>3, AtItsStep
<1> DEFINE k == i - At(q) + 1
<1>7. k \in DOMAIN proc[q].prog /\ proc[q].prog[k] = Prog(q)[i]
  BY <1>3, <1>5, <1>6
<1>8. proc[q].prog[k] \in ToSet(proc[q].prog)
  BY <1>7 DEF ToSet
<1> QED
  BY <1>2, <1>7, <1>8

(* A null pointer is followed only while another process still maps.       *)
LEMMA NullStep ==
  ASSUME Shape, MapInv, NullOnlyWhileMapping, [Next]_vars PROVE NullOnlyWhileMapping'
<1> SUFFICES ASSUME oops' PROVE NullOnlyWhileMapping'
  BY DEF NullOnlyWhileMapping
<1>1. CASE oops
  <2>1. UNCHANGED vars
    BY <1>1 DEF Next, Runs, Opens, Calls, CallsAgain, Closes, Press
  <2> QED BY <1>1, <2>1 DEF NullOnlyWhileMapping, vars
<1>2. CASE ~oops
  <2>1. PICK p \in Procs : Runs(p) /\ NullFollowed(p, StepOf(p))
    <3>1. PICK p \in Procs : Runs(p)
      BY <1>2 DEF Next, Opens, Calls, CallsAgain, Closes, Press, kept, vars
    <3> DEFINE st == StepOf(p)
    <3> HIDE DEF st
    <3>2. \/ Skipped(p, st) \/ Toggled(p, st) \/ Steps(p, st) \/ NullFollowed(p, st)
      BY <3>1, RunsAs DEF st
    <3>3. NullFollowed(p, st)
      BY <1>2, <3>2 DEF Skipped, Toggled, Steps, Mapped, Loaded, Stored, Unpressed,
                        StoredPiece, FetchedPiece
    <3> QED BY <3>1, <3>3 DEF st
  <2>2. AtStep(p) /\ On(p)
    BY <2>1, RunsAs DEF AtStep
  <2>3. /\ StepOf(p).op \in Moves /\ ~Reachable(StepOf(p).ptr) /\ proc' = proc
    BY <2>1 DEF NullFollowed, Moves, Stores, Rmw
  <2>4. dev \in Lazy /\ StepOf(p).ptr \notin mapped
    BY <2>3 DEF Reachable
  <2>5. StepOf(p).ptr \in Ptrs(F)
    BY <2>2, <2>3, <2>4, LazyProgram
  <2>6. proc[p].phase = "opening" => At(p) > 2
    <3> SUFFICES ASSUME proc[p].phase = "opening" PROVE At(p) > 2
      OBVIOUS
    <3>1. PICK n \in 1 .. Len(Prog(p)) - 1 :
            /\ Prog(p)[1].op = "unless"
            /\ \A i \in 2 .. Len(Prog(p)) : Prog(p)[i].op = "map" <=> i <= n + 1
      BY <2>2, <2>4, LazyProgram DEF TestsAndMaps
    <3>2. At(p) \in 1 .. Len(Prog(p)) /\ Len(Prog(p)) \in Nat
      BY <2>2, AtItsStep
    <3>3. StepOf(p).op \notin {"unless", "map"}
      BY <2>3 DEF Moves, Stores, Rmw
    <3> QED BY <3>1, <3>2, <3>3 DEF StepOf
  <2>7. First(F) \in mapped
    BY <2>2, <2>4, <2>6 DEF MapInv, PastFirst
  <2>8. PICK q \in Procs : WillMap(q, StepOf(p).ptr)
    BY <2>4, <2>5, <2>7 DEF MapInv
  <2> QED BY <2>3, <2>8, MapLeft DEF NullOnlyWhileMapping
<1> QED
  BY <1>1, <1>2

(* A null pointer is followed only while another process is between the    *)
(* first and the last of the ioremaps.                                     *)
THEOREM NullOnlyWhileMappingHolds == Spec => []NullOnlyWhileMapping
<1>1. Init => MapInv /\ NullOnlyWhileMapping
  BY DEF Init, MapInv, NullOnlyWhileMapping, PastFirst, On, Out
<1>2. Shape /\ MapInv /\ NullOnlyWhileMapping /\ [Next]_vars
        => MapInv' /\ NullOnlyWhileMapping'
  BY MapStep, NullStep
<1> QED
  BY <1>1, <1>2, Positions, PTL DEF Spec

-----------------------------------------------------------------------------
(* Registers.                                                               *)

(* A process that stores.                                                  *)
StoresNow(p) ==
  /\ AtStep(p) /\ On(p) /\ Stored(p, StepOf(p)) /\ StepOf(p).op \in Stores
  /\ At(p) \in 1 .. Len(Prog(p)) /\ Len(Prog(p)) \in Nat
  /\ OthersSame(p) /\ GoesTo(p, At(p) + 1)

(* Nothing else but a finger changes a register.                           *)
LEMMA RegCases ==
  ASSUME Shape, [Next]_vars
  PROVE  \/ \E p \in Procs : StoresNow(p)
         \/ Press
         \/ UNCHANGED <<reg, asked, raced>>
<1>1. ASSUME NEW p \in Procs, Acts(p), ~UNCHANGED <<reg, asked, raced>>
      PROVE  StoresNow(p)
  <2>1. Stepping(p) /\ AtStep(p) /\ On(p)
    BY <1>1 DEF Acts, Skipping, Stepping, Opening, Calling, Leaving, shared, AtStep
  <2> DEFINE st == StepOf(p)
  <2>2. Steps(p, st)
    BY <2>1 DEF Stepping
  <2> HIDE DEF st
  <2>3. Stored(p, st)
    BY <1>1, <2>2 DEF Steps, Mapped, Loaded, Unpressed, StoredPiece, FetchedPiece
  <2>4. st.op \in Stores
    BY <2>3 DEF Stored, Stores, Rmw
  <2> QED BY <1>1, <2>1, <2>3, <2>4, AtItsStep DEF StoresNow, Stepping, Acts, st
<1> QED
  BY <1>1, StepCases DEF Idling

(* What a store to a LED's register does.                                  *)
LEMMA StoreAtLed ==
  ASSUME Shape, NEW p \in Procs, StoresNow(p), NEW u \in DOMAIN F.data,
         F.data[u].r = StepOf(p).cell
  PROVE  LET w == proc[p].w
         IN  /\ w \in DOMAIN F.data /\ F.data[w].r = StepOf(p).cell
             /\ StepOf(p).v = {F.data[w].bit}
             /\ Wish(p) \in {"on", "off"}
             /\ StepOf(p).op \in {"or", "set", "andnot", "clear"}
             /\ StepOf(p).op \in {"or", "set"} <=> ((Wish(p) = "on") = (F.data[w].level = 1))
<1>1. /\ StoresTheWish(F, proc[p].w, proc[p].s, Prog(p))
      /\ proc[p].phase = "opening" <=> proc[p].s = "none"
  BY ProgramOf DEF ProgramFits, StoresNow, Shape, Follows
<1>2. Wish(p) = WishOf(proc[p].s)
  BY <1>1 DEF Wish, WishOf
<1>3. StepOf(p) = Prog(p)[At(p)] /\ At(p) \in 1 .. Len(Prog(p)) /\ StepOf(p).op \in Stores
  BY DEF StoresNow, StepOf
<1> QED
  BY <1>1, <1>2, <1>3 DEF StoresTheWish

(* A store names a register of the driver.                                 *)
LEMMA StoreInReset ==
  ASSUME Shape, NEW p \in Procs, StoresNow(p) PROVE StepOf(p).cell \in DOMAIN F.reset
<1>1. StoresItsBits(F, proc[p].w, Prog(p))
  BY ProgramOf DEF ProgramFits, StoresNow
<1> QED
  BY <1>1 DEF StoresItsBits, StoresNow, StepOf, Moves

(* The registers stay the driver's.                                        *)
LEMMA RegTypesStep == ASSUME Shape, RegTypes, [Next]_vars PROVE RegTypes'
<1>1. F' = F
  BY ShapeStep
<1>2. CASE UNCHANGED <<reg, asked, raced>>
  BY <1>1, <1>2 DEF RegTypes
<1>3. CASE Press
  BY <1>1, <1>3 DEF RegTypes, Press
<1>4. ASSUME NEW p \in Procs, StoresNow(p) PROVE RegTypes'
  <2> DEFINE st == StepOf(p)
  <2>1. st.cell \in DOMAIN F.reset
    BY <1>4, StoreInReset
  <2>2. Stored(p, st)
    BY <1>4 DEF StoresNow
  <2>3. \A w \in DOMAIN F.data : F.data[w].r = st.cell => Wish(p) \in {"on", "off"}
    BY <1>4, StoreAtLed
  <2> HIDE DEF st
  <2>4. DOMAIN reg' = DOMAIN reg /\ raced' \subseteq raced \cup {st.cell}
    BY <2>2 DEF Stored
  <2>5. asked' = [w \in DOMAIN asked |->
                    IF w = proc[p].w /\ F.data[w].r = st.cell THEN Wish(p) ELSE asked[w]]
    BY <2>2 DEF Stored, Aimed
  <2>6. asked' \in [DOMAIN F.data -> {"none", "on", "off"}]
    BY <2>3, <2>5 DEF RegTypes
  <2> QED BY <1>1, <2>1, <2>4, <2>6 DEF RegTypes
<1> QED
  BY <1>2, <1>3, <1>4, RegCases

(* Two LEDs of one register share it.                                      *)
LEMMA TwoAreMany ==
  ASSUME NEW S, S \subseteq 0 .. 3, NEW x \in S, NEW y \in S, x # y
  PROVE  Cardinality(S) > 1
<1>1. IsFiniteSet(0 .. 3)
  <2>1. 0 \in Int /\ 3 \in Int
    OBVIOUS
  <2> QED BY <2>1, FS_Interval, Zenon
<1>2. IsFiniteSet(S)
  BY <1>1, FS_Subset
<1>3. IsFiniteSet({x, y}) /\ Cardinality({x, y}) = 2
  <2>1. IsFiniteSet({x}) /\ Cardinality({x}) = 1
    BY FS_Singleton
  <2>2. /\ IsFiniteSet({x} \cup {y})
        /\ Cardinality({x} \cup {y}) = Cardinality({x}) + 1
    BY <2>1, FS_AddElement
  <2>3. {x} \cup {y} = {x, y}
    OBVIOUS
  <2> QED BY <2>1, <2>2, <2>3
<1>4. Cardinality({x, y}) <= Cardinality(S) /\ Cardinality(S) \in Nat
  BY <1>2, <1>3, FS_Subset, FS_CardinalityType
<1> QED
  BY <1>3, <1>4

(* A store shows its own LED as asked, and leaves the others as they are   *)
(* or notes the race.                                                      *)
LEMMA LedsStep ==
  ASSUME Shape, RegTypes, LedsShowTheLastWrite, [Next]_vars PROVE LedsShowTheLastWrite'
<1>1. F' = F
  BY ShapeStep
<1>2. \A r : SharedData(r)' = SharedData(r)
  BY <1>1 DEF SharedData
<1>3. CASE UNCHANGED <<reg, asked, raced>>
  BY <1>1, <1>2, <1>3 DEF LedsShowTheLastWrite, Lights
<1>4. CASE Press
  <2>1. DOMAIN F.data = {}
    BY <1>4, FileOfDev DEF FileFits, Particular, Press
  <2> QED BY <1>1, <1>4, <2>1 DEF LedsShowTheLastWrite, Press, RegTypes
<1>5. ASSUME NEW p \in Procs, StoresNow(p), NEW u \in DOMAIN F.data, asked'[u] # "none"
      PROVE  \/ Lights(u, reg[F.data[u].r])' = (asked'[u] = "on")
             \/ F.data[u].r \in raced' /\ SharedData(F.data[u].r)
  <2> DEFINE st == StepOf(p)
             w == proc[p].w
             r == F.data[u].r
  <2>1. Stored(p, st) /\ st.cell \in DOMAIN reg
    BY <1>5, StoreInReset DEF StoresNow, RegTypes
  <2>2. r = st.cell =>
          /\ w \in DOMAIN F.data /\ F.data[w].r = st.cell /\ st.v = {F.data[w].bit}
          /\ Wish(p) \in {"on", "off"} /\ st.op \in {"or", "set", "andnot", "clear"}
          /\ st.op \in {"or", "set"} <=> ((Wish(p) = "on") = (F.data[w].level = 1))
    BY <1>5, StoreAtLed
  <2> HIDE DEF st
  <2>3. /\ reg' = [reg EXCEPT ![st.cell] = Result(p, st)] /\ raced \subseteq raced'
        /\ st.op \in Rmw /\ reg[st.cell] # proc[p].tmp => st.cell \in raced'
        /\ asked' = [v \in DOMAIN asked |->
                       IF v = w /\ F.data[v].r = st.cell THEN Wish(p) ELSE asked[v]]
    BY <2>1 DEF Stored, Aimed, Rmw
  <2>4. u \in DOMAIN asked
    BY DEF RegTypes
  <2>5. CASE r # st.cell
    <3>1. reg'[r] = reg[r] /\ asked'[u] = asked[u]
      BY <2>3, <2>4, <2>5
    <3>2. (Lights(u, reg[r]) = (asked[u] = "on")) \/ (r \in raced /\ SharedData(r))
      BY <1>5, <2>4, <3>1 DEF LedsShowTheLastWrite
    <3> QED BY <1>1, <2>3, <3>1, <3>2 DEF Lights
  <2>6. CASE r = st.cell /\ u = w
    <3>1. asked'[u] = Wish(p) /\ reg'[r] = Result(p, st)
      BY <2>1, <2>2, <2>3, <2>4, <2>6
    <3>2. F.data[u].bit \in Result(p, st) <=> st.op \in {"or", "set"}
      BY <2>2, <2>6 DEF Result
    <3>3. Lights(u, reg[r])' <=> asked'[u] = "on"
      BY <1>1, <2>2, <2>6, <3>1, <3>2 DEF Lights
    <3> QED BY <3>3 DEF Lights
  <2>7. CASE r = st.cell /\ u # w
    <3>1. asked'[u] = asked[u] /\ reg'[r] = Result(p, st)
      BY <2>1, <2>3, <2>4, <2>7
    <3>2. SharedData(r)
      <4> DEFINE S == {v \in DOMAIN F.data : F.data[v].r = r}
      <4>1. S \subseteq 0 .. 3 /\ u \in S /\ w \in S
        BY <2>2, <2>7, FileOfDev DEF FileFits, Fields
      <4> HIDE DEF S
      <4>2. Cardinality(S) > 1
        BY <2>7, <4>1, TwoAreMany
      <4> QED BY <4>2 DEF S, SharedData
    <3>3. CASE st.op \in Rmw /\ reg[st.cell] # proc[p].tmp
      BY <2>3, <2>7, <3>2, <3>3
    <3>4. CASE ~(st.op \in Rmw /\ reg[st.cell] # proc[p].tmp)
      <4>1. F.data[u].bit # F.data[w].bit
        BY <2>2, <2>7, FileOfDev DEF FileFits, Fields
      <4>2. F.data[u].bit \in Result(p, st) <=> F.data[u].bit \in reg[r]
        BY <2>2, <2>7, <3>4, <4>1 DEF Result, Rmw
      <4>3. (Lights(u, reg[r]) = (asked[u] = "on")) \/ (r \in raced /\ SharedData(r))
        BY <1>5, <2>4, <3>1 DEF LedsShowTheLastWrite
      <4>4. Lights(u, reg[r])' = Lights(u, reg[r])
        BY <1>1, <3>1, <4>2 DEF Lights
      <4> QED BY <2>3, <3>1, <3>2, <4>3, <4>4
    <3> QED BY <3>3, <3>4
  <2> QED BY <2>5, <2>6, <2>7
<1>6. ASSUME NEW p \in Procs, StoresNow(p) PROVE LedsShowTheLastWrite'
  <2>1. DOMAIN asked' = DOMAIN F.data
    BY RegTypesStep, <1>1 DEF RegTypes
  <2> QED BY <1>1, <1>2, <1>5, <1>6, <2>1 DEF LedsShowTheLastWrite
<1> QED
  BY <1>3, <1>4, <1>6, RegCases

(* The registers are the driver's at first.                                *)
LEMMA RegTypesInit == ASSUME Init PROVE RegTypes
BY DEF Init, RegTypes

(* Each LED is as the last store aimed at it asked, unless its data        *)
(* register serves several LEDs and was raced for.                         *)
THEOREM LedsShowTheLastWriteHolds == Spec => []LedsShowTheLastWrite
<1>1. Init => RegTypes /\ LedsShowTheLastWrite
  BY RegTypesInit DEF Init, LedsShowTheLastWrite
<1>2. Shape /\ RegTypes /\ LedsShowTheLastWrite /\ [Next]_vars
        => RegTypes' /\ LedsShowTheLastWrite'
  BY RegTypesStep, LedsStep
<1> QED
  BY <1>1, <1>2, Positions, PTL DEF Spec

(* A process that is to change a register has just loaded it.              *)
LEMMA ArrivesAtChange ==
  ASSUME Shape, NEW p \in Procs, Acts(p), AtStep(p)', StepOf(p)'.op \in Rmw
  PROVE  /\ Stepping(p) /\ On(p) /\ UNCHANGED <<reg, raced>>
         /\ StepOf(p).op = "load" /\ StepOf(p).cell = StepOf(p)'.cell
         /\ proc'[p].tmp = reg[StepOf(p)'.cell]
<1>1. ~On(p)' => ~AtStep(p)'
  BY DEF AtStep
<1>2. ~Leaving(p)
  BY <1>1 DEF Leaving
<1>3. ASSUME NEW ph, NEW w \in F.which, NEW s \in Wishes(F), Starts(p, ph, w, s)
      PROVE  FALSE
  <2> DEFINE P == Program(F, w, s)
  <2>1. ChangesWhatItLoaded(P) /\ P \in Seq(StepsOf(P))
    BY FileOfDev DEF FileFits, ProgramFits
  <2>2. StepOf(p)' = P[1] /\ 1 <= Len(P)
    BY <1>3 DEF Starts
  <2> HIDE DEF P
  <2>3. 1 \in 1 .. Len(P)
    BY <2>1, <2>2, LenProperties
  <2>4. 1 > 1
    BY <2>1, <2>2, <2>3 DEF ChangesWhatItLoaded
  <2> QED BY <2>4
<1>4. ~Opening(p)
  BY <1>3 DEF Opening, Wishes
<1>5. ~Calling(p)
  BY <1>3 DEF Calling, Shape, Follows
<1>6. AtStep(p) /\ On(p) /\ At(p) \in 1 .. Len(Prog(p)) /\ Len(Prog(p)) \in Nat
      /\ ChangesWhatItLoaded(Prog(p))
  <2>1. AtStep(p) /\ On(p)
    BY <1>2, <1>4, <1>5 DEF Acts, Skipping, Stepping, AtStep
  <2> QED BY <2>1, AtItsStep, ProgramOf DEF ProgramFits
<1>7. ASSUME NEW n \in 2 .. Len(Prog(p)) + 1, GoesTo(p, n)
      PROVE  /\ Prog(p)[n - 1].op = "load" /\ Prog(p)[n - 1].cell = StepOf(p)'.cell
  <2>1. n <= Len(Prog(p)) /\ StepOf(p)' = Prog(p)[n]
    BY <1>7 DEF GoesTo
  <2> QED BY <1>6, <2>1 DEF ChangesWhatItLoaded
<1>8. ~Skipping(p)
  <2> SUFFICES ASSUME NEW n \in 1 .. Len(Prog(p)) - 1, Tests(p, n),
                      GoesTo(p, IF First(F) \in mapped THEN n + 2 ELSE 2)
               PROVE  FALSE
    BY DEF Skipping
  <2> DEFINE m == IF First(F) \in mapped THEN n + 2 ELSE 2
  <2>1. m \in 2 .. Len(Prog(p)) + 1 /\ m - 1 \in 1 .. n + 1
    BY <1>6
  <2>2. GoesTo(p, m)
    OBVIOUS
  <2> HIDE DEF m
  <2>3. Prog(p)[m - 1].op = "load"
    BY <1>7, <2>1, <2>2
  <2>4. Prog(p)[m - 1].op \in {"unless", "map"}
    BY <2>1 DEF Tests
  <2> QED BY <2>3, <2>4
<1>9. Stepping(p)
  BY <1>2, <1>4, <1>5, <1>8 DEF Acts
<1>10. StepOf(p).op = "load" /\ StepOf(p).cell = StepOf(p)'.cell
  <2> DEFINE n == At(p) + 1
  <2>1. n \in 2 .. Len(Prog(p)) + 1 /\ GoesTo(p, n) /\ n - 1 = At(p)
    BY <1>6, <1>9 DEF Stepping
  <2> HIDE DEF n
  <2> QED BY <1>7, <2>1 DEF StepOf
<1>11. UNCHANGED <<reg, raced>>
  <2> DEFINE st == StepOf(p)
  <2>1. Steps(p, st) /\ st.op = "load"
    BY <1>9, <1>10 DEF Stepping
  <2> HIDE DEF st
  <2> QED BY <2>1 DEF Steps, Mapped, Loaded, Stored, Unpressed, StoredPiece, FetchedPiece
<1> QED
  BY <1>6, <1>9, <1>10, <1>11 DEF Stepping

(* The bits a store sets are bits the register may have.                   *)
LEMMA StoreInBits ==
  ASSUME Shape, NEW p \in Procs, StoresNow(p), StepOf(p).op \in {"or", "nibble", "put", "set"}
  PROVE  StepOf(p).v \subseteq BitsOf(StepOf(p).cell)
<1> DEFINE st == StepOf(p)
           w == proc[p].w
<1>1. /\ StoresItsBits(F, w, Prog(p)) /\ st = Prog(p)[At(p)]
      /\ At(p) \in 1 .. Len(Prog(p)) /\ w \in F.which
  BY ProgramOf DEF ProgramFits, StoresNow, StepOf, Shape, Follows
<1>2. CASE \E n \in F.needs[w] : n[1] = st.cell /\ st.v \subseteq n[2]
  <2>1. PICK n \in F.needs[w] : n[1] = st.cell /\ st.v \subseteq n[2]
    BY <1>2
  <2>2. n \in UNION {F.needs[u] : u \in F.which}
    BY <1>1, <2>1
  <2>3. n[2] \in {m[2] : m \in {k \in UNION {F.needs[u] : u \in F.which} : k[1] = st.cell}}
    BY <2>1, <2>2
  <2> QED BY <2>1, <2>3 DEF BitsOf
<1>3. CASE \E u \in DOMAIN F.data : F.data[u].r = st.cell
  <2>1. w \in DOMAIN F.data /\ F.data[w].r = st.cell /\ st.v = {F.data[w].bit}
    BY <1>3, StoreAtLed
  <2> QED BY <2>1 DEF BitsOf
<1> QED
  BY <1>1, <1>2, <1>3 DEF StoresItsBits

(* No store sets a bit of a pin that is not the driver's.                  *)
LEMMA BitsStep == ASSUME Shape, RegTypes, BitsInv, [Next]_vars PROVE BitsInv'
<1>1. F' = F /\ Shape'
  BY ShapeStep
<1>2. \A r : BitsOf(r)' = BitsOf(r)
  BY <1>1 DEF BitsOf
<1>3. \A r \in DOMAIN reg' : reg'[r] \subseteq BitsOf(r)
  <2>1. CASE UNCHANGED reg
    BY <2>1 DEF BitsInv
  <2>2. CASE Press
    <3>1. F.which \subseteq F.reset.dr
      BY <2>2, FileOfDev DEF FileFits, Particular, Press
    <3>2. F.which \subseteq BitsOf("dr")
      BY <3>1 DEF BitsOf
    <3>3. PICK w \in F.which :
            reg' = [reg EXCEPT !.dr = IF w \in @ THEN @ \ {w} ELSE @ \cup {w}]
      BY <2>2 DEF Press
    <3> QED BY <3>2, <3>3 DEF BitsInv
  <2>3. ASSUME NEW p \in Procs, StoresNow(p) PROVE \A r \in DOMAIN reg' : reg'[r] \subseteq BitsOf(r)
    <3> DEFINE st == StepOf(p)
    <3>1. /\ st.op \in {"or", "nibble", "put", "set"} => st.v \subseteq BitsOf(st.cell)
          /\ st.op \in Rmw => proc[p].tmp \subseteq BitsOf(st.cell)
          /\ Stored(p, st) /\ st.cell \in DOMAIN reg /\ st.op \in Stores
      BY <2>3, StoreInBits, StoreInReset DEF BitsInv, StoresNow, RegTypes
    <3> HIDE DEF st
    <3>2. reg[st.cell] \subseteq BitsOf(st.cell)
      BY <3>1 DEF BitsInv
    <3>3. Result(p, st) \subseteq BitsOf(st.cell)
      BY <3>1, <3>2 DEF Result, Stores, Rmw
    <3>4. reg' = [reg EXCEPT ![st.cell] = Result(p, st)]
      BY <3>1 DEF Stored
    <3> QED BY <3>3, <3>4 DEF BitsInv
  <2> QED BY <2>1, <2>2, <2>3, RegCases
<1>4. ASSUME NEW q \in Procs, AtStep(q)', StepOf(q)'.op \in Rmw
      PROVE  proc'[q].tmp \subseteq BitsOf(StepOf(q)'.cell)
  <2>1. CASE Same(q)
    BY <1>4, <2>1 DEF Same, BitsInv
  <2>2. CASE Acts(q)
    <3>1. /\ StepOf(q).op = "load" /\ StepOf(q).cell = StepOf(q)'.cell
          /\ proc'[q].tmp = reg[StepOf(q)'.cell] /\ On(q)
      BY <1>4, <2>2, ArrivesAtChange
    <3>2. StepOf(q).cell \in DOMAIN reg
      <4>1. StoresItsBits(F, proc[q].w, Prog(q)) /\ At(q) \in 1 .. Len(Prog(q))
        BY <1>4, <2>2, <3>1, ArrivesAtChange, ProgramOf, AtItsStep DEF ProgramFits, Stepping
      <4> QED BY <3>1, <4>1 DEF StoresItsBits, StepOf, Moves, RegTypes
    <3> QED BY <3>1, <3>2 DEF BitsInv
  <2> QED BY <2>1, <2>2, StepCases DEF Idling, Acts, OthersSame
<1> QED
  BY <1>2, <1>3, <1>4 DEF BitsInv

-----------------------------------------------------------------------------
(* Pins.                                                                    *)

\* Some process stores to a register, in this step.
StoreTo(p, r) == StoresNow(p) /\ StepOf(p).cell = r
NoStoreTo(r) == \A p \in Procs : ~StoreTo(p, r)

(* A store to a register that a pin needs is part of an open.              *)
LEMMA StoreAtPin ==
  ASSUME Shape, NEW q \in Procs, NEW u \in F.which, NEW n \in F.needs[u],
         StoreTo(q, n[1])
  PROVE  LET w == proc[q].w
         IN  /\ proc[q].phase = "opening" /\ \E m \in F.needs[w] : m[1] = n[1]
             /\ w = u => IF dev \in ClearFirst /\ Both(n)
                         THEN Clears(Prog(q), At(q), n) \/ SetsCleared(Prog(q), At(q), n)
                         ELSE Settles(StepOf(q), n)
             /\ w # u => /\ ~Both(n)
                         /\ \/ StepOf(q).op = "or" /\ n[3] \cap StepOf(q).v = {}
                            \/ StepOf(q).op = "andnot" /\ n[2] \cap StepOf(q).v = {}
<1>1. /\ SettlesItsNeeds(dev, F, proc[q].w, proc[q].s, Prog(q))
      /\ proc[q].phase = "opening" <=> proc[q].s = "none"
  BY ProgramOf DEF ProgramFits, StoresNow, StoreTo, Shape, Follows
<1>2. /\ At(q) \in 1 .. Len(Prog(q)) /\ StepOf(q) = Prog(q)[At(q)]
      /\ StoresAt(Prog(q), At(q), n[1])
  BY DEF StoresNow, StoreTo, StepOf, StoresAt
<1> QED
  BY <1>1, <1>2 DEF SettlesItsNeeds

(* Opening a pin stores to each register it needs.                         *)
LEMMA OpenStores ==
  ASSUME Shape, NEW w \in F.which, NEW n \in F.needs[w]
  PROVE  LET P == Program(F, w, "none")
         IN  \E i \in 1 .. Len(P) : StoresAt(P, i, n[1])
BY FileOfDev DEF FileFits, ProgramFits, SettlesItsNeeds, Wishes

(* A process at a store stores.                                            *)
LEMMA StepStores ==
  ASSUME Shape, NEW p \in Procs, Acts(p), Stepping(p), StepOf(p).op \in Stores
  PROVE  StoresNow(p)
<1> DEFINE st == StepOf(p)
<1>1. Steps(p, st) /\ st.op \in Stores /\ AtStep(p) /\ On(p)
  BY DEF Stepping, AtStep
<1> HIDE DEF st
<1>2. Stored(p, st)
  BY <1>1 DEF Steps, Mapped, Loaded, Unpressed, StoredPiece, FetchedPiece, Stores, Rmw
<1> QED
  BY <1>1, <1>2, AtItsStep DEF StoresNow, Stepping, Acts, st

(* Nothing but a store to it changes what an opening process has done and  *)
(* has still to do to a register.                                          *)
LEMMA StoresKept ==
  ASSUME Shape, NEW p \in Procs, Acts(p), NEW r, ~StoreTo(p, r),
         proc[p].phase = "opening"
  PROVE  /\ StoresAhead(p, r) => /\ proc'[p].phase = "opening" /\ proc'[p].w = proc[p].w
                                 /\ StoresAhead(p, r)'
         /\ proc'[p].phase = "opening" /\ HasStored(p, r)' => HasStored(p, r)
<1>1. On(p) /\ At(p) \in 1 .. Len(Prog(p)) + 1 /\ Len(Prog(p)) \in Nat
  <2>1. On(p)
    BY DEF On
  <2> QED BY <2>1, AtItsStep
<1>2. CASE Skipping(p)
  <2>1. PICK n \in 1 .. Len(Prog(p)) - 1 :
          Tests(p, n) /\ GoesTo(p, IF First(F) \in mapped THEN n + 2 ELSE 2)
    BY <1>2 DEF Skipping
  <2> DEFINE m == IF First(F) \in mapped THEN n + 2 ELSE 2
  <2>2. m \in 2 .. n + 2 /\ GoesTo(p, m) /\ (m = 2 \/ m = n + 2)
    BY <1>1, <2>1
  <2> HIDE DEF m
  <2>3. \A i \in 1 .. n + 1 : ~StoresAt(Prog(p), i, r)
    BY <2>1 DEF Tests, StoresAt, Stores, Rmw
  <2>4. At(p)' = m /\ Prog(p)' = Prog(p) /\ proc'[p].phase = "opening" /\ proc'[p].w = proc[p].w
    BY <2>2 DEF GoesTo
  <2>5. StoresAhead(p, r) => StoresAhead(p, r)'
    <3> SUFFICES ASSUME NEW i \in At(p) .. Len(Prog(p)), StoresAt(Prog(p), i, r)
                 PROVE  StoresAhead(p, r)'
      BY DEF StoresAhead
    <3>1. i \in m .. Len(Prog(p))
      BY <1>1, <2>2, <2>3
    <3> QED BY <2>4, <3>1 DEF StoresAhead, StoresAt
  <2>6. ~HasStored(p, r)'
    <3> SUFFICES ASSUME NEW i \in 1 .. m - 1, StoresAt(Prog(p), i, r) PROVE FALSE
      BY <2>4 DEF HasStored, StoresAt
    <3> QED BY <2>2, <2>3
  <2> QED BY <2>4, <2>5, <2>6
<1>3. CASE Stepping(p)
  <2>1. At(p)' = At(p) + 1 /\ Prog(p)' = Prog(p) /\ proc'[p].phase = "opening"
        /\ proc'[p].w = proc[p].w
    BY <1>3 DEF Stepping, GoesTo
  <2>2. ~StoresAt(Prog(p), At(p), r)
    BY <1>3, StepStores DEF StoresAt, StoreTo, StepOf
  <2>3. StoresAhead(p, r) => StoresAhead(p, r)'
    <3> SUFFICES ASSUME NEW i \in At(p) .. Len(Prog(p)), StoresAt(Prog(p), i, r)
                 PROVE  StoresAhead(p, r)'
      BY DEF StoresAhead
    <3>1. i \in At(p) + 1 .. Len(Prog(p))
      BY <1>1, <2>2
    <3> QED BY <2>1, <3>1 DEF StoresAhead, StoresAt
  <2>4. HasStored(p, r)' => HasStored(p, r)
    <3> SUFFICES ASSUME NEW i \in 1 .. At(p)' - 1, StoresAt(Prog(p)', i, r)
                 PROVE  HasStored(p, r)
      BY DEF HasStored, StoresAt
    <3>1. i \in 1 .. At(p) - 1 /\ StoresAt(Prog(p), i, r)
      BY <1>1, <2>1, <2>2
    <3> QED BY <3>1 DEF HasStored
  <2> QED BY <2>1, <2>3, <2>4
<1>4. CASE Calling(p)
  <2>1. ~AtStep(p) /\ proc'[p].phase # "opening"
    BY <1>4 DEF Calling, Starts
  <2>2. ~StoresAhead(p, r)
    BY <1>1, <2>1 DEF AtStep, StoresAhead
  <2> QED BY <2>1, <2>2
<1>5. ~Opening(p) /\ ~Leaving(p)
  BY <1>1 DEF Opening, Leaving
<1> QED
  BY <1>2, <1>3, <1>4, <1>5 DEF Acts

(* So a pin becomes settled, or cleared, by a store only.                  *)
LEMMA PinKept ==
  ASSUME Shape, NEW p \in Procs, Same(p) \/ Acts(p), On(p)',
         NEW n \in F.needs[proc'[p].w], ~StoreTo(p, n[1]), F' = F
  PROVE  /\ Settled(p, n[1])' => /\ On(p) /\ proc'[p].w = proc[p].w /\ Settled(p, n[1])
         /\ Cleared(p, n[1])' => /\ On(p) /\ proc'[p].w = proc[p].w /\ Cleared(p, n[1])
<1> DEFINE r == n[1]
<1>1. CASE Same(p)
  BY <1>1 DEF Same, Settled, Cleared, StoresAhead, HasStored, StoresAt
<1>2. CASE Acts(p) /\ proc[p].phase = "opening"
  <2>1. On(p)
    BY <1>2 DEF On
  <2>2. /\ At(p) \in 1 .. Len(Prog(p)) + 1 /\ Len(Prog(p)) \in Nat
        /\ proc[p].w \in F.which /\ proc[p].s = "none"
    BY <1>2, <2>1, AtItsStep DEF Shape, Follows
  <2>3. proc'[p].w = proc[p].w
    <3>1. ~Opening(p) /\ ~Leaving(p)
      BY <1>2, <2>1 DEF Opening, Leaving
    <3> QED BY <1>2, <3>1 DEF Acts, Skipping, Stepping, Calling, GoesTo, Starts
  <2>4. CASE proc'[p].phase = "opening"
    BY <1>2, <2>1, <2>3, <2>4, StoresKept DEF Settled, Cleared
  <2>5. CASE proc'[p].phase # "opening"
    <3>1. Calling(p)
      BY <1>2, <2>1, <2>5
         DEF Acts, Skipping, Stepping, Opening, Leaving, GoesTo, Starts
    <3>2. At(p) = Len(Prog(p)) + 1
      BY <1>2, <2>1, <2>2, <3>1 DEF Calling, AtStep
    <3>3. ~StoresAhead(p, r)
      BY <2>2, <3>2 DEF StoresAhead
    <3>4. HasStored(p, r)
      <4>1. Prog(p) = Program(F, proc[p].w, "none")
        BY <2>2 DEF Prog
      <4>2. \E i \in 1 .. Len(Prog(p)) : StoresAt(Prog(p), i, r)
        BY <2>2, <2>3, <4>1, OpenStores
      <4> QED BY <2>2, <3>2, <4>2 DEF HasStored
    <3> QED BY <2>1, <2>3, <3>3, <3>4 DEF Settled, Cleared
  <2> QED BY <2>4, <2>5
<1>3. CASE Opening(p)
  <2>1. PICK w \in F.which : Starts(p, "opening", w, "none")
    BY <1>3 DEF Opening
  <2>2. /\ proc'[p].w = w /\ proc'[p].phase = "opening" /\ At(p)' = 1
        /\ Prog(p)' = Program(F, w, "none")
    BY <2>1 DEF Starts
  <2>3. StoresAhead(p, r)'
    <3>1. \E i \in 1 .. Len(Prog(p)') : StoresAt(Prog(p)', i, r)
      BY <2>2, OpenStores
    <3> QED BY <2>2, <3>1 DEF StoresAhead, StoresAt
  <2>4. ~HasStored(p, r)'
    BY <2>2 DEF HasStored
  <2> QED BY <2>2, <2>3, <2>4 DEF Settled, Cleared
<1>4. CASE Acts(p) /\ proc[p].phase # "opening" /\ ~Opening(p)
  <2>1. On(p) /\ proc'[p].w = proc[p].w
    BY <1>4 DEF Acts, Skipping, Stepping, Calling, Leaving, GoesTo, Starts, AtStep
  <2> QED BY <1>4, <2>1 DEF Settled, Cleared
<1> QED
  BY <1>1, <1>2, <1>3, <1>4

(* What a store to a register of a pin makes of it.                        *)
LEMMA StoredAs ==
  ASSUME Shape, RegTypes, NEW q \in Procs, NEW r, StoreTo(q, r)
  PROVE  /\ reg'[r] = Result(q, StepOf(q)) /\ raced \subseteq raced'
         /\ StepOf(q).op \in Rmw /\ reg[r] # proc[q].tmp => r \in raced'
         /\ On(q) /\ proc'[q].phase = proc[q].phase /\ proc'[q].w = proc[q].w
         /\ At(q)' = At(q) + 1 /\ Prog(q)' = Prog(q)
         /\ At(q) \in 1 .. Len(Prog(q)) /\ Len(Prog(q)) \in Nat
         /\ \A p \in Procs \ {q} : Same(p)
<1> DEFINE st == StepOf(q)
<1>1. /\ Stored(q, st) /\ st.cell = r /\ r \in DOMAIN reg
      /\ GoesTo(q, At(q) + 1) /\ OthersSame(q) /\ On(q)
      /\ At(q) \in 1 .. Len(Prog(q)) /\ Len(Prog(q)) \in Nat
  BY StoreInReset DEF StoreTo, StoresNow, RegTypes
<1> HIDE DEF st
<1>2. /\ reg' = [reg EXCEPT ![st.cell] = Result(q, st)] /\ raced \subseteq raced'
      /\ st.op \in Rmw /\ reg[st.cell] # proc[q].tmp => st.cell \in raced'
  BY <1>1 DEF Stored, Rmw
<1>3. reg'[r] = Result(q, st)
  BY <1>1, <1>2
<1> QED
  BY <1>1, <1>2, <1>3 DEF st, GoesTo, OthersSame

(* A register a pin needs changes by stores to it only.                    *)
LEMMA NeedKept ==
  ASSUME Shape, RegTypes, [Next]_vars, NEW u \in F.which, NEW n \in F.needs[u],
         NoStoreTo(n[1])
  PROVE  reg'[n[1]] = reg[n[1]] /\ raced \subseteq raced'
<1>1. CASE Press
  <2>1. n[1] # "dr" /\ n[1] \in DOMAIN reg
    BY <1>1, FileOfDev DEF FileFits, Fields, Particular, Press, RegTypes
  <2> DEFINE r == n[1]
  <2> HIDE DEF r
  <2>2. r # "dr" /\ r \in DOMAIN reg
    BY <2>1 DEF r
  <2>3. PICK w \in F.which :
          reg' = [reg EXCEPT !.dr = IF w \in @ THEN @ \ {w} ELSE @ \cup {w}]
    BY <1>1 DEF Press
  <2>4. reg'[r] = reg[r]
    BY <2>2, <2>3
  <2> QED BY <1>1, <2>4 DEF Press, r
<1>2. ASSUME NEW q \in Procs, StoresNow(q) PROVE reg'[n[1]] = reg[n[1]] /\ raced \subseteq raced'
  <2> DEFINE st == StepOf(q)
  <2>1. Stored(q, st) /\ st.cell # n[1]
    BY <1>2 DEF StoresNow, NoStoreTo, StoreTo
  <2> HIDE DEF st
  <2> QED BY <2>1 DEF Stored
<1> QED
  BY <1>1, <1>2, RegCases

(* The bits that are to be 0 stay 0 once they have been cleared.           *)
LEMMA ClearedStep ==
  ASSUME Shape, RegTypes, ClearedInv, [Next]_vars PROVE ClearedInv'
<1>1. F' = F /\ dev' = dev /\ Shape'
  BY ShapeStep
<1> SUFFICES ASSUME dev \in ClearFirst, NEW p \in Procs, On(p)',
                    NEW n \in F.needs[proc'[p].w], Both(n)
             PROVE  /\ Cleared(p, n[1])' => n[3] \cap reg'[n[1]] = {}
                    /\ /\ proc'[p].phase = "opening" /\ AtStep(p)' /\ HasStored(p, n[1])'
                       /\ StepOf(p)'.op = "or" /\ StepOf(p)'.cell = n[1]
                       => n[3] \cap proc'[p].tmp = {}
  BY <1>1 DEF ClearedInv, Both
<1> DEFINE r == n[1]
<1>2. Same(p) \/ Acts(p)
  BY StepCases DEF Idling, Acts, OthersSame
<1>3. proc'[p].w \in F.which
  BY <1>1 DEF Shape, Follows
<1>4. ASSUME Cleared(p, r)' PROVE n[3] \cap reg'[r] = {}
  <2>1. CASE NoStoreTo(r)
    <3>1. On(p) /\ proc'[p].w = proc[p].w /\ Cleared(p, r)
      BY <1>1, <1>2, <1>4, <2>1, PinKept DEF NoStoreTo
    <3> QED BY <1>3, <2>1, <3>1, NeedKept DEF ClearedInv
  <2>2. ASSUME NEW q \in Procs, StoreTo(q, r) PROVE n[3] \cap reg'[r] = {}
    <3> DEFINE w == proc[q].w
    <3>1. reg'[r] = Result(q, StepOf(q)) /\ On(q)
      BY <2>2, StoredAs
    <3>2. /\ proc[q].phase = "opening" /\ w = proc'[p].w
          /\ Clears(Prog(q), At(q), n) \/ SetsCleared(Prog(q), At(q), n)
      BY <1>3, <2>2, StoreAtPin
    <3>3. CASE Clears(Prog(q), At(q), n)
      BY <3>1, <3>3 DEF Clears, Result, StepOf
    <3>4. CASE SetsCleared(Prog(q), At(q), n)
      <4>1. /\ StepOf(q).op = "or" /\ n[3] \cap StepOf(q).v = {}
            /\ HasStored(q, r)
        <5>1. At(q) \in 1 .. Len(Prog(q)) /\ Len(Prog(q)) \in Nat
          BY <2>2, StoredAs
        <5> QED BY <3>4, <5>1 DEF SetsCleared, HasStored, StepOf
      <4>2. AtStep(q) /\ StepOf(q).cell = r
        BY <2>2 DEF StoreTo, StoresNow
      <4>3. n[3] \cap proc[q].tmp = {}
        BY <3>1, <3>2, <4>1, <4>2 DEF ClearedInv
      <4> QED BY <3>1, <4>1, <4>3 DEF Result
    <3> QED BY <3>2, <3>3, <3>4
  <2> QED BY <2>1, <2>2 DEF NoStoreTo
<1>5. ASSUME proc'[p].phase = "opening", AtStep(p)', HasStored(p, r)',
             StepOf(p)'.op = "or", StepOf(p)'.cell = r
      PROVE  n[3] \cap proc'[p].tmp = {}
  <2>1. CASE Same(p)
    BY <1>5, <2>1 DEF Same, ClearedInv, HasStored, StoresAt
  <2>2. CASE Acts(p)
    <3>1. /\ Stepping(p) /\ On(p) /\ StepOf(p).op = "load" /\ StepOf(p).cell = r
          /\ proc'[p].tmp = reg[r]
      BY <1>5, <2>2, ArrivesAtChange DEF Rmw
    <3>2. ~StoreTo(p, r)
      BY <3>1 DEF StoreTo, StoresNow, Stores, Rmw
    <3>3. Cleared(p, r)'
      BY <1>5 DEF Cleared
    <3>4. proc'[p].w = proc[p].w /\ Cleared(p, r)
      BY <1>1, <2>2, <3>2, <3>3, PinKept
    <3> QED BY <3>1, <3>4 DEF ClearedInv
  <2> QED BY <1>2, <2>1, <2>2
<1> QED
  BY <1>4, <1>5

(* The needs of an open pin are held, but for a race or another open.      *)
LEMMA PinsStep ==
  ASSUME Shape, RegTypes, ClearedInv, PinsInv, [Next]_vars PROVE PinsInv'
<1>1. F' = F /\ dev' = dev /\ Shape'
  BY ShapeStep
<1>2. \A r : SharedNeed(r)' = SharedNeed(r)
  BY <1>1 DEF SharedNeed
<1> SUFFICES ASSUME NEW p \in Procs, On(p)', NEW n \in F.needs[proc'[p].w],
                    Settled(p, n[1])'
             PROVE  \/ Held(n)'
                    \/ n[1] \in raced' /\ SharedNeed(n[1])
                    \/ dev \in ClearFirst
                         /\ \E q \in Procs : OpensAgain(q, proc[p].w, n[1])'
  BY <1>1, <1>2 DEF PinsInv, Held
<1> DEFINE r == n[1]
<1>3. Same(p) \/ Acts(p)
  BY StepCases DEF Idling, Acts, OthersSame
<1>4. proc'[p].w \in F.which
  BY <1>1 DEF Shape, Follows
<1>5. CASE NoStoreTo(r)
  <2>1. On(p) /\ proc'[p].w = proc[p].w /\ Settled(p, r)
    BY <1>1, <1>3, <1>5, PinKept DEF NoStoreTo
  <2>2. reg'[r] = reg[r] /\ raced \subseteq raced'
    BY <1>4, <1>5, NeedKept
  <2>3. CASE Held(n) \/ (r \in raced /\ SharedNeed(r))
    BY <2>2, <2>3 DEF Held
  <2>4. ASSUME dev \in ClearFirst, NEW q \in Procs, OpensAgain(q, proc[p].w, r)
        PROVE  OpensAgain(q, proc[p].w, r)'
    <3>1. CASE Same(q)
      BY <2>1, <2>4, <3>1 DEF Same, OpensAgain, StoresAhead, StoresAt
    <3>2. CASE Acts(q)
      BY <1>5, <2>1, <2>4, <3>2, StoresKept DEF OpensAgain, NoStoreTo
    <3> QED BY <3>1, <3>2, StepCases DEF Idling, Acts, OthersSame
  <2> QED BY <2>1, <2>3, <2>4 DEF PinsInv
<1>6. ASSUME NEW q \in Procs, StoreTo(q, r), proc[q].w = proc'[p].w
      PROVE  Held(n)' \/ (dev \in ClearFirst /\ OpensAgain(q, proc[p].w, r)')
  <2> DEFINE st == StepOf(q)
  <2>1. /\ reg'[r] = Result(q, st) /\ st.op \in Stores /\ On(q)
        /\ proc'[q].phase = proc[q].phase /\ proc'[q].w = proc[q].w
        /\ At(q)' = At(q) + 1 /\ Prog(q)' = Prog(q)
        /\ At(q) \in 1 .. Len(Prog(q)) /\ Len(Prog(q)) \in Nat
    BY <1>6, StoredAs DEF StoreTo, StoresNow
  <2>2. /\ proc[q].phase = "opening"
        /\ IF dev \in ClearFirst /\ Both(n)
           THEN Clears(Prog(q), At(q), n) \/ SetsCleared(Prog(q), At(q), n)
           ELSE Settles(st, n)
    BY <1>4, <1>6, StoreAtPin
  <2>3. CASE dev \in ClearFirst /\ Both(n) /\ Clears(Prog(q), At(q), n)
    <3>1. StoresAhead(q, r)'
      BY <2>1, <2>3 DEF Clears, StoresAhead, StoresAt
    <3> QED BY <1>6, <2>1, <2>2, <2>3, <3>1 DEF OpensAgain
  <2>4. CASE dev \in ClearFirst /\ Both(n) /\ SetsCleared(Prog(q), At(q), n)
    <3>1. /\ st.op = "or" /\ n[2] \subseteq st.v /\ n[3] \cap st.v = {}
          /\ HasStored(q, r)
      BY <2>1, <2>4 DEF SetsCleared, HasStored, StepOf
    <3>2. AtStep(q) /\ st.cell = r
      BY <1>6 DEF StoreTo, StoresNow
    <3>3. n[3] \cap proc[q].tmp = {}
      BY <1>6, <2>1, <2>2, <2>4, <3>1, <3>2 DEF ClearedInv
    <3>4. reg'[r] = proc[q].tmp \cup st.v
      BY <2>1, <3>1 DEF Result
    <3> QED BY <3>1, <3>3, <3>4 DEF Held
  <2>5. CASE Settles(st, n)
    <3> HIDE DEF st
    <3>1. n[2] \subseteq Result(q, st) /\ n[3] \cap Result(q, st) = {}
      BY <2>5 DEF Settles, Result
    <3> QED BY <2>1, <3>1 DEF Held
  <2> QED BY <2>2, <2>3, <2>4, <2>5
<1>7. ASSUME NEW q \in Procs, StoreTo(q, r), proc[q].w # proc'[p].w
      PROVE  \/ Held(n)'
             \/ r \in raced' /\ SharedNeed(r)
             \/ dev \in ClearFirst /\ \E x \in Procs : OpensAgain(x, proc[p].w, r)'
  <2> DEFINE st == StepOf(q)
  <2>1. /\ reg'[r] = Result(q, st) /\ raced \subseteq raced'
        /\ st.op \in Rmw /\ reg[r] # proc[q].tmp => r \in raced'
        /\ proc'[q].phase = proc[q].phase /\ proc'[q].w = proc[q].w
        /\ On(q) /\ \A x \in Procs \ {q} : Same(x)
    BY <1>7, StoredAs
  <2>2. /\ \E m \in F.needs[proc[q].w] : m[1] = r
        /\ \/ st.op = "or" /\ n[3] \cap st.v = {}
           \/ st.op = "andnot" /\ n[2] \cap st.v = {}
    BY <1>4, <1>7, StoreAtPin
  <2>3. Same(p) /\ p # q
    BY <1>7, <2>1
  <2>4. On(p) /\ proc'[p].w = proc[p].w /\ Settled(p, r)
    BY <2>3 DEF Same, Settled, StoresAhead, StoresAt
  <2>5. SharedNeed(r)
    <3> DEFINE S == {v \in F.which : \E m \in F.needs[v] : m[1] = r}
    <3>1. proc[q].w \in F.which
      BY <2>1 DEF Shape, Follows
    <3>2. S \subseteq 0 .. 3 /\ proc[q].w \in S /\ proc'[p].w \in S
      BY <1>4, <2>2, <3>1, FileOfDev DEF FileFits, Fields
    <3> HIDE DEF S
    <3>3. Cardinality(S) > 1
      BY <1>7, <3>2, TwoAreMany
    <3> QED BY <3>3 DEF S, SharedNeed
  <2>6. CASE reg[r] # proc[q].tmp
    BY <2>1, <2>2, <2>5, <2>6 DEF Rmw
  <2>7. CASE reg[r] = proc[q].tmp
    <3>1. CASE Held(n)
      <4>1. n[2] \subseteq Result(q, st) /\ n[3] \cap Result(q, st) = {}
        BY <2>2, <2>7, <3>1 DEF Held, Result
      <4> QED BY <2>1, <4>1 DEF Held
    <3>2. CASE r \in raced
      BY <2>1, <2>5, <3>2
    <3>3. ASSUME dev \in ClearFirst, NEW x \in Procs, OpensAgain(x, proc[p].w, r)
          PROVE  OpensAgain(x, proc[p].w, r)'
      <4>1. Same(x)
        BY <1>7, <2>1, <2>4, <3>3 DEF OpensAgain
      <4> QED BY <2>4, <3>3, <4>1 DEF Same, OpensAgain, StoresAhead, StoresAt
    <3> QED BY <2>4, <3>1, <3>2, <3>3 DEF PinsInv
  <2> QED BY <2>6, <2>7
<1> QED
  BY <1>5, <1>6, <1>7 DEF NoStoreTo

(* A pin that is open stays configured.                                    *)
THEOREM OpenPinsStayConfiguredHolds == Spec => []OpenPinsStayConfigured
<1>1. Init => RegTypes /\ ClearedInv /\ PinsInv
  <2> SUFFICES ASSUME Init PROVE RegTypes /\ ClearedInv /\ PinsInv
    OBVIOUS
  <2>1. \A p \in Procs : ~On(p)
    BY DEF Init, On, Out
  <2> QED BY <2>1, RegTypesInit DEF ClearedInv, PinsInv
<1>2. Shape /\ RegTypes /\ ClearedInv /\ PinsInv /\ [Next]_vars
        => RegTypes' /\ ClearedInv' /\ PinsInv'
  BY RegTypesStep, ClearedStep, PinsStep
<1>3. PinsInv => OpenPinsStayConfigured
  <2> SUFFICES ASSUME PinsInv, NEW p \in Procs, proc[p].phase \in {"last", "again"},
                      NEW n \in F.needs[proc[p].w]
               PROVE  \/ Held(n)
                      \/ n[1] \in raced /\ SharedNeed(n[1])
                      \/ dev \in ClearFirst
                           /\ \E q \in Procs \ {p} :
                                proc[q].phase = "opening" /\ proc[q].w = proc[p].w
    BY DEF OpenPinsStayConfigured, Held
  <2>1. On(p) /\ Settled(p, n[1])
    BY DEF On, Settled
  <2>2. ASSUME NEW q \in Procs, OpensAgain(q, proc[p].w, n[1])
        PROVE  q # p /\ proc[q].phase = "opening" /\ proc[q].w = proc[p].w
    BY <2>2 DEF OpensAgain
  <2> QED BY <2>1, <2>2 DEF PinsInv
<1> QED
  BY <1>1, <1>2, <1>3, Positions, PTL DEF Spec

-----------------------------------------------------------------------------
(* The texts.                                                               *)

\* A process in a call of a hello driver: its program is one copying, or the
\* test of the mapping.
OneCopying(p) ==
  /\ dev \in Hello01 /\ Len(Prog(p)) \in {1, 2} /\ At(p) \in 1 .. Len(Prog(p)) + 1
  /\ OneCopy(Prog(p))
MappingTest(p) ==
  /\ dev = "hello07" /\ Len(Prog(p)) = 3 /\ At(p) \in 1 .. 4
  /\ StoresString(Prog(p), "page")
  /\ CopiesBoth(Prog(p), 2, "fetch", "kernel_buf")

(* Where a process of the hello drivers can be.                            *)
LEMMA InHello ==
  ASSUME Shape, NEW p \in Procs, On(p), dev \in Hellos
  PROVE  IF InCall(p) THEN OneCopying(p) \/ MappingTest(p) ELSE ~AtStep(p)
<1>1. /\ CopiesText(dev, proc[p].s, Prog(p)) /\ Len(Prog(p)) \in Nat
      /\ At(p) \in 1 .. Len(Prog(p)) + 1
  BY ProgramOf, AtItsStep DEF ProgramFits
<1>2. proc[p].s = "none" <=> ~InCall(p)
  BY DEF Shape, Follows, InCall, On
<1>3. CASE InCall(p)
  <2>1. CASE dev = "hello07"
    <3>1. dev \notin Hello01
      BY <2>1 DEF Hello01
    <3>2. /\ Len(Prog(p)) = 3 /\ StoresString(Prog(p), "page")
          /\ CopiesBoth(Prog(p), 2, "fetch", "kernel_buf")
      BY <1>1, <1>2, <1>3, <2>1 DEF CopiesText
    <3>3. At(p) \in 1 .. 4
      BY <1>1, <3>2
    <3> QED BY <1>3, <2>1, <3>2, <3>3 DEF MappingTest
  <2>2. CASE dev \in Hello01
    <3>1. Len(Prog(p)) \in {1, 2} /\ OneCopy(Prog(p))
      BY <1>1, <1>2, <1>3, <2>2 DEF CopiesText, OneCopy
    <3>2. At(p) \in 1 .. Len(Prog(p)) + 1
      BY <1>1, <3>1
    <3> QED BY <1>3, <2>2, <3>1, <3>2 DEF OneCopying
  <2> QED BY <1>3, <2>1, <2>2 DEF Hellos
<1>4. CASE ~InCall(p)
  <2>1. Len(Prog(p)) = 0
    BY <1>1, <1>2, <1>4 DEF CopiesText
  <2> QED BY <1>1, <1>4, <2>1 DEF AtStep
<1> QED
  BY <1>3, <1>4

\* One piece of a copying: which one, and in which direction.
CopiesOne(p) ==
  LET st == StepOf(p)
      k == At(p)
  IN  /\ InCall(p) /\ On(p) /\ Len(Prog(p)) \in Nat /\ k \in 1 .. Len(Prog(p))
      /\ \/ /\ OneCopying(p) /\ st.op \in Copies /\ k \in {1, 2}
            /\ st.ptr = "kernel_buf" /\ st.v = {k - 1} /\ Prog(p)[1].op = st.op
            /\ Len(Prog(p)) = 2 => st.cell = "none" /\ Prog(p)[2].op = st.op
            /\ Len(Prog(p)) # 2 => st.cell = "end" /\ st.op = "store" /\ k = 1
         \/ /\ MappingTest(p) /\ k = 1
            /\ st.op = "store" /\ st.ptr = "page" /\ st.v = {0}
         \/ /\ MappingTest(p) /\ k \in {2, 3}
            /\ st.op = "fetch" /\ st.ptr = "kernel_buf" /\ st.v = {k - 2}

(* Only the hello drivers copy, in their calls, and nothing else there.    *)
LEMMA CopyingStep ==
  ASSUME Shape, NEW p \in Procs, AtStep(p)
  PROVE  IF dev \in Hellos THEN CopiesOne(p) ELSE StepOf(p).op \notin Copies
<1> DEFINE st == StepOf(p)
           k == At(p)
           P == Prog(p)
<1>1. /\ On(p) /\ k \in 1 .. Len(P) /\ st = P[k] /\ Len(P) \in Nat
      /\ CopiesText(dev, proc[p].s, P)
  BY AtItsStep, ProgramOf DEF AtStep, StepOf, ProgramFits
<1>2. CASE dev \notin Hellos
  BY <1>1, <1>2 DEF CopiesText
<1>3. CASE dev \in Hellos
  <2>1. InCall(p) /\ (OneCopying(p) \/ MappingTest(p))
    BY <1>1, <1>3, InHello
  <2>2. CASE OneCopying(p) /\ Len(P) = 1
    <3>1. k = 1 /\ st = P[1]
      BY <1>1, <2>2 DEF OneCopying
    <3>2. StoresString(P, "kernel_buf")
      BY <2>2 DEF OneCopying, OneCopy
    <3> HIDE DEF P, st, k
    <3>3. /\ st.op \in Copies /\ k \in {1, 2} /\ st.ptr = "kernel_buf" /\ st.v = {k - 1}
          /\ P[1].op = st.op /\ st.cell = "end" /\ st.op = "store" /\ Len(P) # 2
      BY <2>2, <3>1, <3>2 DEF StoresString, Copies
    <3> QED BY <1>1, <1>3, <2>1, <2>2, <3>1, <3>3 DEF CopiesOne, P, st, k
  <2>4. CASE OneCopying(p) /\ Len(P) = 2
    <3>1. PICK op \in Copies : CopiesBoth(P, 1, op, "kernel_buf")
      BY <2>4 DEF OneCopying, OneCopy
    <3>2. k \in {1, 2}
      BY <1>1, <2>4 DEF OneCopying
    <3>3. \A j \in {0, 1} : /\ P[1 + j].op = op /\ P[1 + j].ptr = "kernel_buf"
                            /\ P[1 + j].v = {j} /\ P[1 + j].cell = "none"
      BY <3>1 DEF CopiesBoth
    <3>4. /\ P[1].op = op /\ P[1].ptr = "kernel_buf" /\ P[1].v = {0} /\ P[1].cell = "none"
          /\ P[2].op = op /\ P[2].ptr = "kernel_buf" /\ P[2].v = {1} /\ P[2].cell = "none"
      <4> HIDE DEF P
      <4>1. 1 + 0 = 1 /\ 1 + 1 = 2
        OBVIOUS
      <4> QED BY <3>3, <4>1
    <3> HIDE DEF P, st, k
    <3>5. /\ st.op \in Copies /\ st.ptr = "kernel_buf" /\ st.v = {k - 1}
          /\ P[1].op = st.op /\ P[2].op = st.op /\ st.cell = "none"
      BY <1>1, <3>2, <3>4
    <3> QED BY <1>1, <1>3, <2>1, <2>4, <3>2, <3>5 DEF CopiesOne, P, st, k
  <2>3. CASE MappingTest(p)
    <3>1. /\ P[1].op = "store" /\ P[1].ptr = "page" /\ P[1].v = {0}
          /\ \A j \in {0, 1} : /\ P[2 + j].op = "fetch" /\ P[2 + j].ptr = "kernel_buf"
                               /\ P[2 + j].v = {j}
      BY <2>3 DEF MappingTest, CopiesBoth, StoresString
    <3>2. k \in {1, 2, 3}
      BY <1>1, <2>3 DEF MappingTest
    <3> HIDE DEF P, st, k
    <3>3. /\ P[1].op = "store" /\ P[1].ptr = "page" /\ P[1].v = {0}
          /\ P[2].op = "fetch" /\ P[2].ptr = "kernel_buf" /\ P[2].v = {0}
          /\ P[3].op = "fetch" /\ P[3].ptr = "kernel_buf" /\ P[3].v = {1}
      <4>1. 2 + 0 = 2 /\ 2 + 1 = 3
        OBVIOUS
      <4> QED BY <3>1, <4>1
    <3>4. \/ k = 1 /\ st.op = "store" /\ st.ptr = "page" /\ st.v = {0}
          \/ k \in {2, 3} /\ st.op = "fetch" /\ st.ptr = "kernel_buf" /\ st.v = {k - 2}
      BY <1>1, <3>2, <3>3
    <3> QED BY <1>1, <1>3, <2>1, <2>3, <3>4 DEF CopiesOne, P, st, k
  <2>5. OneCopying(p) => Len(P) = 1 \/ Len(P) = 2
    BY DEF OneCopying
  <2> QED BY <2>1, <2>2, <2>3, <2>4, <2>5
<1> QED
  BY <1>2, <1>3

(* The half of the page a piece is in.                                     *)
LEMMA CellsOfPieces ==
  ASSUME NEW p \in Procs, CopiesOne(p), off \in {0, 2}
  PROVE  CellOf(StepOf(p)) = CASE OneCopying(p) -> off + At(p) - 1
                               [] MappingTest(p) /\ At(p) = 1 -> 0
                               [] MappingTest(p) /\ At(p) # 1 -> off + At(p) - 2
<1> DEFINE st == StepOf(p)
           k == At(p)
<1>1. ~(OneCopying(p) /\ MappingTest(p))
  BY DEF OneCopying, MappingTest, Hello01
<1>2. \A i : st.v = {i} => (CHOOSE c \in st.v : TRUE) = i
  OBVIOUS
<1>3. CASE OneCopying(p)
  <2>1. k \in {1, 2} /\ st.ptr = "kernel_buf" /\ st.v = {k - 1}
    BY <1>1, <1>3 DEF CopiesOne
  <2>2. CellOf(st) = off + (k - 1)
    BY <1>2, <2>1 DEF CellOf
  <2>3. off + (k - 1) = off + k - 1
    BY <2>1
  <2> QED BY <1>1, <1>3, <2>2, <2>3
<1>4. CASE MappingTest(p) /\ k = 1
  <2>1. st.ptr = "page" /\ st.v = {0}
    BY <1>1, <1>4 DEF CopiesOne
  <2>2. CellOf(st) = 0 + 0
    BY <1>2, <2>1 DEF CellOf
  <2> QED BY <1>1, <1>4, <2>2
<1>5. CASE MappingTest(p) /\ k # 1
  <2>1. k \in {2, 3} /\ st.ptr = "kernel_buf" /\ st.v = {k - 2}
    BY <1>1, <1>5 DEF CopiesOne
  <2>2. CellOf(st) = off + (k - 2)
    BY <1>2, <2>1 DEF CellOf
  <2>3. off + (k - 2) = off + k - 2
    BY <2>1
  <2> QED BY <1>1, <1>5, <2>2, <2>3
<1>6. OneCopying(p) \/ MappingTest(p)
  BY DEF CopiesOne
<1> QED
  BY <1>3, <1>4, <1>5, <1>6

\* A process stores or fetches one piece.
CopiesNow(p) ==
  /\ Acts(p) /\ Stepping(p) /\ CopiesOne(p) /\ dev \in Hellos
  /\ StoredPiece(p, StepOf(p)) \/ FetchedPiece(p, StepOf(p))

(* The page changes by pieces stored only.                                 *)
LEMMA PageCases ==
  ASSUME Shape, [Next]_vars
  PROVE  UNCHANGED <<buf, blurred>> \/ \E p \in Procs : CopiesNow(p)
<1>1. ASSUME NEW p \in Procs, Acts(p), ~UNCHANGED <<buf, blurred>>
      PROVE  CopiesNow(p)
  <2>1. Stepping(p) /\ AtStep(p)
    BY <1>1 DEF Acts, Skipping, Stepping, Opening, Calling, Leaving, shared
  <2> DEFINE st == StepOf(p)
  <2>2. Steps(p, st)
    BY <2>1 DEF Stepping
  <2> HIDE DEF st
  <2>3. StoredPiece(p, st) \/ FetchedPiece(p, st)
    BY <1>1, <2>2 DEF Steps, Mapped, Loaded, Stored, Unpressed
  <2>4. st.op \in Copies
    BY <2>3 DEF StoredPiece, FetchedPiece, Copies
  <2> QED BY <1>1, <2>1, <2>3, <2>4, CopyingStep DEF CopiesNow, st
<1> QED
  BY <1>1, StepCases DEF Idling

\* Where the buffer starts in its page, and what is in the page.
PageInv ==
  /\ off \in {0, 2} /\ (dev # "hello07" => off = 0)
  /\ buf \in [0 .. 3 -> Texts] /\ blurred \in BOOLEAN

(* A piece lies in the page.                                               *)
LEMMA PieceInPage ==
  ASSUME PageInv, NEW p \in Procs, CopiesOne(p)
  PROVE  CellOf(StepOf(p)) \in 0 .. 3
<1>1. CASE OneCopying(p)
  <2>1. off = 0
    BY <1>1 DEF OneCopying, Hello01, PageInv
  <2>2. At(p) \in {1, 2}
    BY <1>1 DEF CopiesOne, OneCopying, MappingTest, Hello01
  <2>3. CellOf(StepOf(p)) = off + At(p) - 1
    <3>1. ~MappingTest(p) /\ off \in {0, 2}
      BY <1>1 DEF OneCopying, MappingTest, Hello01, PageInv
    <3> QED BY <1>1, <3>1, CellsOfPieces
  <2> QED BY <2>1, <2>2, <2>3
<1>2. CASE MappingTest(p)
  <2>1. At(p) \in 1 .. 3 /\ ~OneCopying(p)
    BY <1>2 DEF CopiesOne, OneCopying, MappingTest, Hello01
  <2>2. CellOf(StepOf(p)) = IF At(p) = 1 THEN 0 ELSE off + At(p) - 2
    BY <1>2, <2>1, CellsOfPieces DEF PageInv
  <2> QED BY <2>1, <2>2 DEF PageInv
<1> QED
  BY <1>1, <1>2 DEF CopiesOne

(* The page keeps holding texts.                                           *)
LEMMA PageStep == ASSUME Shape, PageInv, [Next]_vars PROVE PageInv'
<1>1. off' = off /\ dev' = dev
  BY ShapeStep, StepCases
<1>2. CASE UNCHANGED <<buf, blurred>>
  BY <1>1, <1>2 DEF PageInv
<1>3. ASSUME NEW p \in Procs, CopiesNow(p) PROVE PageInv'
  <2> DEFINE st == StepOf(p)
  <2>1. CellOf(st) \in 0 .. 3 /\ (StoredPiece(p, st) \/ FetchedPiece(p, st))
    BY <1>3, PieceInPage DEF CopiesNow
  <2> HIDE DEF st
  <2>2. Text(p, st) \in Texts
    BY DEF Text, Texts, Piece, New
  <2>3. buf' \in [0 .. 3 -> Texts]
    BY <2>1, <2>2 DEF StoredPiece, FetchedPiece, PageInv
  <2>4. blurred' \in BOOLEAN
    BY <2>1 DEF StoredPiece, FetchedPiece, PageInv, Amid
  <2> QED BY <1>1, <2>3, <2>4 DEF PageInv
<1> QED
  BY <1>2, <1>3, PageCases

(* A process has as many pieces as it has fetched.                         *)
LEMMA GotStep == ASSUME Shape, PageInv, GotInv, [Next]_vars PROVE GotInv'
<1>1. F' = F /\ dev' = dev /\ Shape'
  BY ShapeStep
<1>2. \A p \in Procs : Same(p) \/ Acts(p)
  BY StepCases DEF Idling, Acts, OthersSame
<1> SUFFICES ASSUME NEW p \in Procs
             PROVE  /\ proc'[p].got \in Seq(Texts)
                    /\ ~InCall(p)' \/ dev \notin Hellos => proc'[p].got = << >>
                    /\ InCall(p)' /\ dev \in Hello01 =>
                         Len(proc'[p].got) =
                           IF Prog(p)'[1].op = "fetch" THEN At(p)' - 1 ELSE 0
                    /\ InCall(p)' /\ dev = "hello07" =>
                         Len(proc'[p].got) = IF At(p)' <= 2 THEN 0 ELSE At(p)' - 2
  BY <1>1 DEF GotInv
<1>3. ASSUME proc'[p].got = << >>, InCall(p)' => At(p)' = 1 \/ dev \notin Hellos
      PROVE  /\ proc'[p].got \in Seq(Texts)
             /\ ~InCall(p)' \/ dev \notin Hellos => proc'[p].got = << >>
             /\ InCall(p)' /\ dev \in Hello01 =>
                  Len(proc'[p].got) =
                    IF Prog(p)'[1].op = "fetch" THEN At(p)' - 1 ELSE 0
             /\ InCall(p)' /\ dev = "hello07" =>
                  Len(proc'[p].got) = IF At(p)' <= 2 THEN 0 ELSE At(p)' - 2
  <2> DEFINE g == proc'[p].got
             k == At(p)'
  <2>1. g \in Seq(Texts) /\ Len(g) = 0
    BY <1>3
  <2> HIDE DEF g, k
  <2>2. k = 1 => k - 1 = 0 /\ k <= 2
    OBVIOUS
  <2> QED BY <1>3, <2>1, <2>2 DEF g, k, Hellos
<1>4. CASE Same(p)
  BY <1>4 DEF Same, GotInv
<1>5. CASE Skipping(p)
  <2>1. PICK n \in 1 .. Len(Prog(p)) - 1 :
          Tests(p, n) /\ GoesTo(p, IF First(F) \in mapped THEN n + 2 ELSE 2)
    BY <1>5 DEF Skipping
  <2>2. ~InCall(p) /\ InCall(p)' = InCall(p)
    BY <2>1 DEF Tests, InCall, GoesTo
  <2> QED BY <1>3, <1>5, <2>2 DEF GotInv, Skipping
<1>6. CASE Stepping(p)
  <2> DEFINE st == StepOf(p)
  <2>1. /\ Gains(p, st)
        /\ InCall(p)' = InCall(p) /\ Prog(p)' = Prog(p) /\ At(p)' = At(p) + 1
        /\ IF dev \in Hellos THEN CopiesOne(p) ELSE st.op \notin Copies
    BY <1>6, CopyingStep DEF Stepping, GoesTo
  <2>2. CASE dev \notin Hellos
    <3>1. st.op # "fetch" /\ proc[p].got = << >>
      BY <2>1, <2>2 DEF Copies, GotInv
    <3> QED BY <1>3, <2>1, <2>2, <3>1 DEF Gains
  <2>3. CASE dev \in Hellos /\ st.op # "fetch"
    <3>1. proc'[p].got = proc[p].got /\ CopiesOne(p)
      BY <2>1, <2>3 DEF Gains
    <3>2. CASE OneCopying(p)
      <4>1. Prog(p)[1].op # "fetch" /\ dev # "hello07"
        BY <2>3, <3>1, <3>2 DEF CopiesOne, OneCopying, MappingTest, Hello01
      <4> QED BY <2>1, <2>3, <3>1, <4>1 DEF GotInv, CopiesOne
    <3>3. CASE MappingTest(p)
      <4>1. At(p) = 1 /\ dev \notin Hello01
        BY <2>3, <3>1, <3>3 DEF CopiesOne, OneCopying, MappingTest, Hello01
      <4>2. Len(proc[p].got) = 0
        BY <3>1, <3>3, <4>1 DEF GotInv, CopiesOne, MappingTest
      <4>3. At(p)' <= 2
        BY <2>1, <4>1
      <4> QED BY <2>1, <2>3, <3>1, <3>3, <4>1, <4>2, <4>3 DEF GotInv, CopiesOne
    <3> QED BY <3>1, <3>2, <3>3 DEF CopiesOne
  <2>4. CASE dev \in Hellos /\ st.op = "fetch"
    <3> DEFINE g == proc[p].got
    <3>0. PICK x \in Fetchable(CellOf(st)) : proc'[p].got = Append(g, x)
      BY <2>1, <2>4 DEF Gains
    <3>1. CopiesOne(p) /\ g \in Seq(Texts) /\ x \in Texts
      <4>1. CopiesOne(p) /\ g \in Seq(Texts) /\ buf[CellOf(st)] \in Texts
        BY <2>1, <2>4, PieceInPage DEF GotInv, PageInv
      <4>2. Old \in Texts
        BY DEF Old, Texts, Piece
      <4> QED BY <3>0, <4>1, <4>2 DEF Fetchable
    <3>2. proc'[p].got = Append(g, x)
      BY <3>0
    <3>3. /\ Append(g, x) \in Seq(Texts) /\ Len(Append(g, x)) = Len(g) + 1
      <4> HIDE DEF g
      <4> QED BY <3>1, AppendProperties
    <3>4. CASE OneCopying(p)
      <4>1. Prog(p)[1].op = "fetch" /\ dev # "hello07" /\ dev \in Hello01
        BY <2>4, <3>1, <3>4 DEF CopiesOne, OneCopying, MappingTest, Hello01
      <4>2. Len(g) = At(p) - 1 /\ At(p) \in Int
        BY <3>1, <4>1 DEF GotInv, CopiesOne
      <4>3. Len(Append(g, x)) = At(p)' - 1
        <5> HIDE DEF g
        <5> QED BY <2>1, <3>3, <4>2
      <4> QED BY <2>1, <2>4, <3>1, <3>2, <3>3, <4>1, <4>3 DEF CopiesOne
    <3>5. CASE MappingTest(p)
      <4>1. At(p) \in {2, 3} /\ dev \notin Hello01 /\ dev = "hello07"
        BY <2>4, <3>1, <3>5 DEF CopiesOne, OneCopying, MappingTest, Hello01
      <4>2. Len(g) = At(p) - 2
        BY <3>1, <4>1 DEF GotInv, CopiesOne
      <4>3. Len(Append(g, x)) = At(p)' - 2 /\ ~(At(p)' <= 2)
        <5> HIDE DEF g
        <5> QED BY <2>1, <3>3, <4>1, <4>2
      <4> QED BY <2>1, <2>4, <3>1, <3>2, <3>3, <4>1, <4>3 DEF CopiesOne
    <3> QED BY <3>1, <3>4, <3>5 DEF CopiesOne
  <2> QED BY <2>2, <2>3, <2>4
<1>7. CASE Opening(p)
  <2>1. proc'[p].got = << >> /\ ~InCall(p)'
    BY <1>7 DEF Opening, Starts, InCall
  <2> QED BY <1>3, <2>1
<1>8. CASE Calling(p)
  <2>1. proc'[p].got = << >> /\ At(p)' = 1
    BY <1>8 DEF Calling, Starts, GotInv
  <2> QED BY <1>3, <2>1
<1>9. CASE Leaving(p)
  <2>1. proc'[p].got = << >> /\ ~InCall(p)'
    BY <1>9 DEF Leaving, Out, InCall
  <2> QED BY <1>3, <2>1
<1> QED
  BY <1>2, <1>4, <1>5, <1>6, <1>7, <1>8, <1>9 DEF Acts

-----------------------------------------------------------------------------
(* The types.                                                               *)

\* What holds of the page and the texts by type alone.
TypeInv ==
  /\ RegTypes /\ BitsInv /\ PageInv /\ GotInv
  /\ runs \in [Procs -> 0 .. MaxRuns] /\ oops \in BOOLEAN

(* The counters of runs stay within their bound.                           *)
LEMMA RunsStep ==
  ASSUME Shape, runs \in [Procs -> 0 .. MaxRuns], oops \in BOOLEAN, [Next]_vars
  PROVE  runs' \in [Procs -> 0 .. MaxRuns] /\ oops' \in BOOLEAN
<1>1. ASSUME NEW p \in Procs, Runs(p)
      PROVE  runs' \in [Procs -> 0 .. MaxRuns] /\ oops' \in BOOLEAN
  <2> DEFINE st == StepOf(p)
  <2>1. /\ Skipped(p, st) \/ Toggled(p, st) \/ Steps(p, st) \/ NullFollowed(p, st)
        /\ runs' = runs
    BY <1>1, RunsAs
  <2> HIDE DEF st
  <2>2. oops' \in BOOLEAN
    BY <2>1 DEF Skipped, Toggled, Steps, Mapped, Loaded, Stored, Unpressed, NullFollowed,
                StoredPiece, FetchedPiece
  <2> QED BY <2>1, <2>2
<1>2. ASSUME NEW p \in Procs, Opens(p)
      PROVE  runs' \in [Procs -> 0 .. MaxRuns] /\ oops' \in BOOLEAN
  <2>1. runs[p] + 1 \in 0 .. MaxRuns /\ runs' = [runs EXCEPT ![p] = runs[p] + 1]
    BY <1>2, FilesAssumption DEF Opens
  <2> QED BY <1>2, <2>1 DEF Opens, kept
<1>3. ASSUME NEW p \in Procs, Calls(p) \/ CallsAgain(p) \/ Closes(p)
      PROVE  runs' \in [Procs -> 0 .. MaxRuns] /\ oops' \in BOOLEAN
  BY <1>3 DEF Calls, CallsAgain, Closes, kept
<1>4. ASSUME Press \/ UNCHANGED vars
      PROVE  runs' \in [Procs -> 0 .. MaxRuns] /\ oops' \in BOOLEAN
  BY <1>4 DEF Press, vars
<1> QED
  BY <1>1, <1>2, <1>3, <1>4 DEF Next

(* Nobody has fetched more than two pieces.                                *)
LEMMA AtMostTwo ==
  ASSUME Shape, GotInv, NEW p \in Procs
  PROVE  /\ proc[p].got \in Seq(Texts) /\ Len(proc[p].got) \in 0 .. 2
         /\ Len(proc[p].got) = 2 =>
              /\ On(p) /\ dev \in Hellos
              /\ dev = "hello07" => MappingTest(p) /\ At(p) = 4
<1>1. proc[p].got \in Seq(Texts)
  BY DEF GotInv
<1> DEFINE n == Len(proc[p].got)
<1>2. CASE ~InCall(p) \/ dev \notin Hellos
  <2>1. proc[p].got = << >>
    BY <1>2 DEF GotInv
  <2>2. n = 0
    BY <2>1
  <2> QED BY <1>1, <2>2
<1>3. CASE InCall(p) /\ dev \in Hellos
  <2>1. On(p) /\ (OneCopying(p) \/ MappingTest(p))
    BY <1>3, InHello DEF InCall, On
  <2>2. CASE OneCopying(p)
    <3>5. dev \in Hello01 /\ Len(Prog(p)) \in {1, 2} /\ At(p) \in 1 .. Len(Prog(p)) + 1
      BY <2>2 DEF OneCopying
    <3> DEFINE m == Len(Prog(p))
               a == At(p)
    <3> HIDE DEF m, a
    <3>6. m \in {1, 2} /\ a \in 1 .. m + 1
      BY <3>5 DEF m, a
    <3>7. a \in 1 .. 3
      BY <3>6
    <3>1. dev \in Hello01 /\ At(p) \in 1 .. 3
      BY <3>5, <3>7 DEF a
    <3>2. dev # "hello07"
      BY <3>1 DEF Hello01
    <3>3. n = IF Prog(p)[1].op = "fetch" THEN At(p) - 1 ELSE 0
      BY <1>3, <3>1 DEF GotInv
    <3> HIDE DEF n
    <3>4. n \in 0 .. 2
      BY <3>1, <3>3
    <3> QED BY <1>1, <1>3, <2>1, <3>2, <3>4 DEF n
  <2>3. CASE MappingTest(p)
    <3>1. At(p) \in 1 .. 4 /\ n = IF At(p) <= 2 THEN 0 ELSE At(p) - 2
      BY <1>3, <2>3 DEF MappingTest, GotInv
    <3> HIDE DEF n
    <3>2. n \in 0 .. 2 /\ (n = 2 => At(p) = 4)
      BY <3>1
    <3> QED BY <1>1, <1>3, <2>1, <2>3, <3>2 DEF n
  <2> QED BY <2>1, <2>2, <2>3
<1> QED
  BY <1>2, <1>3

(* At first no process is inside, and the page is as the driver left it.   *)
LEMMA TypeInit == ASSUME Init PROVE TypeInv
<1>1. RegTypes
  BY RegTypesInit
<1>2. \A p \in Procs : ~On(p) /\ proc[p].got = << >> /\ ~InCall(p)
  BY DEF Init, On, Out, InCall
<1>3. BitsInv
  BY <1>2 DEF Init, BitsInv, BitsOf, AtStep
<1>4. PageInv
  <2>1. Old \in Texts
    BY DEF Old, Texts, Piece
  <2> QED BY <2>1 DEF Init, PageInv
<1>5. << >> \in Seq(Texts)
  OBVIOUS
<1>6. GotInv
  BY <1>2, <1>5 DEF GotInv
<1>7. runs \in [Procs -> 0 .. MaxRuns] /\ oops \in BOOLEAN
  <2>1. 0 \in 0 .. MaxRuns
    BY FilesAssumption
  <2> QED BY <2>1 DEF Init
<1> QED
  BY <1>1, <1>3, <1>4, <1>6, <1>7 DEF TypeInv

(* The variables have their types, and no register has a bit set that is   *)
(* none of the driver's.                                                   *)
THEOREM FileTypes == Spec => []TypeOK
<1>1. Init => TypeInv
  BY TypeInit
<1>2. Shape /\ TypeInv /\ [Next]_vars => TypeInv'
  BY RegTypesStep, BitsStep, PageStep, GotStep, RunsStep DEF TypeInv
<1>3. Shape /\ TypeInv => TypeOK
  <2> SUFFICES ASSUME Shape, TypeInv PROVE TypeOK
    OBVIOUS
  <2>1. \A p \in Procs : proc[p].w \in 0 .. 3
    <3> SUFFICES ASSUME NEW p \in Procs PROVE proc[p].w \in 0 .. 3
      OBVIOUS
    <3>1. On(p) => proc[p].w \in F.which /\ F.which \subseteq 0 .. 3
      BY FileOfDev DEF Shape, Follows, FileFits, Fields
    <3>2. ~On(p) => proc[p].w = 0
      BY DEF Shape, Follows, Out
    <3> QED BY <3>1, <3>2
  <2>2. \A p \in Procs : proc[p].phase \in {"out", "opening", "last", "again"}
    BY DEF Shape, Follows
  <2>3. Len(Pieces) = 2
    BY DEF Pieces
  <2>4. \A p \in Procs : Len(proc[p].got) <= Len(Pieces)
    <3> SUFFICES ASSUME NEW p \in Procs PROVE Len(proc[p].got) <= 2
      BY <2>3
    <3> DEFINE n == Len(proc[p].got)
    <3>1. n \in 0 .. 2
      BY AtMostTwo DEF TypeInv
    <3> HIDE DEF n
    <3>2. n <= 2
      BY <3>1
    <3> QED BY <3>2 DEF n
  <2>5. dev \in Devices
    BY DEF Shape
  <2> QED BY <2>1, <2>2, <2>4, <2>5 DEF TypeOK, TypeInv, RegTypes, BitsInv, PageInv, Texts
<1> QED
  BY <1>1, <1>2, <1>3, Positions, PTL DEF Spec

-----------------------------------------------------------------------------
(* What is read.                                                            *)

\* A process of a hello driver starts a program, or leaves.
Turns(p) ==
  /\ OthersSame(p) /\ UNCHANGED <<buf, blurred>> /\ ~AtStep(p)
  /\ proc'[p].got = << >> /\ (At(p)' = 1 \/ (~AtStep(p)' /\ ~InCall(p)'))

(* What a step does in a hello driver.                                     *)
LEMMA HelloCases ==
  ASSUME Shape, GotInv, [Next]_vars, dev \in Hellos
  PROVE  \/ UNCHANGED <<buf, blurred>> /\ \A q \in Procs : Same(q)
         \/ \E p \in Procs : Turns(p) \/ CopiesNow(p)
<1>1. ASSUME NEW p \in Procs, Acts(p) PROVE Turns(p) \/ CopiesNow(p)
  <2>1. CASE Skipping(p)
    <3>1. PICK n \in 1 .. Len(Prog(p)) - 1 : Tests(p, n)
      BY <2>1 DEF Skipping
    <3>2. ~InCall(p) /\ CopiesOne(p)
      BY <2>1, <3>1, CopyingStep DEF Tests, InCall, Skipping
    <3> QED BY <3>2 DEF CopiesOne
  <2>2. CASE Stepping(p)
    <3> DEFINE st == StepOf(p)
    <3>1. CopiesOne(p) /\ Steps(p, st) /\ AtStep(p)
      BY <2>2, CopyingStep DEF Stepping
    <3>2. st.op \in Copies
      BY <3>1 DEF CopiesOne, Copies
    <3> HIDE DEF st
    <3>3. StoredPiece(p, st) \/ FetchedPiece(p, st)
      BY <3>1, <3>2 DEF Steps, Mapped, Loaded, Stored, Unpressed, Copies
    <3> QED BY <1>1, <2>2, <3>1, <3>3 DEF CopiesNow, st
  <2>3. CASE Opening(p)
    <3>1. ~AtStep(p) /\ UNCHANGED <<buf, blurred>> /\ proc'[p].got = << >> /\ At(p)' = 1
      BY <2>3 DEF Opening, Starts, AtStep, shared
    <3> QED BY <1>1, <3>1 DEF Turns, Acts
  <2>4. CASE Calling(p)
    <3>1. /\ ~InCall(p) /\ On(p) /\ UNCHANGED <<buf, blurred>> /\ At(p)' = 1
          /\ proc'[p].got = proc[p].got
      BY <2>4 DEF Calling, Starts, shared
    <3>2. ~AtStep(p) /\ proc[p].got = << >>
      BY <3>1, InHello DEF GotInv
    <3> QED BY <1>1, <3>1, <3>2 DEF Turns, Acts
  <2>5. CASE Leaving(p)
    <3>1. /\ ~AtStep(p) /\ UNCHANGED <<buf, blurred>> /\ proc'[p].got = << >>
          /\ ~AtStep(p)' /\ ~InCall(p)'
      BY <2>5 DEF Leaving, Out, InCall, shared
    <3> QED BY <1>1, <3>1 DEF Turns, Acts
  <2> QED BY <1>1, <2>1, <2>2, <2>3, <2>4, <2>5 DEF Acts
<1> QED
  BY <1>1, StepCases DEF Idling

(* Who is between two pieces.                                              *)
LEMMA AmidIs ==
  ASSUME Shape, dev \in Hello01, NEW p \in Procs, NEW ops \in SUBSET Copies
  PROVE  Amid(p, ops) <=> \E q \in Procs \ {p} : \E op \in ops : IsAmid(q, op)
<1>1. Pieces[2] = 1
  BY DEF Pieces
<1>2. ASSUME NEW q \in Procs
      PROVE  (/\ proc[q].prog # << >> /\ Head(proc[q].prog).op \in ops
              /\ Head(proc[q].prog).v = {Pieces[2]})
             <=> \E op \in ops : IsAmid(q, op)
  <2>1. CASE ~AtStep(q)
    BY <2>1, AtItsStep DEF IsAmid
  <2>2. CASE AtStep(q)
    <3>1. proc[q].prog # << >> /\ Head(proc[q].prog) = StepOf(q)
      BY <2>2, AtItsStep
    <3>2. CopiesOne(q)
      BY <2>2, CopyingStep DEF Hellos
    <3>3. At(q) \in {1, 2} /\ StepOf(q).v = {At(q) - 1}
      BY <3>2 DEF CopiesOne, MappingTest, Hello01
    <3>4. StepOf(q).v = {1} <=> At(q) = 2
      BY <3>3
    <3> QED BY <1>1, <2>2, <3>1, <3>4 DEF IsAmid
  <2> QED BY <2>1, <2>2
<1> QED
  BY <1>2 DEF Amid

\* A piece of the hello driver's buffer is stored, or fetched.  A string that
\* ends in its first piece has no second.
Moves01(p) ==
  /\ OthersSame(p) /\ At(p)' = At(p) + 1 /\ At(p) \in {1, 2} /\ AtStep(p)
  /\ \/ /\ StepOf(p).op = "store" /\ (AtStep(p)' => StepOf(p)'.op = "store")
        /\ proc'[p].got = proc[p].got
        /\ blurred' = (blurred \/ Amid(p, {"store", "fetch"}))
        /\ \/ /\ buf' = [buf EXCEPT ![At(p) - 1] = Piece(p, FALSE)]
              /\ AtStep(p)' <=> At(p) = 1
           \/ /\ buf' = [buf EXCEPT ![At(p) - 1] = Piece(p, TRUE)]
              /\ At(p) = 1 /\ ~AtStep(p)'
     \/ /\ StepOf(p).op = "fetch" /\ (AtStep(p)' => StepOf(p)'.op = "fetch")
        /\ AtStep(p)' <=> At(p) = 1
        /\ buf' = buf /\ Len(proc[p].got) = At(p) - 1
        /\ proc'[p].got = Append(proc[p].got, buf[At(p) - 1])
        /\ blurred' = (blurred \/ Amid(p, {"store"}))

(* Every copying is one of these in the hello drivers with a buffer.       *)
LEMMA Copies01 ==
  ASSUME Shape, PageInv, GotInv, dev \in Hello01, NEW p \in Procs, CopiesNow(p)
  PROVE  Moves01(p)
<1> DEFINE st == StepOf(p)
           k == At(p)
           n == Len(Prog(p))
<1>1. /\ OneCopying(p) /\ InCall(p) /\ st.op \in Copies /\ k \in {1, 2}
      /\ st.ptr = "kernel_buf" /\ Prog(p)[1].op = st.op /\ n \in {1, 2}
      /\ n = 2 => st.cell = "none" /\ Prog(p)[2].op = st.op
      /\ n # 2 => st.cell = "end" /\ st.op = "store" /\ k = 1
  BY DEF CopiesNow, CopiesOne, OneCopying, MappingTest, Hello01
<1>2. /\ OthersSame(p) /\ At(p)' = k + 1 /\ AtStep(p) /\ (AtStep(p)' <=> k + 1 <= n)
      /\ StepOf(p)' = Prog(p)[k + 1] /\ Gains(p, st)
  BY <1>1 DEF CopiesNow, Acts, Stepping, GoesTo
<1>3. /\ n = 2 => (AtStep(p)' <=> k = 1)
      /\ n # 2 => ~AtStep(p)'
  <2> HIDE DEF k, n
  <2> QED BY <1>1, <1>2
<1>4. AtStep(p)' => StepOf(p)'.op = st.op
  <2>1. k = 1 => k + 1 = 2
    OBVIOUS
  <2> QED BY <1>1, <1>2, <1>3, <2>1
<1>5. CellOf(st) = k - 1
  <2>1. off = 0 /\ off \in {0, 2} /\ ~MappingTest(p)
    BY DEF PageInv, MappingTest, Hello01
  <2>2. CellOf(st) = off + k - 1
    BY <1>1, <2>1, CellsOfPieces DEF CopiesNow
  <2> QED BY <1>1, <2>1, <2>2
<1>6. st.op = "fetch" => Len(proc[p].got) = k - 1
  BY <1>1 DEF GotInv
<1>7. Text(p, st) = Piece(p, n # 2)
  <2>1. (st.cell = "end") = (n # 2)
    BY <1>1
  <2> QED BY <1>1, <2>1 DEF Text
<1>8. StoredPiece(p, st) \/ FetchedPiece(p, st)
  BY DEF CopiesNow
<1> HIDE DEF st, k, n
<1>9. CASE StoredPiece(p, st)
  <2>1. /\ st.op = "store" /\ buf' = [buf EXCEPT ![k - 1] = Piece(p, n # 2)]
        /\ blurred' = (blurred \/ Amid(p, {"store", "fetch"}))
    BY <1>5, <1>7, <1>9 DEF StoredPiece
  <2>2. proc'[p].got = proc[p].got
    BY <1>2, <2>1 DEF Gains
  <2>3. CASE n = 2
    <3>1. (n # 2) = FALSE
      BY <2>3
    <3>2. buf' = [buf EXCEPT ![k - 1] = Piece(p, FALSE)]
      BY <2>1, <3>1
    <3> QED BY <1>1, <1>2, <1>3, <1>4, <2>1, <2>2, <2>3, <3>2 DEF Moves01, st, k
  <2>4. CASE n # 2
    <3>1. (n # 2) = TRUE
      BY <2>4
    <3>2. buf' = [buf EXCEPT ![k - 1] = Piece(p, TRUE)]
      BY <2>1, <3>1
    <3> QED BY <1>1, <1>2, <1>3, <1>4, <2>1, <2>2, <2>4, <3>2 DEF Moves01, st, k
  <2> QED BY <2>3, <2>4
<1>10. CASE FetchedPiece(p, st)
  <2>1. /\ st.op = "fetch" /\ buf' = buf
        /\ blurred' = (blurred \/ Amid(p, {"store"}))
    BY <1>10 DEF FetchedPiece
  <2>2. proc'[p].got = Append(proc[p].got, buf[k - 1])
    <3>1. Fetchable(CellOf(st)) = {buf[k - 1]}
      BY <1>5 DEF Fetchable, Hello01
    <3> QED BY <1>2, <2>1, <3>1 DEF Gains
  <2>3. n = 2
    BY <1>1, <2>1
  <2> QED BY <1>1, <1>2, <1>3, <1>4, <1>6, <2>1, <2>2, <2>3 DEF Moves01, st, k
<1> QED
  BY <1>8, <1>9, <1>10

(* Texts do not mix, unless a copying has come amid another.               *)
LEMMA TextStep ==
  ASSUME Shape, PageInv, GotInv, TextInv, [Next]_vars PROVE TextInv'
<1>1. dev' = dev /\ off' = off
  BY ShapeStep, StepCases
<1> SUFFICES ASSUME dev \in Hello01, ~blurred'
             PROVE  /\ \A p, q \in Procs : IsAmid(p, "store")' =>
                         /\ buf'[0] = Piece(p, FALSE)
                         /\ p # q => ~IsAmid(q, "store")' /\ ~IsAmid(q, "fetch")'
                    /\ (\A p \in Procs : ~IsAmid(p, "store")') => Whole(buf'[0], buf'[1])
                    /\ \A p \in Procs : IsAmid(p, "fetch")' => proc'[p].got[1] = buf'[0]
                    /\ \A p \in Procs : Len(proc'[p].got) = 2 =>
                         Whole(proc'[p].got[1], proc'[p].got[2])
  BY <1>1 DEF TextInv, Whole
<1>2. dev \in Hellos
  BY DEF Hellos
<1>3. \A q \in Procs : Same(q) =>
        /\ \A op : (IsAmid(q, op)' <=> IsAmid(q, op))
        /\ proc'[q].got = proc[q].got
  BY DEF Same, IsAmid
<1>5. ASSUME NEW p \in Procs, Turns(p)
      PROVE  /\ buf' = buf /\ ~blurred
             /\ \A q \in Procs : \A op : (IsAmid(q, op)' <=> IsAmid(q, op))
             /\ \A q \in Procs \ {p} : proc'[q].got = proc[q].got
             /\ \A op : ~IsAmid(p, op)'
             /\ Len(proc'[p].got) = 0
  <2>1. \A op : ~IsAmid(p, op)
    BY <1>5 DEF Turns, IsAmid
  <2>2. \A op : ~IsAmid(p, op)'
    BY <1>5 DEF Turns, IsAmid
  <2>3. proc'[p].got = << >> /\ buf' = buf /\ blurred' = blurred /\ OthersSame(p)
    BY <1>5 DEF Turns
  <2>4. Len(proc'[p].got) = 0
    BY <2>3
  <2>5. ~blurred
    BY <2>3
  <2>6. \A q \in Procs \ {p} : proc'[q].got = proc[q].got
    BY <1>3, <2>3 DEF OthersSame
  <2>7. ASSUME NEW q \in Procs, NEW op PROVE (IsAmid(q, op)' <=> IsAmid(q, op))
    <3>1. q = p => ~IsAmid(q, op) /\ ~IsAmid(q, op)'
      BY <2>1, <2>2
    <3>2. CASE q # p
      BY <1>3, <2>3, <3>2 DEF OthersSame
    <3> QED BY <3>1, <3>2
  <2> QED BY <2>2, <2>3, <2>4, <2>5, <2>6, <2>7
<1>6. ASSUME NEW p \in Procs, Moves01(p), StepOf(p).op = "store"
      PROVE  /\ \A r, q \in Procs : IsAmid(r, "store")' =>
                  /\ buf'[0] = Piece(r, FALSE)
                  /\ r # q => ~IsAmid(q, "store")' /\ ~IsAmid(q, "fetch")'
             /\ (\A r \in Procs : ~IsAmid(r, "store")') => Whole(buf'[0], buf'[1])
             /\ \A r \in Procs : ~IsAmid(r, "fetch")'
             /\ ~blurred /\ \A r \in Procs : proc'[r].got = proc[r].got
  <2>1. /\ ~blurred /\ ~Amid(p, {"store", "fetch"})
        /\ proc'[p].got = proc[p].got
        /\ AtStep(p)' => StepOf(p)'.op = "store"
    BY <1>6 DEF Moves01
  <2>2. \A q \in Procs \ {p} : ~IsAmid(q, "store") /\ ~IsAmid(q, "fetch")
    <3>1. {"store", "fetch"} \in SUBSET Copies
      BY DEF Copies
    <3> QED BY <2>1, <3>1, AmidIs
  <2>3. \A q \in Procs \ {p} : /\ ~IsAmid(q, "store")' /\ ~IsAmid(q, "fetch")'
                               /\ proc'[q].got = proc[q].got
    BY <1>3, <1>6, <2>2 DEF Moves01, OthersSame
  <2>4. ~IsAmid(p, "fetch")'
    BY <2>1 DEF IsAmid
  <2>5. CASE At(p) = 1 /\ AtStep(p)'
    <3>1. At(p)' = At(p) + 1 /\ buf' = [buf EXCEPT ![At(p) - 1] = Piece(p, FALSE)]
      BY <1>6, <2>5 DEF Moves01
    <3>5. At(p) - 1 = 0 /\ At(p)' = 2
      BY <2>5, <3>1
    <3>2. buf' = [buf EXCEPT ![0] = Piece(p, FALSE)]
      BY <3>1, <3>5
    <3>3. buf'[0] = Piece(p, FALSE)
      BY <3>2 DEF PageInv
    <3>4. IsAmid(p, "store")'
      BY <2>1, <2>5, <3>5 DEF IsAmid
    <3> QED BY <2>1, <2>3, <2>4, <3>3, <3>4
  <2>7. CASE At(p) = 1 /\ ~AtStep(p)'
    <3>1. buf' = [buf EXCEPT ![At(p) - 1] = Piece(p, TRUE)]
      BY <1>6, <2>7 DEF Moves01
    <3>2. At(p) - 1 = 0
      BY <2>7
    <3>3. buf'[0] = Piece(p, TRUE)
      BY <3>1, <3>2 DEF PageInv
    <3>4. Whole(buf'[0], buf'[1])
      BY <3>3 DEF Whole, Piece
    <3>5. ~IsAmid(p, "store")'
      BY <2>7 DEF IsAmid
    <3> QED BY <2>1, <2>3, <2>4, <3>4, <3>5
  <2>6. CASE At(p) = 2
    <3> DEFINE mine == Piece(p, FALSE)
    <3>8. AtStep(p) /\ StepOf(p).op = "store" /\ At(p) # 1
      BY <1>6, <2>6 DEF Moves01
    <3>9. buf' = [buf EXCEPT ![At(p) - 1] = mine] /\ (AtStep(p)' <=> At(p) = 1)
      BY <1>6, <3>8 DEF Moves01
    <3>1. ~AtStep(p)' /\ IsAmid(p, "store")
      BY <2>6, <3>8, <3>9 DEF IsAmid
    <3>6. At(p) - 1 = 1
      BY <2>6
    <3>2. buf[0] = mine
      BY <2>1, <3>1 DEF TextInv
    <3> HIDE DEF mine
    <3>3. buf' = [buf EXCEPT ![1] = mine]
      BY <3>6, <3>9
    <3>7. buf'[0] = buf'[1]
      BY <3>2, <3>3 DEF PageInv
    <3>4. Whole(buf'[0], buf'[1])
      BY <3>7 DEF Whole
    <3>5. ~IsAmid(p, "store")'
      BY <3>1 DEF IsAmid
    <3> QED BY <2>1, <2>3, <2>4, <3>4, <3>5
  <2> QED BY <1>6, <2>5, <2>6, <2>7 DEF Moves01
<1>7. ASSUME NEW p \in Procs, Moves01(p), StepOf(p).op = "fetch"
      PROVE  /\ buf' = buf /\ Whole(buf[0], buf[1]) /\ ~blurred
             /\ \A r \in Procs : ~IsAmid(r, "store")'
             /\ \A r \in Procs \ {p} : /\ (IsAmid(r, "fetch")' <=> IsAmid(r, "fetch"))
                                       /\ proc'[r].got = proc[r].got
             /\ IsAmid(p, "fetch")' => proc'[p].got[1] = buf[0]
             /\ Len(proc'[p].got) = 2 => Whole(proc'[p].got[1], proc'[p].got[2])
  <2> DEFINE g == proc[p].got
             x == buf[At(p) - 1]
             h == proc'[p].got
  <2>1. /\ ~blurred /\ ~Amid(p, {"store"}) /\ buf' = buf
        /\ h = Append(g, x) /\ Len(g) = At(p) - 1 /\ At(p) \in {1, 2}
        /\ AtStep(p)' => StepOf(p)'.op = "fetch"
    BY <1>7 DEF Moves01
  <2>2. \A q \in Procs : ~IsAmid(q, "store")
    <3>1. {"store"} \in SUBSET Copies
      BY DEF Copies
    <3>2. \A q \in Procs \ {p} : ~IsAmid(q, "store")
      BY <2>1, <3>1, AmidIs
    <3>3. ~IsAmid(p, "store")
      BY <1>7 DEF IsAmid
    <3> QED BY <3>2, <3>3
  <2>3. Whole(buf[0], buf[1])
    BY <2>1, <2>2 DEF TextInv
  <2>4. \A r \in Procs \ {p} : /\ ~IsAmid(r, "store")'
                               /\ (IsAmid(r, "fetch")' <=> IsAmid(r, "fetch"))
                               /\ proc'[r].got = proc[r].got
    BY <1>3, <1>7, <2>2 DEF Moves01, OthersSame
  <2>5. ~IsAmid(p, "store")'
    BY <2>1 DEF IsAmid
  <2>6. g \in Seq(Texts) /\ x \in Texts
    BY <2>1 DEF GotInv, PageInv
  <2>7. CASE At(p) = 1
    <3>1. x = buf[0] /\ Len(g) = 0
      BY <2>1, <2>7
    <3> HIDE DEF g, x, h
    <3>2. Len(h) = 1 /\ h[1] = x
      BY <2>1, <2>6, <3>1, AppendProperties
    <3> QED BY <2>1, <2>2, <2>3, <2>4, <2>5, <3>1, <3>2 DEF h
  <2>8. CASE At(p) = 2
    <3>1. x = buf[1] /\ Len(g) = 1
      BY <2>1, <2>8
    <3>2. IsAmid(p, "fetch") /\ ~IsAmid(p, "fetch")'
      BY <1>7, <2>8 DEF IsAmid, Moves01
    <3>3. g[1] = buf[0]
      BY <2>1, <3>2 DEF TextInv
    <3> HIDE DEF g, x, h
    <3>4. h[1] = g[1] /\ h[2] = x
      BY <2>1, <2>6, <3>1, AppendProperties
    <3> QED BY <2>1, <2>2, <2>3, <2>4, <2>5, <3>1, <3>2, <3>3, <3>4 DEF h
  <2> QED BY <2>1, <2>7, <2>8
<1>8. ASSUME NEW p \in Procs, CopiesNow(p) PROVE Moves01(p)
  BY <1>8, Copies01
<1>9. ASSUME NEW p \in Procs, Turns(p) PROVE TextInv'
  <2>1. /\ buf' = buf /\ ~blurred
        /\ \A q \in Procs : (IsAmid(q, "store")' <=> IsAmid(q, "store"))
        /\ \A q \in Procs : (IsAmid(q, "fetch")' <=> IsAmid(q, "fetch"))
        /\ \A q \in Procs \ {p} : proc'[q].got = proc[q].got
        /\ ~IsAmid(p, "fetch")' /\ Len(proc'[p].got) = 0
    BY <1>5, <1>9
  <2>2. Len(proc'[p].got) # 2
    BY <2>1
  <2>3. \A q \in Procs : Len(proc'[q].got) = 2 => proc'[q].got = proc[q].got
    BY <2>1, <2>2
  <2>4. \A q \in Procs : IsAmid(q, "fetch")' =>
          IsAmid(q, "fetch") /\ proc'[q].got = proc[q].got
    BY <2>1
  <2> QED BY <1>1, <2>1, <2>3, <2>4 DEF TextInv
<1>10. ASSUME NEW p \in Procs, Moves01(p), StepOf(p).op = "store" PROVE TextInv'
  BY <1>1, <1>6, <1>10 DEF TextInv
<1>11. ASSUME NEW p \in Procs, Moves01(p), StepOf(p).op = "fetch" PROVE TextInv'
  BY <1>1, <1>7, <1>11 DEF TextInv
<1>12. ASSUME UNCHANGED <<buf, blurred>>, \A q \in Procs : Same(q) PROVE TextInv'
  BY <1>1, <1>3, <1>12 DEF TextInv
<1>13. TextInv'
  BY <1>2, <1>8, <1>9, <1>10, <1>11, <1>12, HelloCases DEF Moves01
<1> QED
  BY <1>1, <1>13 DEF TextInv

\* The string is put into the mapping, or a piece is fetched from the buffer.
Moves07(p) ==
  /\ OthersSame(p)
  /\ \/ buf' = [buf EXCEPT ![0] = New] /\ proc'[p].got = proc[p].got
     \/ /\ buf' = buf
        /\ \E c \in {off, off + 1} : \E piece \in {buf[c], Old} :
             proc'[p].got = Append(proc[p].got, piece)

(* Every copying is one of these in the test of the mapping.               *)
LEMMA Copies07 ==
  ASSUME Shape, PageInv, GotInv, dev = "hello07", NEW p \in Procs, CopiesNow(p)
  PROVE  Moves07(p)
<1> DEFINE st == StepOf(p)
           k == At(p)
<1>1. /\ MappingTest(p) /\ ~OneCopying(p)
      /\ \/ k = 1 /\ st.op = "store" /\ st.ptr = "page"
         \/ k \in {2, 3} /\ st.op = "fetch"
  BY DEF CopiesNow, CopiesOne, OneCopying, Hello01
<1>2. OthersSame(p) /\ Gains(p, st)
  BY DEF CopiesNow, Acts, Stepping
<1>3. off \in {0, 2}
  BY DEF PageInv
<1>4. CellOf(st) = IF k = 1 THEN 0 ELSE off + k - 2
  BY <1>1, <1>3, CellsOfPieces DEF CopiesNow
<1>5. StoredPiece(p, st) \/ FetchedPiece(p, st)
  BY DEF CopiesNow
<1>6. CASE k = 1
  <2>1. st.op = "store" /\ Text(p, st) = New
    BY <1>1, <1>6 DEF Text
  <2> HIDE DEF st, k
  <2>2. buf' = [buf EXCEPT ![0] = New]
    BY <1>4, <1>5, <1>6, <2>1 DEF StoredPiece, FetchedPiece
  <2> QED BY <1>2, <2>1, <2>2 DEF Moves07, Gains
<1>7. CASE k \in {2, 3}
  <2>1. st.op = "fetch"
    BY <1>1, <1>7
  <2> HIDE DEF st, k
  <2>2. CellOf(st) \in {off, off + 1}
    BY <1>3, <1>4, <1>7
  <2>3. buf' = buf
    BY <1>5, <2>1 DEF StoredPiece, FetchedPiece
  <2>4. PICK piece \in Fetchable(CellOf(st)) : proc'[p].got = Append(proc[p].got, piece)
    BY <1>2, <2>1 DEF Gains
  <2>5. piece \in {buf[CellOf(st)], Old}
    BY <2>4 DEF Fetchable
  <2> QED BY <1>2, <2>2, <2>3, <2>4, <2>5 DEF Moves07
<1> QED
  BY <1>1, <1>6, <1>7

\* What a process of the mapping's test may have seen.
Seen(p) ==
  \A i \in 1 .. Len(proc[p].got) :
    proc[p].got[i] = Old \/ (off = 0 /\ proc[p].got[i] = New)

(* What is put into the mapping is not what the driver returns, if its     *)
(* buffer does not start the page.                                         *)
LEMMA MapTextStep ==
  ASSUME Shape, PageInv, GotInv, MapTextInv, [Next]_vars PROVE MapTextInv'
<1>1. dev' = dev /\ off' = off
  BY ShapeStep, StepCases
<1> DEFINE Page(b) == /\ \A c \in 0 .. 3 : b[c] \in {Old, New}
                      /\ off = 2 => b[2] = Old /\ b[3] = Old
<1> SUFFICES ASSUME dev = "hello07" PROVE Page(buf') /\ \A p \in Procs : Seen(p)'
  BY <1>1 DEF MapTextInv, Seen
<1>2. off \in {0, 2} /\ Page(buf) /\ \A p \in Procs : Seen(p)
  BY DEF MapTextInv, Seen
<1>3. \A q \in Procs : Same(q) => Seen(q)'
  BY <1>1, <1>2 DEF Same, Seen
<1>4. CASE UNCHANGED <<buf, blurred>> /\ \A q \in Procs : Same(q)
  BY <1>2, <1>3, <1>4
<1>5. ASSUME NEW p \in Procs, Turns(p)
      PROVE  Page(buf') /\ \A q \in Procs : Seen(q)'
  <2>1. buf' = buf /\ \A q \in Procs \ {p} : Same(q)
    BY <1>5 DEF Turns, OthersSame
  <2>2. 1 .. Len(proc'[p].got) = {}
    BY <1>5 DEF Turns
  <2>3. Seen(p)'
    BY <2>2 DEF Seen
  <2> QED BY <1>2, <1>3, <2>1, <2>3
<1>6. ASSUME NEW p \in Procs, Moves07(p)
      PROVE  Page(buf') /\ \A q \in Procs : Seen(q)'
  <2> DEFINE g == proc[p].got
             h == proc'[p].got
  <2>1. \A q \in Procs \ {p} : Same(q)
    BY <1>6 DEF Moves07, OthersSame
  <2>2. CASE buf' = [buf EXCEPT ![0] = New] /\ h = g
    <3>1. Page(buf')
      BY <1>2, <2>2 DEF PageInv
    <3>2. Seen(p)'
      BY <1>1, <1>2, <2>2 DEF Seen
    <3> QED BY <1>3, <2>1, <3>1, <3>2
  <2>3. ASSUME buf' = buf, NEW c \in {off, off + 1}, NEW x \in {buf[c], Old},
               h = Append(g, x)
        PROVE  Page(buf') /\ \A q \in Procs : Seen(q)'
    <3>1. x = Old \/ (off = 0 /\ x = New)
      <4>1. c \in 0 .. 3 /\ (off = 2 => c \in {2, 3})
        BY <1>2, <2>3
      <4> QED BY <1>2, <2>3, <4>1
    <3>2. g \in Seq(Texts) /\ x \in Texts
      <4>1. Old \in Texts /\ New \in Texts
        BY DEF Texts, Old, New, Piece
      <4> QED BY <3>1, <4>1 DEF GotInv
    <3>3. \A i \in 1 .. Len(h) : h[i] = Old \/ (off = 0 /\ h[i] = New)
      <4>1. \A i \in 1 .. Len(g) : g[i] = Old \/ (off = 0 /\ g[i] = New)
        BY <1>2 DEF Seen
      <4> HIDE DEF g, h
      <4>2. Len(h) = Len(g) + 1 /\ h[Len(g) + 1] = x
            /\ \A i \in 1 .. Len(g) : h[i] = g[i]
        BY <2>3, <3>2, AppendProperties
      <4>3. Len(g) \in Nat
        BY <3>2
      <4> QED BY <3>1, <4>1, <4>2, <4>3
    <3>4. Seen(p)'
      BY <1>1, <3>3 DEF Seen
    <3> QED BY <1>2, <1>3, <2>1, <2>3, <3>4
  <2> QED BY <1>6, <2>2, <2>3 DEF Moves07
<1> QED
  BY <1>4, <1>5, <1>6, Copies07, HelloCases DEF Hellos

(* The string a completed read shows is one write's, unless a write has    *)
(* come amid another copying; and what was put into the mapping is not     *)
(* read back if the buffer does not start its page.                        *)
THEOREM ReadReturnsOneWriteHolds == Spec => []ReadReturnsOneWrite
<1>1. Init => TypeInv /\ TextInv /\ MapTextInv
  <2> SUFFICES ASSUME Init PROVE TextInv /\ MapTextInv
    BY TypeInit
  <2>1. \A p \in Procs : ~AtStep(p) /\ ~InCall(p) /\ proc[p].got = << >>
    BY DEF Init, AtStep, On, Out, InCall
  <2>2. \A p \in Procs : Len(proc[p].got) = 0
    BY <2>1
  <2>3. buf = [c \in 0 .. 3 |-> Old] /\ Whole(buf[0], buf[1])
    BY DEF Init, Whole
  <2>4. TextInv
    <3>1. dev \in Hello01 => off = 0
      BY DEF Init, Hello01
    <3>2. \A p \in Procs : ~IsAmid(p, "store") /\ ~IsAmid(p, "fetch")
      BY <2>1 DEF IsAmid
    <3>3. \A p \in Procs : Len(proc[p].got) # 2
      BY <2>2
    <3> QED BY <2>3, <3>1, <3>2, <3>3 DEF TextInv
  <2>5. MapTextInv
    <3>1. off \in {0, 2}
      BY DEF Init
    <3> QED BY <2>1, <2>3, <3>1 DEF MapTextInv
  <2> QED BY <2>4, <2>5
<1>2. Shape /\ TypeInv /\ TextInv /\ MapTextInv /\ [Next]_vars
        => TypeInv' /\ TextInv' /\ MapTextInv'
  BY RegTypesStep, BitsStep, PageStep, GotStep, RunsStep, TextStep, MapTextStep DEF TypeInv
<1>3. Shape /\ TypeInv /\ TextInv /\ MapTextInv => ReadReturnsOneWrite
  <2> SUFFICES ASSUME Shape, GotInv, TextInv, MapTextInv, NEW p \in Procs,
                      Len(proc[p].got) = 2
               PROVE  /\ blurred \/ Whole(proc[p].got[1], proc[p].got[2])
                      /\ dev = "hello07" /\ off # 0 => proc[p].got[1] # New
    <3>1. Len(Pieces) = 2
      BY DEF Pieces
    <3> QED BY <3>1 DEF ReadReturnsOneWrite, TypeInv, Whole
  <2> DEFINE g == proc[p].got
  <2>1. /\ g \in Seq(Texts) /\ Len(g) = 2 /\ On(p) /\ dev \in Hellos
        /\ dev = "hello07" => MappingTest(p) /\ At(p) = 4
    BY AtMostTwo
  <2>2. CASE dev \in Hello01
    <3>1. dev # "hello07"
      BY <2>2 DEF Hello01
    <3>2. blurred \/ Whole(g[1], g[2])
      BY <2>2, <2>1 DEF TextInv
    <3> QED BY <3>1, <3>2
  <2>3. CASE dev = "hello07"
    <3>1. 1 \in 1 .. Len(g)
      BY <2>1
    <3>2. g[1] = Old \/ (off = 0 /\ g[1] = New)
      BY <2>3, <3>1 DEF MapTextInv
    <3>3. Old # New /\ Old.ends /\ New.ends
      BY DEF Old, New, Piece
    <3> HIDE DEF g
    <3>4. g[1].ends
      BY <3>2, <3>3
    <3> QED BY <3>2, <3>3, <3>4 DEF Whole, g
  <2> QED BY <2>1, <2>2, <2>3 DEF Hellos
<1> QED
  BY <1>1, <1>2, <1>3, Positions, PTL DEF Spec
=============================================================================
