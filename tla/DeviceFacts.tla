----------------------------- MODULE DeviceFacts -----------------------------
(***************************************************************************)
(* What the drivers of DeviceTable have in common.  The properties of      *)
(* DeviceFiles follow from these facts about the table, whatever the       *)
(* number of processes and of runs; a driver that satisfies them may be    *)
(* added to the table without another proof.                               *)
(***************************************************************************)
EXTENDS DeviceTable

Rmw == {"or", "andnot", "nibble"}
Stores == Rmw \cup {"put", "set", "clear"}
Moves == Stores \cup {"load"}
Copies == {"store", "fetch"}

\* The programs of a file: its opens, called "none" as a process does not ask
\* for anything yet, and its calls.
Wishes(f) == {"none"} \cup f.test.calls
Program(f, w, s) == IF s = "none" THEN f.open[w] ELSE f.call[w][s]
WishOf(s) == IF s = "none" THEN "off" ELSE s
StepsOf(P) == {P[i] : i \in 1 .. Len(P)}

\* The parts of a file fit together.
Fields(f) ==
  /\ f.which \subseteq 0 .. 3 /\ f.test.again \subseteq f.test.calls
  /\ "none" \notin f.test.calls
  /\ DOMAIN f.data \subseteq f.which
  /\ \A w \in DOMAIN f.data :
       /\ f.data[w].r \in DOMAIN f.reset /\ f.data[w].level \in {0, 1}
       /\ \A u \in DOMAIN f.data : f.data[u].r = f.data[w].r =>
                                     u = w \/ f.data[u].bit # f.data[w].bit
  /\ \A w \in f.which : \A n \in f.needs[w] :
       n[1] \in DOMAIN f.reset /\ \A u \in DOMAIN f.data : f.data[u].r # n[1]

\* A change of a register comes right after its load.
ChangesWhatItLoaded(P) ==
  \A i \in 1 .. Len(P) : P[i].op \in Rmw =>
    i > 1 /\ P[i - 1].op = "load" /\ P[i - 1].cell = P[i].cell

\* A store to a data register changes the bit of the LED it is meant for, to
\* the level it is meant to have.
StoresTheWish(f, w, s, P) ==
  \A i \in 1 .. Len(P) : \A u \in DOMAIN f.data :
    P[i].op \in Stores /\ P[i].cell = f.data[u].r =>
      /\ w \in DOMAIN f.data /\ f.data[w].r = P[i].cell /\ P[i].v = {f.data[w].bit}
      /\ WishOf(s) \in {"on", "off"}
      /\ (WishOf(s) = "on") = (f.data[w].level = 1) => P[i].op \in {"or", "set"}
      /\ (WishOf(s) = "on") # (f.data[w].level = 1) => P[i].op \in {"andnot", "clear"}

\* A register is one of the driver's, and no bit of it is set that neither
\* the pin nor its LED has.
StoresItsBits(f, w, P) ==
  \A i \in 1 .. Len(P) :
    /\ P[i].op \in Moves \cup {"toggle"} => P[i].cell \in DOMAIN f.reset
    /\ P[i].op \in {"or", "nibble", "put", "set"} =>
         \/ \E n \in f.needs[w] : n[1] = P[i].cell /\ P[i].v \subseteq n[2]
         \/ \E u \in DOMAIN f.data : f.data[u].r = P[i].cell

\* What a store makes of a need, whatever the register was.
Settles(st, n) ==
  \/ st.op \in {"or", "set"} /\ n[2] \subseteq st.v /\ n[3] = {}
  \/ st.op \in {"andnot", "clear"} /\ n[3] \subseteq st.v /\ n[2] = {}
  \/ st.op = "nibble" /\ n[2] \subseteq st.v /\ n[3] \subseteq {0, 1, 2, 3} \ st.v
  \/ st.op = "put" /\ n[2] \subseteq st.v /\ n[3] \cap st.v = {}

StoresAt(P, i, r) == P[i].op \in Stores /\ P[i].cell = r
Both(n) == n[2] # {} /\ n[3] # {}

\* A need of both kinds is settled by two stores, a clearing one first.
Clears(P, i, n) ==
  /\ P[i].op = "andnot" /\ n[3] \subseteq P[i].v
  /\ \E j \in i + 1 .. Len(P) : StoresAt(P, j, n[1])
SetsCleared(P, i, n) ==
  /\ P[i].op = "or" /\ n[2] \subseteq P[i].v /\ n[3] \cap P[i].v = {}
  /\ \E j \in 1 .. i - 2 : StoresAt(P, j, n[1])

\* Opening a pin, and nothing else, settles what it needs.  Registers that
\* pins share are changed in the bits of the own pin.
SettlesItsNeeds(d, f, w, s, P) ==
  /\ \A u \in f.which : \A n \in f.needs[u] : \A i \in 1 .. Len(P) :
       StoresAt(P, i, n[1]) =>
         /\ s = "none" /\ \E m \in f.needs[w] : m[1] = n[1]
         /\ u = w =>
              IF d \in ClearFirst /\ Both(n)
              THEN Clears(P, i, n) \/ SetsCleared(P, i, n) ELSE Settles(P[i], n)
         /\ u # w => /\ ~Both(n)
                     /\ \/ P[i].op = "or" /\ n[3] \cap P[i].v = {}
                        \/ P[i].op = "andnot" /\ n[2] \cap P[i].v = {}
  /\ s = "none" =>
       \A n \in f.needs[w] : \E i \in 1 .. Len(P) : StoresAt(P, i, n[1])

\* The first open of a lazy driver tests one pointer and maps all of them,
\* that one first.
MapsOf(P) == {P[i].ptr : i \in {j \in 1 .. Len(P) : P[j].op = "map"}}
Ptrs(f) == MapsOf(f.open[0])
First(f) == f.open[0][1].ptr
TestsAndMaps(f, P) ==
  /\ MapsOf(P) = Ptrs(f)
  /\ \E n \in 1 .. Len(P) - 1 :
       /\ P[1].op = "unless" /\ P[1].v = {n}
       /\ P[1].ptr = First(f) /\ P[2].ptr = First(f)
       /\ \A i \in 2 .. Len(P) :
            P[i].op # "unless" /\ (P[i].op = "map" <=> i <= n + 1)
MapsAfterTest(d, f, s, P) ==
  /\ d \in Lazy => \A i \in 1 .. Len(P) : P[i].op \in Moves => P[i].ptr \in Ptrs(f)
  /\ IF d \in Lazy /\ s = "none" THEN TestsAndMaps(f, P)
     ELSE \A i \in 1 .. Len(P) : P[i].op \notin {"unless", "map"}

\* A toggle becomes one of the two writes.
TogglesWrite(f, w, s, P) ==
  \A i \in 1 .. Len(P) : P[i].op = "toggle" =>
    /\ Len(P) = 1 /\ s # "none" /\ {"on", "off"} \subseteq f.test.calls
    /\ w \in DOMAIN f.data /\ f.data[w].level = 0
    /\ P[1].v = {f.data[w].bit} /\ P[1].cell = f.data[w].r
    /\ f.call[w]["on"] = AndNot(P[1].ptr, P[1].cell, P[1].v)
    /\ f.call[w]["off"] = OrInto(P[1].ptr, P[1].cell, P[1].v)

\* Only the hello drivers copy: both pieces of what they copy, in order, or a
\* string that ends in the first.
Hello01 == {"hello01", "hello01b"}
Hellos == Hello01 \cup {"hello07"}
CopiesBoth(P, i, op, ptr) ==
  \A j \in {0, 1} : /\ P[i + j].op = op /\ P[i + j].ptr = ptr
                     /\ P[i + j].v = {j} /\ P[i + j].cell = "none"
StoresString(P, ptr) ==
  P[1].op = "store" /\ P[1].ptr = ptr /\ P[1].v = {0} /\ P[1].cell = "end"
OneCopy(P) ==
  \/ Len(P) = 2 /\ \E op \in Copies : CopiesBoth(P, 1, op, "kernel_buf")
  \/ Len(P) = 1 /\ StoresString(P, "kernel_buf")
CopiesText(d, s, P) ==
  /\ d \in Hellos /\ s = "none" => P = << >>
  /\ d \in Hello01 /\ s # "none" => OneCopy(P)
  /\ d = "hello07" /\ s # "none" =>
       Len(P) = 3 /\ StoresString(P, "page") /\ CopiesBoth(P, 2, "fetch", "kernel_buf")
  /\ d \notin Hellos => \A i \in 1 .. Len(P) : P[i].op \notin Copies

\* What is particular to some: the hello tests call once, and the fingers on
\* the buttons change bits that are neither a LED's nor part of what a pin
\* needs.
Particular(d, f) ==
  /\ d \in Hellos => f.test.again = {}
  /\ d = "button" =>
       /\ DOMAIN f.data = {} /\ "dr" \in DOMAIN f.reset /\ f.which \subseteq f.reset.dr
       /\ \A w \in f.which : \A n \in f.needs[w] : n[1] # "dr"

ProgramFits(d, f, w, s, P) ==
  /\ P \in Seq(StepsOf(P))
  /\ ChangesWhatItLoaded(P) /\ StoresTheWish(f, w, s, P) /\ StoresItsBits(f, w, P)
  /\ SettlesItsNeeds(d, f, w, s, P) /\ MapsAfterTest(d, f, s, P)
  /\ TogglesWrite(f, w, s, P) /\ CopiesText(d, s, P)
FileFits(d, f) ==
  /\ Fields(f) /\ Particular(d, f)
  /\ \A w \in f.which : \A s \in Wishes(f) :
       ProgramFits(d, f, w, s, Program(f, w, s))

\* Every program of every driver is as it is said to be.  The table has no
\* parameter: evaluating this once decides it.
ASSUME TableAssumption == \A d \in DOMAIN Device : FileFits(d, Device[d])
=============================================================================
