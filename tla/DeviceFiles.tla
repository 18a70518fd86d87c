----------------------------- MODULE DeviceFiles -----------------------------
(***************************************************************************)
(* Processes that run a test program on the nodes of one driver at the     *)
(* same time.  No driver takes a lock, so any two of the loads and stores  *)
(* of RegisterPrograms may come between each other.                        *)
(***************************************************************************)
EXTENDS DeviceTable

CONSTANTS
  Devices,     \* the drivers of this instance, of DOMAIN Device
  Procs,       \* the processes
  MaxRuns      \* bound: how often a process runs its program

ASSUME FilesAssumption == MaxRuns \in Nat

ASSUME DevicesAssumption == Devices \subseteq DOMAIN Device

VARIABLES
  dev,         \* the driver
  reg,         \* its registers
  mapped,      \* the pointers that are set, of a driver that does it lazily
  off, buf,    \* where in its page kernel_buf starts; the page
  proc,        \* the processes
  runs,        \* how often each has run its program
  oops,        \* a null pointer has been followed, and the system stops
  asked,       \* history: what the last store aimed at each LED asked for
  raced,       \* history: registers stored to that had changed since the load
  blurred      \* history: a write was copied amid another's copying

vars == <<dev, reg, mapped, off, buf, proc, runs, oops, asked, raced, blurred>>
F == Device[dev]

Out == [phase |-> "out", w |-> 0, s |-> "none", prog |-> << >>, tmp |-> {},
        got |-> << >>]

\* A piece of a text: whose it is, and whether the text ends in it.  The driver
\* starts with a text of its own; the test of the mapping puts one there.
Piece(by, ends) == [by |-> by, ends |-> ends]
Old == Piece("old", TRUE)
New == Piece("new", TRUE)

\* kmalloc(1024) returns any quarter of a page; here any half.
Init ==
  /\ dev \in Devices
  /\ reg = F.reset /\ mapped = {}
  /\ off \in IF dev = "hello07" THEN {0, 2} ELSE {0}
  /\ buf = [c \in 0 .. 3 |-> Old]
  /\ proc = [p \in Procs |-> Out] /\ runs = [p \in Procs |-> 0]
  /\ oops = FALSE
  /\ asked = [w \in DOMAIN F.data |-> "none"] /\ raced = {} /\ blurred = FALSE

-----------------------------------------------------------------------------
(* Steps of a process inside the driver.                                    *)

\* The process goes on, with these changes to its record.
GoesOn(p, prog, tmp, got) ==
  proc' = [proc EXCEPT ![p].prog = prog, ![p].tmp = tmp, ![p].got = got]
NextStep(p) == GoesOn(p, Tail(proc[p].prog), proc[p].tmp, proc[p].got)

Reachable(ptr) == dev \in Lazy => ptr \in mapped

\* What the LED that a store to a register is aimed at was asked to do.
Wish(p) == IF proc[p].phase = "opening" THEN "off" ELSE proc[p].s
Aimed(p, r, wish) ==
  asked' = [w \in DOMAIN asked |->
              IF w = proc[p].w /\ F.data[w].r = r THEN wish ELSE asked[w]]

Lights(w, bits) == (F.data[w].bit \in bits) = (F.data[w].level = 1)

Result(p, s) ==
  CASE s.op = "or" -> proc[p].tmp \cup s.v
    [] s.op = "andnot" -> proc[p].tmp \ s.v
    [] s.op = "nibble" -> (proc[p].tmp \ {0, 1, 2, 3}) \cup s.v
    [] s.op = "put" -> s.v
    [] s.op = "set" -> reg[s.cell] \cup s.v
    [] s.op = "clear" -> reg[s.cell] \ s.v

Skipped(p, s) ==
  /\ s.op = "unless"
  /\ LET n == CHOOSE n \in s.v : TRUE
     IN  GoesOn(p, IF s.ptr \in mapped THEN SubSeq(proc[p].prog, n + 2,
                                                   Len(proc[p].prog))
                                       ELSE Tail(proc[p].prog),
                proc[p].tmp, proc[p].got)
  /\ UNCHANGED <<reg, mapped, buf, oops, asked, raced, blurred>>

Mapped(p, s) ==
  /\ s.op = "map" /\ mapped' = mapped \cup {s.ptr} /\ NextStep(p)
  /\ UNCHANGED <<reg, buf, oops, asked, raced, blurred>>

Loaded(p, s) ==
  /\ s.op = "load" /\ Reachable(s.ptr)
  /\ GoesOn(p, Tail(proc[p].prog), reg[s.cell], proc[p].got)
  /\ UNCHANGED <<reg, mapped, buf, oops, asked, raced, blurred>>

Stored(p, s) ==
  /\ s.op \in {"or", "andnot", "nibble", "put", "set", "clear"}
  /\ Reachable(s.ptr)
  /\ reg' = [reg EXCEPT ![s.cell] = Result(p, s)]
  /\ raced' = IF s.op \in {"or", "andnot", "nibble"} /\ reg[s.cell] # proc[p].tmp
              THEN raced \cup {s.cell} ELSE raced
  /\ Aimed(p, s.cell, Wish(p))
  /\ GoesOn(p, Tail(proc[p].prog), {}, proc[p].got)
  /\ UNCHANGED <<mapped, buf, oops, blurred>>

\* if (*dr & bit) *dr &= ~bit; else *dr |= bit;
Toggled(p, s) ==
  /\ s.op = "toggle"
  /\ LET then == IF s.v \subseteq reg[s.cell] THEN AndNot(s.ptr, s.cell, s.v)
                                              ELSE OrInto(s.ptr, s.cell, s.v)
         wish == IF Lights(proc[p].w, reg[s.cell]) THEN "off" ELSE "on"
     IN  proc' = [proc EXCEPT ![p].prog = then \o Tail(@), ![p].s = wish]
  /\ UNCHANGED <<reg, mapped, buf, oops, asked, raced, blurred>>

\* A button is 0 while it is pressed.
Unpressed(p, s) ==
  /\ s.op = "unpressed" /\ s.v \subseteq reg[s.cell] /\ NextStep(p)
  /\ UNCHANGED <<reg, mapped, buf, oops, asked, raced, blurred>>

NullFollowed(p, s) ==
  /\ s.op \in {"load", "or", "andnot", "nibble", "put", "set", "clear"}
  /\ ~Reachable(s.ptr) /\ oops' = TRUE
  /\ UNCHANGED <<proc, reg, mapped, buf, asked, raced, blurred>>

CellOf(s) ==
  (IF s.ptr = "kernel_buf" THEN off ELSE 0) + (CHOOSE c \in s.v : TRUE)
\* Another process is between its first and its second piece.
Amid(p, ops) ==
  \E q \in Procs \ {p} :
    /\ proc[q].prog # << >>
    /\ Head(proc[q].prog).op \in ops /\ Head(proc[q].prog).v = {Pieces[2]}
Text(p, s) == IF s.ptr = "page" THEN New ELSE Piece(p, s.cell = "end")

\* In 07 the kernel reads through its cache, and may go on seeing there what it
\* wrote itself, whatever was put into the mapping past the cache.
Fetchable(c) == IF dev = "hello07" THEN {buf[c], Old} ELSE {buf[c]}
StoredPiece(p, s) ==
  /\ s.op = "store"
  /\ buf' = [buf EXCEPT ![CellOf(s)] = Text(p, s)]
  /\ blurred' = (blurred \/ Amid(p, {"store", "fetch"}))
  /\ NextStep(p) /\ UNCHANGED <<reg, mapped, oops, asked, raced>>
FetchedPiece(p, s) ==
  /\ s.op = "fetch"
  /\ \E piece \in Fetchable(CellOf(s)) :
       GoesOn(p, Tail(proc[p].prog), proc[p].tmp, Append(proc[p].got, piece))
  /\ blurred' = (blurred \/ Amid(p, {"store"}))
  /\ UNCHANGED <<reg, mapped, buf, oops, asked, raced>>

Runs(p) ==
  /\ ~oops /\ proc[p].prog # << >>
  /\ LET s == Head(proc[p].prog)
     IN  \/ Skipped(p, s) \/ Mapped(p, s) \/ Loaded(p, s) \/ Stored(p, s)
         \/ Toggled(p, s) \/ Unpressed(p, s) \/ NullFollowed(p, s)
         \/ StoredPiece(p, s) \/ FetchedPiece(p, s)
  /\ UNCHANGED <<dev, off, runs>>

-----------------------------------------------------------------------------
(* The test program around them; fingers.                                   *)

kept == <<dev, reg, mapped, off, buf, oops, asked, raced, blurred>>

Opens(p) ==
  /\ ~oops /\ proc[p].phase = "out" /\ runs[p] < MaxRuns
  /\ runs' = [runs EXCEPT ![p] = @ + 1]
  /\ \E w \in F.which :
       proc' = [proc EXCEPT ![p] = [Out EXCEPT !.phase = "opening", !.w = w,
                                               !.prog = F.open[w]]]
  /\ UNCHANGED kept

Calls(p) ==
  /\ ~oops /\ proc[p].phase = "opening" /\ proc[p].prog = << >>
  /\ \E s \in F.test.calls :
       proc' = [proc EXCEPT ![p].phase = IF s \in F.test.again THEN "again" ELSE "last",
                            ![p].s = s, ![p].prog = F.call[proc[p].w][s]]
  /\ UNCHANGED <<kept, runs>>

CallsAgain(p) ==
  /\ ~oops /\ proc[p].phase = "again" /\ proc[p].prog = << >>
  /\ \E s \in F.test.again :
       proc' = [proc EXCEPT ![p].s = s, ![p].prog = F.call[proc[p].w][s]]
  /\ UNCHANGED <<kept, runs>>

Closes(p) ==
  /\ ~oops /\ proc[p].phase = "last" /\ proc[p].prog = << >> /\ F.test.ends
  /\ proc' = [proc EXCEPT ![p] = Out]
  /\ UNCHANGED <<kept, runs>>

Press ==
  /\ ~oops /\ dev = "button"
  /\ \E w \in F.which :
       reg' = [reg EXCEPT !.dr = IF w \in @ THEN @ \ {w} ELSE @ \cup {w}]
  /\ UNCHANGED <<dev, mapped, off, buf, proc, runs, oops, asked, raced, blurred>>

Next ==
  \/ \E p \in Procs : Runs(p) \/ Opens(p) \/ Calls(p) \/ CallsAgain(p) \/ Closes(p)
  \/ Press

Spec == Init /\ [][Next]_vars
-----------------------------------------------------------------------------
(* Properties.                                                              *)

\* The bits a register may have: those after reset, those a pin needs, and the
\* data bits of the LEDs.
BitsOf(r) ==
  F.reset[r] \cup {F.data[w].bit : w \in {v \in DOMAIN F.data : F.data[v].r = r}}
    \cup UNION {n[2] : n \in {m \in UNION {F.needs[w] : w \in F.which} : m[1] = r}}

\* Types.  No store sets a bit of a pin that is not the driver's.
TypeOK ==
  /\ dev \in Devices
  /\ \A r \in DOMAIN reg : reg[r] \subseteq BitsOf(r)
  /\ off \in {0, 2} /\ buf \in [0 .. 3 -> [by : Procs \cup {"old", "new"}, ends : BOOLEAN]]
  /\ \A p \in Procs :
       /\ proc[p].phase \in {"out", "opening", "last", "again"}
       /\ proc[p].w \in 0 .. 3 /\ Len(proc[p].got) <= Len(Pieces)
  /\ runs \in [Procs -> 0 .. MaxRuns]
  /\ asked \in [DOMAIN F.data -> {"none", "on", "off"}]
  /\ raced \subseteq DOMAIN reg /\ blurred \in BOOLEAN /\ oops \in BOOLEAN

SharedData(r) == Cardinality({w \in DOMAIN F.data : F.data[w].r = r}) > 1
SharedNeed(r) ==
  Cardinality({w \in F.which : \E n \in F.needs[w] : n[1] = r}) > 1

\* A LED is as the last store aimed at it asked, whatever other processes
\* do, unless its data register serves several LEDs and a store to it came
\* between another's load and store.
LedsShowTheLastWrite ==
  \A w \in DOMAIN asked : asked[w] # "none" =>
    \/ Lights(w, reg[F.data[w].r]) = (asked[w] = "on")
    \/ F.data[w].r \in raced /\ SharedData(F.data[w].r)

\* A pin that a process has opened stays configured, its clock on and its
\* direction set, while other processes open and write, unless a register
\* that serves several pins was raced for, or its own is being opened again.
OpenPinsStayConfigured ==
  \A p \in Procs : proc[p].phase \in {"last", "again"} =>
    \A n \in F.needs[proc[p].w] :
      \/ n[2] \subseteq reg[n[1]] /\ n[3] \cap reg[n[1]] = {}
      \/ n[1] \in raced /\ SharedNeed(n[1])
      \/ /\ dev \in ClearFirst
         /\ \E q \in Procs \ {p} : proc[q].phase = "opening" /\ proc[q].w = proc[p].w

\* A null pointer is followed only while another process is between the
\* first and the last of the ioremaps: the test of the first pointer stands
\* for all of them.
NullOnlyWhileMapping ==
  oops => \E p \in Procs : \E s \in ToSet(proc[p].prog) : s.op = "map"

\* The string a completed read shows, which goes as far as its NUL, is one
\* write's, whatever longer strings were written before and left their ends
\* behind it, unless a write and another process's copying have overlapped.
\* The test of the mapping does not read back what it put there when the buffer
\* does not start its page.
ReadReturnsOneWrite ==
  \A p \in Procs : Len(proc[p].got) = Len(Pieces) =>
    LET text == proc[p].got
    IN  /\ blurred \/ text[1].ends \/ text[1] = text[2]
        /\ dev = "hello07" /\ off # 0 => text[1] # New
=============================================================================
