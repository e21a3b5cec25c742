---------------------------- MODULE SessionProofs ----------------------------
(***************************************************************************)
(* Theorems about Session: the table of endpoint records, the one way in   *)
(* which a record is lost, the receiver and the answers of raw requests,   *)
(* for every set of addresses, every number of sessions, parts and faults, *)
(* and any unplug.  As in the model, a behaviour in which memory outside   *)
(* the records and the table is used ends there.                           *)
(*                                                                         *)
(* The invariant has two parts: General holds whatever a close has lost,   *)
(* Good until a record is lost.                                            *)
(***************************************************************************)
EXTENDS Session, FiniteSetTheorems, SequenceTheorems, TLAPS

EP == {"0", "80", "in", "out", "intr"}
Kind == {"CTRL", "BULK", "INTR"}

(* The callbacks that wake a thread, and all of them.                      *)
Waited == {"Callback_Ctrl", "Callback_Bulk_Msg"}
Handler == Waited \union {"Callback_BulkOut", "Callback_BulkInp", "Callback_Intr"}

Pending == [cb : Handler, rec : Addr, closed : BOOLEAN, stale : BOOLEAN]
Call == [ep : EP, type : {"CTRL", "BULK"}, cb : Handler, wait : BOOLEAN]
Table == [apPipes : Seq(Addr \union {NULL}), alloc : SUBSET Addr,
          mem : [Addr -> Record], faults : Nat]

Types == /\ chip \in Chip /\ plugged \in BOOLEAN /\ context \in BOOLEAN
         /\ iFlags \subseteq {"PRESENCE", "BUSY", "UART"}
         /\ pipes \in Table
         /\ transfers \in [Pipe -> Seq(Pending)]
         /\ pc \in {"idle", "call", "wait", "close"}
         /\ todo \in Seq(Call \union {MakeContext})
         /\ wBytes \in 0 .. MaxParts /\ slot \in Nat
         /\ endp \in Addr \union {NULL} /\ own \in Int /\ opens \in 0 .. MaxOpen

Key(p, a) == <<p.mem[a].iEP, p.mem[a].iType>>

(* The rows up to s are NULL; the others are the allocated records, each   *)
(* once, with an event, and with an endpoint and type of its own.          *)
Rows(p, s) == /\ s <= Len(p.apPipes)
              /\ \A i \in 1 .. s : p.apPipes[i] = NULL
              /\ \A i \in s + 1 .. Len(p.apPipes) : p.apPipes[i] \in p.alloc
              /\ \A i, j \in s + 1 .. Len(p.apPipes) : p.apPipes[i] = p.apPipes[j] => i = j
              /\ \A a \in p.alloc : \E i \in s + 1 .. Len(p.apPipes) : p.apPipes[i] = a
              /\ \A a \in p.alloc : p.mem[a].pEvent
              /\ \A a, b \in p.alloc : Key(p, a) = Key(p, b) => a = b

(* A transfer whose record was not freed is on the pipe of that record.    *)
Live(T, p) == \A q \in Pipe : \A k \in DOMAIN T[q] :
                 ~T[q][k].stale => T[q][k].rec \in p.alloc /\ Key(p, T[q][k].rec) = q

(* The pipe on which each callback that submits again does so.             *)
Serves(cb, q) ==
    \/ cb = "Callback_BulkInp" /\ q = <<"in", "BULK">>
    \/ cb = "Callback_BulkOut" /\ q = <<"out", "BULK">>
    \/ cb = "Callback_Intr" /\ chip = "CP210x" /\ q = <<"80", "CTRL">>
    \/ cb = "Callback_Intr" /\ chip # "CP210x" /\ q = <<"intr", "BULK">>

Roles(T) == \A q \in Pipe : \A k \in DOMAIN T[q] :
               ~T[q][k].stale => \/ T[q][k].cb \in Waited
                                 \/ Serves(T[q][k].cb, q) /\ (pc = "close" \/ Uart)

(* What the program has still to call: it waits for control transfers, or, *)
(* in a raw session, for any; in the others it waits on no pipe of Serves. *)
Planned(c) == IF c.wait
              THEN c.cb \in Waited /\ (Uart => /\ c.type = "CTRL"
                                               /\ chip = "CP210x" => c.ep = "0")
              ELSE Uart /\ Serves(c.cb, <<c.ep, c.type>>)
Plan == \A i \in DOMAIN todo : todo[i] # MakeContext => Planned(todo[i])

Receiver(t) == t.cb = "Callback_BulkInp" /\ ~t.closed
NoReceiver(T) == \A q \in Pipe : \A k \in DOMAIN T[q] : ~Receiver(T[q][k])
Receivers(T) == /\ \A q \in Pipe : \A k \in DOMAIN T[q] : Receiver(T[q][k]) => ~T[q][k].stale
                /\ \A q, r \in Pipe : \A i \in DOMAIN T[q], j \in DOMAIN T[r] :
                      Receiver(T[q][i]) /\ Receiver(T[r][j]) => q = r /\ i = j
Starting == \A i \in DOMAIN todo : todo[i].cb = "Callback_BulkInp" =>
               i = Len(todo) /\ NoReceiver(transfers)

(* The transfer the thread waits for is the only one of its kind.          *)
Asked(t) == t.cb \in Waited /\ ~t.stale
NoneAsked(T) == \A q \in Pipe : \A k \in DOMAIN T[q] : ~Asked(T[q][k])
OneAsked(T) == \A q, r \in Pipe : \A i \in DOMAIN T[q], j \in DOMAIN T[r] :
                  Asked(T[q][i]) /\ Asked(T[r][j]) => q = r /\ i = j
AskedOf(T, e) == \A q \in Pipe : \A k \in DOMAIN T[q] : Asked(T[q][k]) => T[q][k].rec = e
Answering == /\ ~NoneAsked(transfers) => pc = "wait" /\ own = -1
             /\ AskedOf(transfers, endp)
             /\ pc = "wait" => /\ endp \in pipes.alloc
                               /\ todo[1] # MakeContext /\ todo[1].wait
                               /\ Key(pipes, endp) = <<todo[1].ep, todo[1].type>>

(* An event that is set is the answer to the thread that waits, or tells   *)
(* that the send buffer is free.                                           *)
Raised(p) == \A a \in p.alloc : p.mem[a].raised =>
                \/ pc = "wait" /\ endp = a /\ own # -1 /\ p.mem[a].iCountRW = own
                \/ Key(p, a) = <<"out", "BULK">> /\ (pc = "close" \/ Uart)

Flow == /\ pc \in {"call", "wait"} <=> todo # <<>>
        /\ pc \in {"call", "wait"} => Open
        /\ pc = "close" => ~Open
        /\ slot > 0 => pc = "close"
        /\ ~Open /\ pc # "close" => pipes.alloc = {}
        /\ "PRESENCE" \notin iFlags => ~plugged /\ \A q \in Pipe : transfers[q] = <<>>

Good == /\ Rows(pipes, slot) /\ Live(transfers, pipes) /\ Roles(transfers) /\ Plan
        /\ Receivers(transfers) /\ Starting
        /\ OneAsked(transfers) /\ Answering /\ Raised(pipes) /\ Flow

(* The rows of a table, whatever was lost: those that are not NULL are     *)
(* allocated, have an event, and are one per endpoint and type; the walk   *)
(* along them ends at the first NULL.                                      *)
Row(p, i) == i \in DOMAIN p.apPipes /\ p.apPipes[i] # NULL
Walk(p, k) == /\ \A i \in 1 .. k : p.apPipes[i] # NULL
              /\ k < Len(p.apPipes) => p.apPipes[k + 1] = NULL
Sound(p) == /\ \E k \in 0 .. Len(p.apPipes) : Walk(p, k)
            /\ \A i : Row(p, i) => p.apPipes[i] \in p.alloc /\ p.mem[p.apPipes[i]].pEvent
            /\ \A i, j : Row(p, i) /\ Row(p, j) /\ Key(p, p.apPipes[i]) = Key(p, p.apPipes[j])
                          => i = j

(* An allocated record is in no row.                                       *)
Loss(p) == \E a \in p.alloc : \A i \in DOMAIN p.apPipes : p.apPipes[i] # a

(* What holds of the program whatever was lost.                            *)
Program == /\ pc \in {"call", "wait"} <=> todo # <<>>
           /\ pc = "wait" => endp \in Addr
General == Types /\ Program /\ (~badAccess => Sound(pipes))

SessionInv == General /\ (~badAccess => Lost \/ Good)

(* A step that is not taken by ClosePipes past its first slot, nor by a    *)
(* callback meanwhile.                                                     *)
Early == pc = "close" => slot = 0
Keeps == Types' /\ (~badAccess' /\ (Lost' => Early) => Good')

-----------------------------------------------------------------------------
(* What GetCreatePipe(p, ep, type) can return, s rows being freed.         *)
Found(p, o, ep, type) ==
    o.pipes = p /\ o.live /\ o.open /\ o.endp \in p.alloc /\ Key(p, o.endp) = <<ep, type>>

Kept(p, s) == IF s = 0 THEN p.apPipes ELSE <<>>

NoMemory(p, o, s) ==
    /\ o.pipes \in Table /\ o.endp = NULL /\ ~o.live /\ ~o.open
    /\ o.pipes.apPipes \in {p.apPipes, Kept(p, s)}
    /\ o.pipes.alloc = p.alloc /\ o.pipes.mem = p.mem

Same(p, o) == \A a \in p.alloc : o.pipes.mem[a] = p.mem[a]

Spoilt(p, o, s) ==
    /\ o.pipes \in Table /\ o.endp \in Addr \ p.alloc /\ ~o.live
    /\ o.pipes.alloc = p.alloc /\ Same(p, o) /\ o.pipes.apPipes = Kept(p, s)

Made(p, o, ep, type, s) ==
    /\ o.pipes \in Table /\ o.endp \in Addr \ p.alloc /\ o.live /\ o.open
    /\ o.pipes.alloc = p.alloc \union {o.endp} /\ Same(p, o)
    /\ o.pipes.apPipes = Append(Kept(p, s), o.endp)
    /\ Key(o.pipes, o.endp) = <<ep, type>>
    /\ o.pipes.mem[o.endp].pEvent /\ ~o.pipes.mem[o.endp].raised
    /\ s = 0 => \A a \in p.alloc : Key(p, a) # <<ep, type>>

(* The fields of a table after each change.                                *)
LEMMA TableFault ==
  ASSUME NEW p \in Table
  PROVE  /\ Fault(p) \in Table /\ Fault(p).apPipes = p.apPipes
         /\ Fault(p).alloc = p.alloc /\ Fault(p).mem = p.mem
  BY DEF Table, Fault

LEMMA TableAdded ==
  ASSUME NEW p \in Table, NEW a \in Addr
  PROVE  /\ Added(p, a) \in Table /\ Added(p, a).apPipes = Append(p.apPipes, a)
         /\ Added(p, a).alloc = p.alloc \union {a} /\ Added(p, a).mem = p.mem
<1>1. Append(p.apPipes, a) \in Seq(Addr \union {NULL}) /\ p.alloc \union {a} \in SUBSET Addr
  BY DEF Table
<1> QED
  BY <1>1 DEF Table, Added

(* The walk along the table finds all rows or none.                        *)
LEMMA PresentRows ==
  ASSUME NEW p \in Table, NEW s \in Nat, Rows(p, s)
  PROVE  /\ s = 0 => Present(p) = 1 .. Len(p.apPipes)
         /\ s # 0 => Present(p) = {}
<1>1. p.apPipes \in Seq(Addr \union {NULL}) /\ p.alloc \subseteq Addr
  BY DEF Table
<1>2. DOMAIN p.apPipes = 1 .. Len(p.apPipes) /\ Len(p.apPipes) \in Nat
  BY <1>1
<1>3. CASE s = 0
  <2>1. \A i \in DOMAIN p.apPipes : p.apPipes[i] # NULL
    BY <1>1, <1>2, <1>3, SessionAssumption DEF Rows
  <2> QED
    BY <1>2, <1>3, <2>1 DEF Present
<1>4. CASE s # 0
  <2>1. 1 \in DOMAIN p.apPipes /\ p.apPipes[1] = NULL
    BY <1>2, <1>4 DEF Rows
  <2>2. \A i \in DOMAIN p.apPipes : ~(i < 1)
    BY <1>2
  <2> QED
    BY <1>4, <2>1, <2>2 DEF Present
<1> QED
  BY <1>3, <1>4

LEMMA CardInterval ==
  ASSUME NEW n \in Nat
  PROVE  Cardinality(1 .. n) = n
<1>1. Cardinality(1 .. n) = IF 1 > n THEN 0 ELSE n - 1 + 1
  BY FS_Interval
<1> QED
  BY <1>1

(* The rows GetCreatePipe copies into the table it makes.                  *)
LEMMA KeptRows ==
  ASSUME NEW p \in Table, NEW s \in Nat, Rows(p, s)
  PROVE  /\ SubSeq(p.apPipes, 1, Cardinality(Present(p))) = Kept(p, s)
         /\ Kept(p, s) \in Seq(Addr \union {NULL})
<1> DEFINE S == p.apPipes
<1>1. S \in Seq(Addr \union {NULL}) /\ Len(S) \in Nat /\ <<>> \in Seq(Addr \union {NULL})
  BY EmptySeq DEF Table
<1>2. CASE s = 0
  <2>1. Cardinality(1 .. Len(S)) = Len(S)
    <3> HIDE DEF S
    <3> QED
      BY <1>1, CardInterval
  <2>2. Cardinality(Present(p)) = Len(S)
    BY <1>1, <1>2, <2>1, PresentRows
  <2>3. SubSeq(S, 1, Len(S)) = S
    BY <1>1, SubSeqFull
  <2> QED
    BY <1>1, <1>2, <2>2, <2>3 DEF Kept
<1>3. CASE s # 0
  <2>1. Cardinality(Present(p)) = 0
    BY <1>3, PresentRows, FS_EmptySet
  <2>2. SubSeq(S, 1, 0) = <<>>
    BY <1>1
  <2> QED
    BY <1>1, <1>3, <2>1, <2>2 DEF Kept
<1> QED
  BY <1>2, <1>3

LEMMA TableShortened ==
  ASSUME NEW p \in Table, NEW s \in Nat, Rows(p, s)
  PROVE  /\ Shortened(p) \in Table /\ Shortened(p).apPipes = Kept(p, s)
         /\ Shortened(p).alloc = p.alloc /\ Shortened(p).mem = p.mem
  BY KeptRows DEF Table, Shortened

(* The four outcomes are all.                                              *)
LEMMA PipeOutcome ==
  ASSUME NEW p \in Table, NEW s \in Nat, Rows(p, s), NEW ep \in EP,
         NEW type \in Kind, NEW o \in GetCreatePipe(p, ep, type)
  PROVE  Found(p, o, ep, type) \/ NoMemory(p, o, s) \/ Spoilt(p, o, s) \/ Made(p, o, ep, type, s)
<1> DEFINE kept == Shortened(p)
           failed == Fault(Shortened(p))
<1>1. p.alloc \subseteq Addr /\ Len(p.apPipes) \in Nat
  BY DEF Table
<1>2. kept \in Table /\ kept.apPipes = Kept(p, s) /\ kept.alloc = p.alloc /\ kept.mem = p.mem
  BY TableShortened
<1>3. failed \in Table /\ failed.apPipes = Kept(p, s) /\ failed.alloc = p.alloc /\ failed.mem = p.mem
  BY <1>2, TableFault
<1>4. CASE Matches(p, ep, type) # {}
  <2>1. PICK i \in Matches(p, ep, type) : o = Result(p.apPipes[i], TRUE, TRUE, p)
    BY <1>4 DEF GetCreatePipe
  <2>2. i \in Present(p) /\ Key(p, p.apPipes[i]) = <<ep, type>>
    BY DEF Matches, Key
  <2>3. i \in 1 .. Len(p.apPipes) /\ s = 0
    BY <2>2, PresentRows
  <2>4. p.apPipes[i] \in p.alloc
    BY <1>1, <2>3 DEF Rows
  <2> QED
    BY <2>1, <2>2, <2>4 DEF Found, Result
<1>5. CASE Matches(p, ep, type) = {}
  <2>1. \/ o \in {Result(NULL, FALSE, FALSE, Fault(p)), Result(NULL, FALSE, FALSE, failed)}
        \/ \E a \in Free(p) : o = Result(a, FALSE, FALSE, failed)
        \/ \E a \in Free(p) : o = Result(a, FALSE, TRUE, Filled(failed, a, ep, type, FALSE))
        \/ \E a \in Free(p) : o = Result(a, TRUE, TRUE, Added(Filled(kept, a, ep, type, TRUE), a))
    BY <1>5 DEF GetCreatePipe
  <2> HIDE DEF kept, failed
  <2>2. \A a \in Free(p) : a \in Addr \ p.alloc
    BY DEF Free
  <2>3. CASE o \in {Result(NULL, FALSE, FALSE, Fault(p)), Result(NULL, FALSE, FALSE, failed)}
    BY <1>3, <2>3, TableFault DEF NoMemory, Result
  <2>4. ASSUME NEW a \in Free(p), o = Result(a, FALSE, FALSE, failed)
        PROVE  Spoilt(p, o, s)
    BY <1>1, <1>3, <2>2, <2>4 DEF Spoilt, Same, Result
  <2>5. ASSUME NEW a \in Free(p), o = Result(a, FALSE, TRUE, Filled(failed, a, ep, type, FALSE))
        PROVE  Spoilt(p, o, s)
    <3> DEFINE t == Filled(failed, a, ep, type, FALSE)
    <3>1. /\ t \in Table /\ t.apPipes = failed.apPipes /\ t.alloc = failed.alloc
          /\ \A b \in Addr : b # a => t.mem[b] = failed.mem[b]
      <4> DEFINE x == [Blank EXCEPT !.iEP = ep, !.iType = type, !.pEvent = FALSE]
      <4>1. x \in Record
        BY DEF Record, Blank, EP, Kind
      <4>2. t = [failed EXCEPT !.mem[a] = x]
        BY DEF Filled
      <4> HIDE DEF t, x
      <4> QED
        BY <1>3, <2>2, <4>1, <4>2 DEF Table
    <3> QED
      BY <1>1, <1>3, <2>2, <2>5, <3>1 DEF Spoilt, Same, Result
  <2>6. ASSUME NEW a \in Free(p), o = Result(a, TRUE, TRUE, Added(Filled(kept, a, ep, type, TRUE), a))
        PROVE  Made(p, o, ep, type, s)
    <3> DEFINE t == Filled(kept, a, ep, type, TRUE)
    <3>1. /\ t \in Table /\ t.apPipes = kept.apPipes /\ t.alloc = kept.alloc
          /\ Key(t, a) = <<ep, type>> /\ t.mem[a].pEvent /\ ~t.mem[a].raised
          /\ \A b \in Addr : b # a => t.mem[b] = kept.mem[b]
      <4> DEFINE x == [Blank EXCEPT !.iEP = ep, !.iType = type, !.pEvent = TRUE]
      <4>1. x \in Record /\ x.iEP = ep /\ x.iType = type /\ x.pEvent /\ ~x.raised
        BY DEF Record, Blank, EP, Kind
      <4>2. t = [kept EXCEPT !.mem[a] = x]
        BY DEF Filled
      <4> HIDE DEF t, x
      <4> QED
        BY <1>2, <2>2, <4>1, <4>2 DEF Table, Key
    <3> HIDE DEF t
    <3>2. /\ Added(t, a) \in Table /\ Added(t, a).apPipes = Append(t.apPipes, a)
          /\ Added(t, a).alloc = t.alloc \union {a} /\ Added(t, a).mem = t.mem
      BY <2>2, <3>1, TableAdded
    <3>3. s = 0 => \A b \in p.alloc : Key(p, b) # <<ep, type>>
      BY <1>1, <1>5, PresentRows DEF Matches, Rows, Key
    <3>4. o.pipes = Added(t, a) /\ o.endp = a /\ o.live /\ o.open
      BY <2>6 DEF Result, t
    <3> QED
      BY <1>1, <1>2, <2>2, <3>1, <3>2, <3>3, <3>4 DEF Made, Same, Key
  <2> QED
    BY <2>1, <2>3, <2>4, <2>5, <2>6
<1> QED
  BY <1>4, <1>5

LEMMA PipeTypes ==
  ASSUME NEW p \in Table, NEW s \in Nat, Rows(p, s), NEW ep \in EP, NEW type \in Kind,
         NEW o \in GetCreatePipe(p, ep, type)
  PROVE  /\ o.pipes \in Table /\ o.endp \in Addr \union {NULL}
         /\ o.open => o.endp \in Addr
         /\ o.live => o.open /\ o.endp \in o.pipes.alloc
<1>1. p.alloc \subseteq Addr
  BY DEF Table
<1>2. CASE Found(p, o, ep, type)
  BY <1>1, <1>2 DEF Found
<1>3. CASE NoMemory(p, o, s)
  BY <1>3 DEF NoMemory
<1>4. CASE Spoilt(p, o, s)
  BY <1>4 DEF Spoilt
<1>5. CASE Made(p, o, ep, type, s)
  BY <1>5 DEF Made
<1> QED
  BY <1>2, <1>3, <1>4, <1>5, PipeOutcome

(* While the table is whole, or if it is left alone, GetCreatePipe keeps   *)
(* its records and adds at most the one it returns.                        *)
Grown(p, o, ep, type) ==
    /\ p.alloc \subseteq o.pipes.alloc /\ Same(p, o)
    /\ \A a \in o.pipes.alloc : a \notin p.alloc => ~o.pipes.mem[a].raised
    /\ o.live => o.endp \in o.pipes.alloc /\ Key(o.pipes, o.endp) = <<ep, type>>

LEMMA PipeGrows ==
  ASSUME NEW p \in Table, NEW s \in Nat, Rows(p, s), NEW ep \in EP, NEW type \in Kind,
         NEW o \in GetCreatePipe(p, ep, type), s = 0 \/ o.pipes.apPipes = p.apPipes
  PROVE  Rows(o.pipes, s) /\ Grown(p, o, ep, type)
<1>1. /\ p.alloc \subseteq Addr /\ p.apPipes \in Seq(Addr \union {NULL})
      /\ Len(p.apPipes) \in Nat /\ p.mem \in [Addr -> Record]
  BY DEF Table
<1>2. CASE Found(p, o, ep, type)
  BY <1>2 DEF Found, Grown, Same
<1>3. CASE NoMemory(p, o, s)
  <2>1. o.pipes.apPipes = p.apPipes /\ o.pipes.alloc = p.alloc /\ o.pipes.mem = p.mem /\ ~o.live
    BY <1>3 DEF NoMemory, Kept
  <2> QED
    BY <2>1 DEF Rows, Grown, Same, Key
<1>4. CASE Spoilt(p, o, s)
  <2>1. s = 0
    <3> SUFFICES ASSUME s # 0 PROVE FALSE
      OBVIOUS
    <3>1. p.apPipes = <<>>
      BY <1>4 DEF Spoilt, Kept
    <3> QED
      BY <3>1 DEF Rows
  <2>2. o.pipes.apPipes = p.apPipes /\ o.pipes.alloc = p.alloc /\ Same(p, o) /\ ~o.live
    BY <1>4, <2>1 DEF Spoilt, Kept
  <2>3. \A a \in p.alloc : Key(o.pipes, a) = Key(p, a) /\ o.pipes.mem[a] = p.mem[a]
    BY <2>2 DEF Same, Key
  <2>4. \A a \in o.pipes.alloc : o.pipes.mem[a].pEvent
    BY <2>2, <2>3 DEF Rows
  <2>5. \A a, b \in o.pipes.alloc : Key(o.pipes, a) = Key(o.pipes, b) => a = b
    BY <2>2, <2>3 DEF Rows
  <2> QED
    BY <2>1, <2>2, <2>4, <2>5 DEF Rows, Grown
<1>5. CASE Made(p, o, ep, type, s)
  <2>1. s = 0
    <3> SUFFICES ASSUME s # 0 PROVE FALSE
      OBVIOUS
    <3>1. p.apPipes = Append(<<>>, o.endp)
      BY <1>5 DEF Made, Kept
    <3>2. p.apPipes[1] = o.endp
      BY <3>1
    <3>3. p.apPipes[1] = NULL
      BY <1>1 DEF Rows
    <3> QED
      BY <1>5, <3>2, <3>3, SessionAssumption DEF Made
  <2> DEFINE n == Len(p.apPipes)
             e == o.endp
             S == o.pipes.apPipes
  <2>2. /\ e \in Addr \ p.alloc /\ o.pipes.alloc = p.alloc \union {e} /\ S = Append(p.apPipes, e)
        /\ Key(o.pipes, e) = <<ep, type>> /\ o.pipes.mem[e].pEvent /\ ~o.pipes.mem[e].raised
        /\ Same(p, o) /\ \A a \in p.alloc : Key(p, a) # <<ep, type>>
    BY <1>5, <2>1 DEF Made, Kept
  <2>3. \A a \in p.alloc : Key(o.pipes, a) = Key(p, a) /\ o.pipes.mem[a] = p.mem[a]
    BY <2>2 DEF Same, Key
  <2>4. Len(S) = n + 1 /\ S[n + 1] = e /\ \A i \in 1 .. n : S[i] = p.apPipes[i]
    BY <1>1, <2>2
  <2> HIDE DEF n, S, e
  <2>5. /\ \A i \in 1 .. n : p.apPipes[i] \in p.alloc
        /\ \A i, j \in 1 .. n : p.apPipes[i] = p.apPipes[j] => i = j
        /\ \A a \in p.alloc : \E i \in 1 .. n : p.apPipes[i] = a
        /\ \A a \in p.alloc : p.mem[a].pEvent
        /\ \A a, b \in p.alloc : Key(p, a) = Key(p, b) => a = b
        /\ n \in Nat
    BY <1>1, <2>1 DEF Rows, n
  <2>6. \A i \in 1 .. n + 1 : S[i] \in o.pipes.alloc
    BY <2>2, <2>4, <2>5
  <2>7. \A i, j \in 1 .. n + 1 : S[i] = S[j] => i = j
    BY <2>2, <2>4, <2>5
  <2>8. \A a \in o.pipes.alloc : \E i \in 1 .. n + 1 : S[i] = a
    BY <2>2, <2>4, <2>5
  <2>9. \A a \in o.pipes.alloc : o.pipes.mem[a].pEvent
    BY <2>2, <2>3, <2>5
  <2>10. \A a, b \in o.pipes.alloc : Key(o.pipes, a) = Key(o.pipes, b) => a = b
    BY <2>2, <2>3, <2>5
  <2>11. Rows(o.pipes, s)
    BY <2>1, <2>4, <2>5, <2>6, <2>7, <2>8, <2>9, <2>10 DEF Rows, S
  <2>12. Grown(p, o, ep, type)
    BY <2>2 DEF Grown, e
  <2> QED
    BY <2>11, <2>12
<1> QED
  BY <1>2, <1>3, <1>4, <1>5, PipeOutcome

(* Past the first slot of a close GetCreatePipe leaves the table alone or  *)
(* puts another in its place that has none of its records.                 *)
LEMMA PipeLoses ==
  ASSUME NEW p \in Table, NEW s \in Nat, Rows(p, s), s # 0, NEW ep \in EP, NEW type \in Kind,
         NEW o \in GetCreatePipe(p, ep, type), o.pipes.apPipes # p.apPipes
  PROVE  \A a \in p.alloc : /\ a \in o.pipes.alloc
                            /\ \A i \in DOMAIN o.pipes.apPipes : o.pipes.apPipes[i] # a
<1>1. CASE Found(p, o, ep, type)
  BY <1>1 DEF Found
<1>2. CASE NoMemory(p, o, s)
  <2>1. o.pipes.apPipes = <<>> /\ o.pipes.alloc = p.alloc
    BY <1>2 DEF NoMemory, Kept
  <2> QED
    BY <2>1
<1>3. CASE Spoilt(p, o, s)
  <2>1. o.pipes.apPipes = <<>> /\ o.pipes.alloc = p.alloc
    BY <1>3 DEF Spoilt, Kept
  <2> QED
    BY <2>1
<1>4. CASE Made(p, o, ep, type, s)
  <2>1. /\ o.pipes.apPipes = Append(<<>>, o.endp) /\ o.pipes.alloc = p.alloc \union {o.endp}
        /\ o.endp \in Addr \ p.alloc
    BY <1>4 DEF Made, Kept
  <2> DEFINE e == o.endp
  <2>2. Append(<<>>, e) = <<e>>
    OBVIOUS
  <2>3. \A i \in DOMAIN <<e>> : <<e>>[i] = e
    OBVIOUS
  <2> QED
    BY <2>1, <2>2, <2>3
<1> QED
  BY <1>1, <1>2, <1>3, <1>4, PipeOutcome

-----------------------------------------------------------------------------
(* What a call does to the records of the table p: one of them, e, may     *)
(* have its count or its event cleared.                                    *)
Touched(p, r, e) ==
    /\ r.apPipes = p.apPipes /\ r.alloc = p.alloc
    /\ \A a \in Addr : /\ Key(r, a) = Key(p, a)
                       /\ r.mem[a].pEvent <=> p.mem[a].pEvent
                       /\ r.mem[a].raised => p.mem[a].raised
                       /\ a # e => r.mem[a] = p.mem[a]

LEMMA SubmitPipes ==
  ASSUME NEW c, NEW o, NEW queue, NEW ok, NEW bad, Submit(c, o, queue, ok, bad),
         o.pipes \in Table, o.live => o.endp \in Addr
  PROVE  pipes' \in Table /\ Touched(o.pipes, pipes', o.endp)
<1> DEFINE p == IF ~ok /\ o.open /\ plugged THEN Fault(o.pipes) ELSE o.pipes
           e == o.endp
           taken == ok /\ c.type = "BULK" /\ ~c.wait
           x == Used(p.mem[e], taken)
<1>1. /\ p \in Table /\ p.apPipes = o.pipes.apPipes /\ p.alloc = o.pipes.alloc
      /\ p.mem = o.pipes.mem /\ p.mem \in [Addr -> Record]
  BY TableFault DEF Table
<1>2. pipes' = IF o.live THEN [p EXCEPT !.mem[e] = Used(p.mem[e], taken)] ELSE p
  BY DEF Submit
<1> HIDE DEF p
<1>3. CASE o.live
  <2>1. p.mem[e] \in Record /\ e \in Addr
    BY <1>1, <1>3
  <2> HIDE DEF e
  <2>2. /\ x \in Record /\ x.iEP = p.mem[e].iEP /\ x.iType = p.mem[e].iType
        /\ (x.pEvent <=> p.mem[e].pEvent) /\ (x.raised => p.mem[e].raised)
    BY <2>1 DEF Record, Used
  <2>3. pipes' = [p EXCEPT !.mem[e] = x]
    BY <1>2, <1>3
  <2> HIDE DEF x
  <2>4. /\ pipes' \in Table /\ pipes'.apPipes = p.apPipes /\ pipes'.alloc = p.alloc
        /\ pipes'.mem = [p.mem EXCEPT ![e] = x]
    BY <1>1, <2>1, <2>2, <2>3 DEF Table
  <2>5. \A a \in Addr : /\ pipes'.mem[a].iEP = p.mem[a].iEP
                        /\ pipes'.mem[a].iType = p.mem[a].iType
                        /\ pipes'.mem[a].pEvent <=> p.mem[a].pEvent
                        /\ pipes'.mem[a].raised => p.mem[a].raised
                        /\ a # e => pipes'.mem[a] = p.mem[a]
    BY <1>1, <2>1, <2>2, <2>4
  <2> QED
    BY <1>1, <2>4, <2>5 DEF Touched, Key, e
<1>4. CASE ~o.live
  BY <1>1, <1>2, <1>4 DEF Touched, Key
<1> QED
  BY <1>3, <1>4

LEMMA TouchedRows ==
  ASSUME NEW p \in Table, NEW r \in Table, NEW e, NEW s \in Nat, Touched(p, r, e), Rows(p, s)
  PROVE  Rows(r, s)
<1>1. p.alloc \subseteq Addr /\ r.alloc = p.alloc /\ r.apPipes = p.apPipes
  BY DEF Table, Touched
<1>2. \A a \in r.alloc : r.mem[a].pEvent
  BY <1>1 DEF Rows, Touched
<1>3. \A a, b \in r.alloc : Key(r, a) = Key(r, b) => a = b
  BY <1>1 DEF Rows, Touched
<1> QED
  BY <1>1, <1>2, <1>3 DEF Rows

(* The queues of the stack: what is left when the oldest transfer of a     *)
(* pipe is completed, and when one is submitted.                           *)
Queues == [Pipe -> Seq(Pending)]

Pop(T, q) == [T EXCEPT ![q] = Tail(@)]
Push(T, q, x) == [T EXCEPT ![q] = Append(@, x)]

LEMMA Popped ==
  ASSUME NEW T \in Queues, NEW q \in Pipe, T[q] # <<>>
  PROVE  /\ Pop(T, q) \in Queues
         /\ Head(T[q]) = T[q][1] /\ Head(T[q]) \in Pending /\ 1 \in DOMAIN T[q]
         /\ \A r \in Pipe : r # q => Pop(T, q)[r] = T[r]
         /\ \A k \in DOMAIN Pop(T, q)[q] : /\ k + 1 \in DOMAIN T[q] /\ k \in Nat \ {0}
                                           /\ Pop(T, q)[q][k] = T[q][k + 1]
<1>1. T[q] \in Seq(Pending) /\ Tail(T[q]) \in Seq(Pending)
  BY DEF Queues
<1>2. Len(T[q]) \in Nat \ {0} /\ Len(Tail(T[q])) = Len(T[q]) - 1
  BY <1>1
<1>3. Pop(T, q)[q] = Tail(T[q])
  BY DEF Pop, Queues
<1>4. Pop(T, q) \in Queues /\ \A r \in Pipe : r # q => Pop(T, q)[r] = T[r]
  BY <1>1 DEF Pop, Queues
<1>5. Head(T[q]) = T[q][1] /\ Head(T[q]) \in Pending /\ 1 \in DOMAIN T[q]
  BY <1>1, <1>2
<1>6. ASSUME NEW k \in DOMAIN Tail(T[q])
      PROVE  k + 1 \in DOMAIN T[q] /\ k \in Nat \ {0} /\ Tail(T[q])[k] = T[q][k + 1]
  BY <1>1, <1>2
<1> QED
  BY <1>3, <1>4, <1>5, <1>6

LEMMA Pushed ==
  ASSUME NEW T \in Queues, NEW q \in Pipe, NEW x \in Pending
  PROVE  /\ Push(T, q, x) \in Queues
         /\ \A r \in Pipe : r # q => Push(T, q, x)[r] = T[r]
         /\ \A k \in DOMAIN Push(T, q, x)[q] :
               \/ k \in DOMAIN T[q] /\ Push(T, q, x)[q][k] = T[q][k]
               \/ k = Len(T[q]) + 1 /\ Push(T, q, x)[q][k] = x
<1>1. T[q] \in Seq(Pending) /\ Append(T[q], x) \in Seq(Pending)
  BY DEF Queues
<1>2. Push(T, q, x)[q] = Append(T[q], x)
  BY DEF Push, Queues
<1>3. Push(T, q, x) \in Queues /\ \A r \in Pipe : r # q => Push(T, q, x)[r] = T[r]
  BY <1>1 DEF Push, Queues
<1>4. ASSUME NEW k \in DOMAIN Append(T[q], x)
      PROVE  \/ k \in DOMAIN T[q] /\ Append(T[q], x)[k] = T[q][k]
             \/ k = Len(T[q]) + 1 /\ Append(T[q], x)[k] = x
  BY <1>1
<1> QED
  BY <1>2, <1>3, <1>4

(* A completed transfer takes nothing from what holds of the others.       *)
LEMMA PopKeeps ==
  ASSUME NEW T \in Queues, NEW q \in Pipe, T[q] # <<>>
  PROVE  /\ \A p : Live(T, p) => Live(Pop(T, q), p)
         /\ Roles(T) => Roles(Pop(T, q))
         /\ Receivers(T) => Receivers(Pop(T, q))
         /\ NoReceiver(T) => NoReceiver(Pop(T, q))
         /\ Receivers(T) /\ Receiver(Head(T[q])) => NoReceiver(Pop(T, q))
         /\ OneAsked(T) => OneAsked(Pop(T, q))
         /\ NoneAsked(T) => NoneAsked(Pop(T, q))
         /\ OneAsked(T) /\ Asked(Head(T[q])) => NoneAsked(Pop(T, q))
         /\ \A e : AskedOf(T, e) => AskedOf(Pop(T, q), e)
<1> DEFINE U == Pop(T, q)
           At(r, k) == IF r = q THEN k + 1 ELSE k
<1>1. \A r \in Pipe : \A k \in DOMAIN U[r] : At(r, k) \in DOMAIN T[r] /\ U[r][k] = T[r][At(r, k)]
  BY Popped
<1>2. \A k \in DOMAIN U[q] : k \in Nat \ {0} /\ At(q, k) # 1
  BY Popped
<1>3. \A r \in Pipe : \A j, k \in DOMAIN U[r] : At(r, j) = At(r, k) => j = k
  BY <1>2
<1>4. Head(T[q]) = T[q][1] /\ 1 \in DOMAIN T[q]
  BY Popped
<1> HIDE DEF U, At
<1>5. \A p : Live(T, p) => Live(U, p)
  BY <1>1 DEF Live
<1>6. Roles(T) => Roles(U)
  BY <1>1 DEF Roles
<1>7. Receivers(T) => Receivers(U)
  BY <1>1, <1>3 DEF Receivers
<1>8. NoReceiver(T) => NoReceiver(U)
  BY <1>1 DEF NoReceiver
<1>9. Receivers(T) /\ Receiver(Head(T[q])) => NoReceiver(U)
  BY <1>1, <1>2, <1>4 DEF NoReceiver, Receivers
<1>10. OneAsked(T) => OneAsked(U)
  BY <1>1, <1>3 DEF OneAsked
<1>11. NoneAsked(T) => NoneAsked(U)
  BY <1>1 DEF NoneAsked
<1>12. OneAsked(T) /\ Asked(Head(T[q])) => NoneAsked(U)
  BY <1>1, <1>2, <1>4 DEF NoneAsked, OneAsked
<1>13. \A e : AskedOf(T, e) => AskedOf(U, e)
  BY <1>1 DEF AskedOf
<1> QED
  BY <1>5, <1>6, <1>7, <1>8, <1>9, <1>10, <1>11, <1>12, <1>13 DEF U

(* What a submitted transfer x must be, to be put on pipe q.               *)
LEMMA PushKeeps ==
  ASSUME NEW T \in Queues, NEW q \in Pipe, NEW x \in Pending
  PROVE  /\ \A p : Live(T, p) /\ x.rec \in p.alloc /\ Key(p, x.rec) = q => Live(Push(T, q, x), p)
         /\ Roles(T) /\ (x.cb \in Waited \/ (Serves(x.cb, q) /\ (pc = "close" \/ Uart)))
               => Roles(Push(T, q, x))
         /\ Receivers(T) /\ (Receiver(x) => ~x.stale /\ NoReceiver(T)) => Receivers(Push(T, q, x))
         /\ NoReceiver(T) /\ ~Receiver(x) => NoReceiver(Push(T, q, x))
         /\ OneAsked(T) /\ (Asked(x) => NoneAsked(T)) => OneAsked(Push(T, q, x))
         /\ NoneAsked(T) /\ ~Asked(x) => NoneAsked(Push(T, q, x))
         /\ \A e : AskedOf(T, e) /\ (Asked(x) => x.rec = e) => AskedOf(Push(T, q, x), e)
<1> DEFINE U == Push(T, q, x)
<1>1. \A r \in Pipe : \A k \in DOMAIN U[r] :
         \/ k \in DOMAIN T[r] /\ U[r][k] = T[r][k]
         \/ r = q /\ k = Len(T[q]) + 1 /\ U[r][k] = x
  BY Pushed
<1> HIDE DEF U
<1>2. \A p : Live(T, p) /\ x.rec \in p.alloc /\ Key(p, x.rec) = q => Live(U, p)
  BY <1>1 DEF Live
<1>3. Roles(T) /\ (x.cb \in Waited \/ (Serves(x.cb, q) /\ (pc = "close" \/ Uart))) => Roles(U)
  BY <1>1 DEF Roles
<1>4. Receivers(T) /\ (Receiver(x) => ~x.stale /\ NoReceiver(T)) => Receivers(U)
  BY <1>1 DEF Receivers, NoReceiver
<1>5. NoReceiver(T) /\ ~Receiver(x) => NoReceiver(U)
  BY <1>1 DEF NoReceiver
<1>6. OneAsked(T) /\ (Asked(x) => NoneAsked(T)) => OneAsked(U)
  BY <1>1 DEF OneAsked, NoneAsked
<1>7. NoneAsked(T) /\ ~Asked(x) => NoneAsked(U)
  BY <1>1 DEF NoneAsked
<1>8. \A e : AskedOf(T, e) /\ (Asked(x) => x.rec = e) => AskedOf(U, e)
  BY <1>1 DEF AskedOf
<1> QED
  BY <1>2, <1>3, <1>4, <1>5, <1>6, <1>7, <1>8 DEF U

-----------------------------------------------------------------------------
(* usb_control_msg and usb_bulk_msg, whoever calls them.                   *)
Sent(c, o, T, ok) == IF ok THEN Push(T, <<c.ep, c.type>>, Transfer(c, o)) ELSE T

LEMMA CallPipe ==
  ASSUME NEW c \in Call
  PROVE  <<c.ep, c.type>> \in Pipe /\ c.ep \in EP /\ c.type \in Kind /\ c.cb \in Handler
  BY DEF Call, Pipe, EP, Kind

LEMMA SubmitTypes ==
  ASSUME NEW p \in Table, NEW s \in Nat, Rows(p, s), NEW T \in Queues, NEW c \in Call,
         NEW o \in GetCreatePipe(p, c.ep, c.type), NEW ok, NEW bad, Submit(c, o, T, ok, bad)
  PROVE  /\ pipes' \in Table /\ transfers' \in Queues
         /\ ok => Transfer(c, o) \in Pending
         /\ transfers' = Sent(c, o, T, ok)
<1>1. /\ o.pipes \in Table /\ o.endp \in Addr \union {NULL} /\ (o.open => o.endp \in Addr)
      /\ (o.live => o.open)
  BY CallPipe, PipeTypes
<1>2. pipes' \in Table
  BY <1>1, SubmitPipes
<1>3. ok => Transfer(c, o) \in Pending
  BY <1>1, CallPipe DEF Submit, Transfer, Pending
<1>4. transfers' = Sent(c, o, T, ok)
  BY DEF Submit, Sent, Push
<1>5. transfers' \in Queues
  BY <1>3, <1>4, CallPipe, Pushed DEF Sent
<1> QED
  BY <1>2, <1>3, <1>4, <1>5

(* When nothing bad happened, the table has what it had and the call has   *)
(* its record.                                                             *)
LEMMA SubmitKeeps ==
  ASSUME NEW p \in Table, NEW s \in Nat, Rows(p, s), NEW T \in Queues, NEW c \in Call,
         NEW o \in GetCreatePipe(p, c.ep, c.type), NEW ok, NEW bad, Submit(c, o, T, ok, bad),
         s = 0 \/ o.pipes.apPipes = p.apPipes, ~badAccess', Live(T, p)
  PROVE  /\ Rows(pipes', s) /\ Live(transfers', pipes')
         /\ ok => o.live
         /\ o.live => o.endp \in pipes'.alloc /\ Key(pipes', o.endp) = <<c.ep, c.type>>
         /\ p.alloc \subseteq pipes'.alloc
         /\ \A a \in p.alloc : /\ Key(pipes', a) = Key(p, a)
                               /\ a # o.endp => pipes'.mem[a] = p.mem[a]
         /\ \A a \in pipes'.alloc : pipes'.mem[a].raised => a \in p.alloc /\ p.mem[a].raised
<1>1. /\ o.pipes \in Table /\ (o.open => o.endp \in Addr)
      /\ (o.live => o.open) /\ p.alloc \subseteq Addr
  BY CallPipe, PipeTypes DEF Table
<1>2. (o.endp # NULL => o.live) /\ (ok => o.open)
  BY DEF Submit
<1>3. ok => o.live
  BY <1>1, <1>2, SessionAssumption
<1>5. Rows(o.pipes, s) /\ Grown(p, o, c.ep, c.type)
  BY CallPipe, PipeGrows
<1>6. pipes' \in Table /\ Touched(o.pipes, pipes', o.endp) /\ o.pipes.alloc \subseteq Addr
  BY <1>1, SubmitPipes DEF Table
<1>7. Rows(pipes', s)
  BY <1>1, <1>5, <1>6, TouchedRows
<1>8. o.live => o.endp \in pipes'.alloc /\ Key(pipes', o.endp) = <<c.ep, c.type>>
  BY <1>1, <1>5, <1>6 DEF Grown, Touched
<1>9. p.alloc \subseteq pipes'.alloc
  BY <1>5, <1>6 DEF Grown, Touched
<1>10. ASSUME NEW a \in p.alloc
       PROVE  /\ Key(pipes', a) = Key(p, a)
              /\ a # o.endp => pipes'.mem[a] = p.mem[a]
  <2>1. o.pipes.mem[a] = p.mem[a] /\ a \in Addr
    BY <1>1, <1>5 DEF Grown, Same
  <2>2. Key(o.pipes, a) = Key(p, a)
    BY <2>1 DEF Key
  <2> QED
    BY <1>6, <2>1, <2>2 DEF Touched
<1>11. ASSUME NEW a \in pipes'.alloc, pipes'.mem[a].raised
       PROVE  a \in p.alloc /\ p.mem[a].raised
  BY <1>1, <1>5, <1>6, <1>11 DEF Grown, Same, Touched
<1>12. Live(T, pipes')
  BY <1>9, <1>10 DEF Live
<1>13. Live(transfers', pipes')
  <2>1. CASE ok
    <3>1. Transfer(c, o) \in Pending /\ transfers' = Push(T, <<c.ep, c.type>>, Transfer(c, o))
      BY <2>1, SubmitTypes DEF Sent
    <3>2. Transfer(c, o).rec = o.endp
      BY DEF Transfer
    <3> QED
      BY <1>3, <1>8, <1>12, <2>1, <3>1, <3>2, CallPipe, PushKeeps
  <2>2. CASE ~ok
    <3>1. transfers' = T
      BY <2>2 DEF Submit
    <3> QED
      BY <1>12, <3>1
  <2> QED
    BY <2>1, <2>2
<1> QED
  BY <1>3, <1>7, <1>8, <1>9, <1>10, <1>11, <1>13

-----------------------------------------------------------------------------
(* The calls of OPEN_UART: the last one starts the receiver.               *)
Opening(c) == /\ c \in Call
              /\ c.wait => /\ c.cb \in Waited /\ c.type = "CTRL"
                           /\ chip = "CP210x" => c.ep = "0"
              /\ ~c.wait => Serves(c.cb, <<c.ep, c.type>>)

LEMMA CallTypes ==
  /\ \A ep \in EP, cb \in Handler, w \in BOOLEAN : Ctrl(ep, cb, w) \in Call /\ Bulk(ep, cb, w) \in Call
  /\ MakeContext \notin Call
  BY DEF Ctrl, Bulk, Call, MakeContext

LEMMA StartCalls ==
  ASSUME NEW S \in Seq(Call \union {MakeContext}), NEW c \in Call
  PROVE  LET calls == S \o <<c>>
         IN  /\ calls \in Seq(Call \union {MakeContext}) /\ Len(calls) = Len(S) + 1 /\ calls # <<>>
             /\ \A i \in DOMAIN calls :
                   \/ i \in DOMAIN S /\ calls[i] = S[i]
                   \/ i = Len(calls) /\ calls[i] = c
<1>1. <<c>> \in Seq(Call \union {MakeContext}) /\ Len(<<c>>) = 1 /\ <<c>>[1] = c /\ Len(S) \in Nat
  OBVIOUS
<1> QED
  BY <1>1, ConcatProperties

LEMMA OpenCallsAre ==
  ASSUME chip \in Chip
  PROVE  /\ OpenCalls \in Seq(Call \union {MakeContext}) /\ OpenCalls # <<>>
         /\ \A i \in DOMAIN OpenCalls :
               /\ OpenCalls[i] = MakeContext \/ Opening(OpenCalls[i])
               /\ OpenCalls[i].cb = "Callback_BulkInp" => i = Len(OpenCalls)
<1> DEFINE wait0 == Ctrl("0", "Callback_Ctrl", TRUE)
           wait80 == Ctrl("80", "Callback_Ctrl", TRUE)
           poll == Ctrl("80", "Callback_Intr", FALSE)
           intr == Bulk("intr", "Callback_Intr", FALSE)
           recv == Bulk("in", "Callback_BulkInp", FALSE)
           Begins(S) == /\ S \in Seq(Call \union {MakeContext})
                        /\ \A i \in DOMAIN S :
                              /\ S[i] = MakeContext \/ Opening(S[i])
                              /\ S[i].cb # "Callback_BulkInp"
<1>1. wait0 \in Call /\ wait80 \in Call /\ poll \in Call /\ intr \in Call /\ recv \in Call
  BY CallTypes DEF EP, Handler, Waited
<1>2. /\ Opening(wait0) /\ Opening(recv) /\ wait0.cb # "Callback_BulkInp"
      /\ MakeContext.cb # "Callback_BulkInp"
      /\ wait80.cb # "Callback_BulkInp" /\ poll.cb # "Callback_BulkInp" /\ intr.cb # "Callback_BulkInp"
  BY <1>1 DEF Opening, Ctrl, Bulk, Waited, Serves, MakeContext
<1>3. chip # "CP210x" => Opening(wait80) /\ Opening(intr)
  BY <1>1 DEF Opening, Ctrl, Bulk, Waited, Serves
<1>4. chip = "CP210x" => Opening(poll)
  BY <1>1 DEF Opening, Ctrl, Bulk, Waited, Serves
<1> HIDE DEF wait0, wait80, poll, intr, recv
<1>5. \E S : Begins(S) /\ OpenCalls = S \o <<recv>>
  <2>1. CASE chip = "CP210x"
    <3>1. OpenCalls = <<wait0, MakeContext, poll>> \o <<recv>>
      BY <2>1 DEF OpenCalls, wait0, poll, recv
    <3>2. Begins(<<wait0, MakeContext, poll>>)
      BY <1>1, <1>2, <1>4, <2>1
    <3> QED
      BY <3>1, <3>2
  <2>2. CASE chip = "FTDI"
    <3>1. OpenCalls = <<wait0>> \o <<recv>>
      BY <2>2 DEF OpenCalls, wait0, recv
    <3>2. Begins(<<wait0>>)
      BY <1>1, <1>2
    <3> QED
      BY <3>1, <3>2
  <2>3. CASE chip = "PL2303"
    <3>1. OpenCalls = <<wait80, wait0, intr>> \o <<recv>>
      BY <2>3 DEF OpenCalls, wait0, wait80, intr, recv
    <3>2. Begins(<<wait80, wait0, intr>>)
      BY <1>1, <1>2, <1>3, <2>3
    <3> QED
      BY <3>1, <3>2
  <2>4. CASE chip = "CDC"
    <3>1. OpenCalls = <<wait80, intr>> \o <<recv>>
      BY <2>4 DEF OpenCalls, wait80, intr, recv
    <3>2. Begins(<<wait80, intr>>)
      BY <1>1, <1>2, <1>3, <2>4
    <3> QED
      BY <3>1, <3>2
  <2> QED
    BY <2>1, <2>2, <2>3, <2>4, ChipAssumption
<1>6. PICK S : Begins(S) /\ OpenCalls = S \o <<recv>>
  BY <1>5
<1>7. /\ OpenCalls \in Seq(Call \union {MakeContext}) /\ OpenCalls # <<>>
      /\ \A i \in DOMAIN OpenCalls :
            \/ i \in DOMAIN S /\ OpenCalls[i] = S[i]
            \/ i = Len(OpenCalls) /\ OpenCalls[i] = recv
  BY <1>1, <1>6, StartCalls
<1> QED
  BY <1>2, <1>6, <1>7

-----------------------------------------------------------------------------
LEMMA SessionInit == Init => SessionInv
<1> SUFFICES ASSUME Init PROVE SessionInv
  OBVIOUS
<1>1. pipes.apPipes = <<>> /\ pipes.alloc = {} /\ transfers = [q \in Pipe |-> <<>>] /\ todo = <<>>
  BY DEF Init
<1>2. pipes \in Table
  BY EmptySeq DEF Init, Table, Record, Blank
<1>3. Types
  <2>1. plugged \in BOOLEAN /\ context \in BOOLEAN
    BY Zenon DEF Init
  <2>2. transfers \in [Pipe -> Seq(Pending)] /\ todo \in Seq(Call \union {MakeContext})
    BY <1>1, EmptySeq
  <2> QED
    BY <1>2, <2>1, <2>2, SessionAssumption DEF Types, Init
<1>4. /\ \A q \in Pipe : transfers[q] = <<>> /\ DOMAIN transfers[q] = {}
      /\ DOMAIN todo = {} /\ Len(pipes.apPipes) = 0
  BY <1>1
<1>5. Rows(pipes, slot)
  BY <1>1, <1>4 DEF Rows, Init
<1>6. Flow
  BY <1>1, <1>4 DEF Flow, Init, Open
<1>7. Good
  BY <1>1, <1>3, <1>4, <1>5, <1>6
     DEF Good, Live, Roles, Plan, Receivers, Starting, OneAsked, NoneAsked, AskedOf,
         Answering, Raised, Init
<1>8. Program
  BY <1>1 DEF Program, Init
<1>9. Sound(pipes)
  <2>1. 0 \in 0 .. Len(pipes.apPipes) /\ Walk(pipes, 0)
    BY <1>4 DEF Walk
  <2>2. \E k \in 0 .. Len(pipes.apPipes) : Walk(pipes, k)
    BY <2>1
  <2>3. \A i : ~Row(pipes, i)
    BY <1>1 DEF Row
  <2> QED
    BY <2>2, <2>3 DEF Sound
<1> QED
  BY <1>3, <1>7, <1>8, <1>9 DEF SessionInv, General

(* A request that begins: the table and the transfers are as they were.    *)
LEMMA EnterKeeps ==
  ASSUME Types, Good, ~badAccess, pc = "idle", pc' \in {"idle", "call"},
         UNCHANGED <<chip, plugged, context, wBytes, pipes, transfers, slot, answer, badAccess>>,
         opens' \in 0 .. MaxOpen, iFlags' \subseteq {"PRESENCE", "BUSY", "UART"},
         "PRESENCE" \in iFlags', Open', (Uart' <=> Uart) \/ pipes.alloc = {},
         todo' \in Seq(Call \union {MakeContext}), pc' = "call" <=> todo' # <<>>,
         Plan', \A i \in DOMAIN todo' : todo'[i].cb = "Callback_BulkInp" =>
                   i = Len(todo') /\ NoReceiver(transfers)
  PROVE  Keeps
<1>1. Types /\ Good
  OBVIOUS
<1>2. Types'
  BY <1>1 DEF Types, answer
<1>3. Rows(pipes, slot)' /\ Live(transfers, pipes)'
  BY <1>1 DEF Good, Rows, Live, Key
<1>4. Roles(transfers)'
  BY <1>1 DEF Good, Roles, Live, Serves
<1>5. Receivers(transfers)' /\ OneAsked(transfers)' /\ Starting'
  BY <1>1 DEF Good, Receivers, Starting, OneAsked, NoReceiver, Asked, Receiver
<1>6. Answering'
  BY <1>1 DEF Good, Answering, NoneAsked, AskedOf, Asked, answer
<1>7. Raised(pipes)'
  BY <1>1 DEF Good, Raised, Key
<1>8. Flow'
  BY <1>1 DEF Good, Flow
<1> QED
  BY <1>2, <1>3, <1>4, <1>5, <1>6, <1>7, <1>8 DEF Keeps, Good

(* Requests that wait for their transfers.                                 *)
LEMMA WaitKeeps ==
  ASSUME Types, Good, ~badAccess, Open, "PRESENCE" \in iFlags, UNCHANGED <<device, wBytes>>,
         NEW c \in Call, c.wait, Planned(c),
         NEW S \in Seq(Call \union {MakeContext}), S # <<>>, \A i \in DOMAIN S : S[i] = c,
         Enter(S, "call")
  PROVE  Keeps
<1>1. UNCHANGED <<chip, plugged, iFlags, context, opens, wBytes>> /\ Types
  BY DEF device
<1>2. Plan'
  BY <1>1 DEF Plan, Planned, Enter, Serves, Uart
<1>3. c.cb # "Callback_BulkInp"
  BY DEF Planned, Waited
<1>4. opens' \in 0 .. MaxOpen /\ iFlags' \subseteq {"PRESENCE", "BUSY", "UART"} /\ (Uart' <=> Uart) /\ Open'
  BY <1>1 DEF Types, Uart, Open
<1> QED
  BY <1>1, <1>2, <1>3, <1>4, EnterKeeps DEF Enter

LEMMA RequestSteps ==
  ASSUME Types, Good, ~badAccess,
         \/ ProcCmd_OPEN_UART \/ ProcCmd_OPEN_RAW \/ ProcCmd_SET_STATUS_LINE \/ ProcCmd_SETUP_LINE
         \/ ProcCmd_CTRL_RAW \/ ProcCmd_BULK_RAW
  PROVE  Keeps
<1>1. Types /\ Good
  OBVIOUS
<1> DEFINE ctrl == Ctrl("0", "Callback_Ctrl", TRUE)
<1>2. ctrl \in Call /\ ctrl.wait /\ Planned(ctrl)
  <2>1. ctrl \in Call
    BY CallTypes DEF EP, Handler, Waited
  <2> QED
    BY <2>1 DEF Ctrl, Planned, Waited
<1> HIDE DEF ctrl
<1>3. CASE ProcCmd_OPEN_UART
  <2>1. SetBusy({"UART"}) /\ Enter(OpenCalls, "call") /\ pc = "idle" /\ ~Open
    BY <1>3 DEF ProcCmd_OPEN_UART, Enter, SetBusy
  <2>2. pipes.alloc = {}
    BY <1>1, <2>1 DEF Good, Flow
  <2>3. NoReceiver(transfers)
    BY <1>1, <2>2 DEF Good, Receivers, Live, NoReceiver
  <2>4. /\ iFlags' \subseteq {"PRESENCE", "BUSY", "UART"} /\ "PRESENCE" \in iFlags' /\ Open' /\ Uart'
        /\ opens' \in 0 .. MaxOpen
    BY <1>1, <2>1, SessionAssumption DEF SetBusy, Types, Open, Uart
  <2>5. /\ todo' = OpenCalls /\ OpenCalls \in Seq(Call \union {MakeContext}) /\ OpenCalls # <<>>
        /\ \A i \in DOMAIN OpenCalls :
              /\ OpenCalls[i] = MakeContext \/ Opening(OpenCalls[i])
              /\ OpenCalls[i].cb = "Callback_BulkInp" => i = Len(OpenCalls)
    BY <1>1, <2>1, OpenCallsAre DEF Enter, Types
  <2>6. Plan'
    BY <2>1, <2>4, <2>5 DEF Plan, Planned, Opening, Serves, SetBusy
  <2> QED
    BY <2>1, <2>2, <2>3, <2>4, <2>5, <2>6, EnterKeeps DEF Enter, SetBusy
<1>4. CASE ProcCmd_OPEN_RAW
  <2>1. SetBusy({}) /\ Enter(<<>>, "idle") /\ pc = "idle" /\ ~Open
    BY <1>4 DEF ProcCmd_OPEN_RAW, Enter, SetBusy
  <2>2. pipes.alloc = {}
    BY <1>1, <2>1 DEF Good, Flow
  <2>3. /\ iFlags' \subseteq {"PRESENCE", "BUSY", "UART"} /\ "PRESENCE" \in iFlags' /\ Open'
        /\ opens' \in 0 .. MaxOpen
    BY <1>1, <2>1, SessionAssumption DEF SetBusy, Types, Open
  <2>4. todo' = <<>> /\ todo' \in Seq(Call \union {MakeContext}) /\ DOMAIN todo' = {}
    BY <2>1, EmptySeq DEF Enter
  <2>5. Plan'
    BY <2>4 DEF Plan
  <2> QED
    BY <2>1, <2>2, <2>3, <2>4, <2>5, EnterKeeps DEF Enter, SetBusy
<1>5. CASE ProcCmd_SET_STATUS_LINE \/ ProcCmd_CTRL_RAW
  <2>1. /\ Open /\ "PRESENCE" \in iFlags /\ UNCHANGED <<device, wBytes>>
        /\ Enter(<<ctrl>>, "call")
    BY <1>5 DEF ProcCmd_SET_STATUS_LINE, ProcCmd_CTRL_RAW, ctrl
  <2>2. /\ <<ctrl>> \in Seq(Call \union {MakeContext}) /\ <<ctrl>> # <<>>
        /\ \A i \in DOMAIN <<ctrl>> : <<ctrl>>[i] = ctrl
    BY <1>2
  <2> QED
    BY <1>2, <2>1, <2>2, WaitKeeps
<1>6. CASE ProcCmd_SETUP_LINE
  <2>1. PICK n \in {1, 2} : Enter([i \in 1 .. n |-> ctrl], "call")
    BY <1>6 DEF ProcCmd_SETUP_LINE, ctrl
  <2>2. Open /\ "PRESENCE" \in iFlags /\ UNCHANGED <<device, wBytes>>
    BY <1>6 DEF ProcCmd_SETUP_LINE
  <2> DEFINE S == [i \in 1 .. n |-> ctrl]
  <2>3. S \in Seq(Call \union {MakeContext}) /\ S # <<>> /\ \A i \in DOMAIN S : S[i] = ctrl
    BY <1>2
  <2> HIDE DEF S
  <2>4. Enter(S, "call")
    BY <2>1 DEF S
  <2> QED
    BY <1>2, <2>2, <2>3, <2>4, WaitKeeps
<1>7. CASE ProcCmd_BULK_RAW
  <2>1. PICK ep \in {"in", "out"} : Enter(<<Bulk(ep, "Callback_Bulk_Msg", TRUE)>>, "call")
    BY <1>7 DEF ProcCmd_BULK_RAW
  <2>2. Open /\ ~Uart /\ "PRESENCE" \in iFlags /\ UNCHANGED <<device, wBytes>>
    BY <1>7 DEF ProcCmd_BULK_RAW
  <2> DEFINE c == Bulk(ep, "Callback_Bulk_Msg", TRUE)
  <2>3. c \in Call
    BY CallTypes DEF EP, Handler, Waited
  <2>4. c.wait /\ Planned(c)
    BY <2>2 DEF Bulk, Planned, Waited
  <2> HIDE DEF c
  <2>5. <<c>> \in Seq(Call \union {MakeContext}) /\ <<c>> # <<>> /\ \A i \in DOMAIN <<c>> : <<c>>[i] = c
    BY <2>3
  <2>6. Enter(<<c>>, "call")
    BY <2>1 DEF c
  <2> QED
    BY <2>2, <2>3, <2>4, <2>5, <2>6, WaitKeeps
<1> QED
  BY <1>3, <1>4, <1>5, <1>6, <1>7

LEMMA SendStep ==
  ASSUME Types, Good, ~badAccess, ProcCmd_SEND_PACKET
  PROVE  Keeps
<1>1. Types /\ Good /\ pc = "idle" /\ Open /\ Uart /\ "PRESENCE" \in iFlags
  BY DEF ProcCmd_SEND_PACKET
<1>2. UNCHANGED <<chip, plugged, iFlags, context, opens, transfers, slot, endp, own, badAccess>>
  BY DEF ProcCmd_SEND_PACKET, device, answer
<1>3. PICK o \in GetCreatePipe(pipes, "out", "BULK") : pipes' = o.pipes
  BY DEF ProcCmd_SEND_PACKET
<1>4. slot = 0 /\ Rows(pipes, 0) /\ pipes \in Table /\ "out" \in EP /\ "BULK" \in Kind
  BY <1>1 DEF Good, Flow, Types, EP, Kind
<1>5. pipes' \in Table
  BY <1>3, <1>4, PipeTypes
<1>6. Rows(pipes', 0) /\ Grown(pipes, o, "out", "BULK")
  BY <1>3, <1>4, PipeGrows
<1>7. \A a \in pipes.alloc : a \in pipes'.alloc /\ pipes'.mem[a] = pipes.mem[a] /\ Key(pipes', a) = Key(pipes, a)
  BY <1>3, <1>6 DEF Grown, Same, Key
<1>8. \A a \in pipes'.alloc : a \in pipes.alloc \/ ~pipes'.mem[a].raised
  BY <1>3, <1>6 DEF Grown
<1> DEFINE c == Bulk("out", "Callback_BulkOut", FALSE)
<1>9. /\ c \in Call /\ <<c>> \in Seq(Call \union {MakeContext}) /\ <<c>> # <<>>
      /\ \A i \in DOMAIN <<c>> : <<c>>[i] = c
  <2>1. c \in Call
    BY CallTypes DEF EP, Handler, Waited
  <2> HIDE DEF c
  <2> QED
    BY <2>1
<1>10. c.cb = "Callback_BulkOut" /\ Planned(c)
  BY <1>1 DEF Bulk, Planned, Serves
<1> HIDE DEF c
<1>11. \/ wBytes' \in 1 .. MaxParts /\ pc' = "call" /\ todo' = <<c>>
       \/ UNCHANGED <<wBytes, pc, todo>>
  BY DEF ProcCmd_SEND_PACKET, c
<1>12. Types'
  <2>1. wBytes' \in 0 .. MaxParts /\ pc' \in {"idle", "call", "wait", "close"}
    BY <1>1, <1>11, SessionAssumption DEF Types
  <2>2. todo' \in Seq(Call \union {MakeContext})
    BY <1>1, <1>9, <1>11 DEF Types
  <2> QED
    BY <1>1, <1>2, <1>5, <2>1, <2>2 DEF Types
<1>13. Rows(pipes, slot)' /\ Live(transfers, pipes)'
  BY <1>1, <1>2, <1>4, <1>6, <1>7 DEF Good, Live
<1>14. Roles(transfers)'
  BY <1>1, <1>2 DEF Good, Roles, Serves, Uart
<1>15. Plan'
  BY <1>1, <1>2, <1>9, <1>10, <1>11 DEF Good, Plan, Planned, Serves, Uart
<1>16. Receivers(transfers)' /\ OneAsked(transfers)'
  BY <1>1, <1>2 DEF Good, Receivers, OneAsked, Asked, Receiver
<1>17. Starting'
  BY <1>1, <1>2, <1>9, <1>10, <1>11 DEF Good, Starting, NoReceiver, Receiver
<1>18. Answering'
  BY <1>1, <1>2, <1>11 DEF Good, Answering, NoneAsked, AskedOf, Asked
<1>19. Raised(pipes)'
  BY <1>1, <1>2, <1>7, <1>8 DEF Good, Raised, Uart
<1>20. Flow'
  BY <1>1, <1>2, <1>9, <1>11 DEF Good, Flow, Open
<1> QED
  BY <1>12, <1>13, <1>14, <1>15, <1>16, <1>17, <1>18, <1>19, <1>20 DEF Keeps, Good

(* The next call has been made.                                            *)
LEMMA Proceeded ==
  ASSUME todo \in Seq(Call \union {MakeContext}), todo # <<>>, Proceed
  PROVE  /\ todo' \in Seq(Call \union {MakeContext}) /\ pc' \in {"call", "idle"}
         /\ pc' = "call" <=> todo' # <<>>
         /\ Len(todo) \in Nat \ {0} /\ Len(todo') = Len(todo) - 1
         /\ \A i \in DOMAIN todo' : /\ i \in Nat \ {0} /\ i + 1 \in DOMAIN todo
                                    /\ todo'[i] = todo[i + 1]
<1>1. /\ Tail(todo) \in Seq(Call \union {MakeContext}) /\ Len(Tail(todo)) = Len(todo) - 1
      /\ Len(todo) \in Nat \ {0} /\ \A i \in 1 .. Len(Tail(todo)) : Tail(todo)[i] = todo[i + 1]
  BY HeadTailProperties, EmptySeq
<1>2. Tail(todo) # <<>> <=> Len(todo) > 1
  <2> DEFINE u == Tail(todo)
  <2>1. u \in Seq(Call \union {MakeContext}) /\ Len(u) = Len(todo) - 1
    BY <1>1
  <2> HIDE DEF u
  <2>2. u # <<>> <=> Len(u) # 0
    BY <2>1, EmptySeq
  <2> QED
    BY <1>1, <2>1, <2>2 DEF u
<1> QED
  BY <1>1, <1>2 DEF Proceed

(* What is left to call is still right, if nothing it rests on changes.    *)
LEMMA ProceedKeeps ==
  ASSUME Types, Plan, Starting, todo # <<>>, Proceed, UNCHANGED <<chip, iFlags>>
  PROVE  /\ Plan'
         /\ \A i \in DOMAIN todo' : todo'[i].cb = "Callback_BulkInp" =>
               /\ i = Len(todo') /\ NoReceiver(transfers)
               /\ todo[1].cb # "Callback_BulkInp"
<1>1. /\ Len(todo) \in Nat \ {0} /\ Len(todo') = Len(todo) - 1
      /\ \A i \in DOMAIN todo' : /\ i \in Nat \ {0} /\ i + 1 \in DOMAIN todo
                                 /\ todo'[i] = todo[i + 1]
  BY Proceeded DEF Types
<1>2. Plan'
  BY <1>1 DEF Plan, Planned, Serves, Uart
<1>3. 1 \in DOMAIN todo
  BY <1>1 DEF Types
<1>4. ASSUME NEW i \in DOMAIN todo', todo'[i].cb = "Callback_BulkInp"
      PROVE  /\ i = Len(todo') /\ NoReceiver(transfers)
             /\ todo[1].cb # "Callback_BulkInp"
  <2>1. i + 1 = Len(todo) /\ NoReceiver(transfers)
    BY <1>1, <1>4 DEF Starting
  <2> QED
    BY <1>1, <1>3, <2>1 DEF Starting
<1> QED
  BY <1>2, <1>4

(* usb_control_msg or usb_bulk_msg called by the program.                  *)
LEMMA CallStep ==
  ASSUME Types, Good, ~badAccess, CallTransfer
  PROVE  Keeps
<1> DEFINE c == todo[1]
<1>1. Types /\ Good /\ pc = "call" /\ c # MakeContext
  BY DEF CallTransfer
<1>2. UNCHANGED <<chip, plugged, iFlags, context, opens, wBytes, slot>>
  BY DEF CallTransfer, device
<1>3. /\ todo # <<>> /\ Open /\ slot = 0 /\ Rows(pipes, 0) /\ pipes \in Table
      /\ transfers \in Queues /\ Live(transfers, pipes)
  BY <1>1 DEF Good, Flow, Types, Queues
<1>4. c \in Call /\ 1 \in DOMAIN todo
  <2>1. Len(todo) \in Nat \ {0}
    BY <1>1, <1>3, EmptySeq DEF Types
  <2> QED
    BY <1>1, <2>1 DEF Types
<1>5. Planned(c)
  BY <1>1, <1>4 DEF Good, Plan
<1> HIDE DEF c
<1>6. PICK o \in GetCreatePipe(pipes, c.ep, c.type), ok \in BOOLEAN :
         /\ Submit(c, o, transfers, ok, o.endp = NULL /\ c.cb = "Callback_Bulk_Msg")
         /\ own' = -1
         /\ IF c.wait /\ ok /\ o.live
            THEN endp' = o.endp /\ pc' = "wait" /\ UNCHANGED todo
            ELSE endp' = NULL /\ Proceed
  BY DEF CallTransfer, c
<1> DEFINE bad == o.endp = NULL /\ c.cb = "Callback_Bulk_Msg"
           x == Transfer(c, o)
           q == <<c.ep, c.type>>
<1>7. /\ pipes' \in Table /\ transfers' \in Queues /\ (ok => x \in Pending)
      /\ transfers' = IF ok THEN Push(transfers, q, x) ELSE transfers
  <2> HIDE DEF bad
  <2>1. Submit(c, o, transfers, ok, bad)
    BY <1>6 DEF bad
  <2> QED
    BY <1>3, <1>4, <2>1, SubmitTypes DEF Sent
<1>8. o.endp \in Addr \union {NULL}
  BY <1>3, <1>4, CallPipe, PipeTypes
<1>9. Types'
  <2>1. /\ todo' \in Seq(Call \union {MakeContext}) /\ pc' \in {"idle", "call", "wait", "close"}
        /\ endp' \in Addr \union {NULL} /\ own' \in Int
    BY <1>1, <1>3, <1>6, <1>8, Proceeded DEF Types
  <2> QED
    BY <1>1, <1>2, <1>7, <2>1 DEF Types, Queues
<1> SUFFICES ASSUME ~badAccess', Lost' => Early PROVE Good'
  BY <1>9 DEF Keeps
<1>10. /\ Rows(pipes', 0) /\ Live(transfers', pipes') /\ (ok => o.live)
       /\ o.live => o.endp \in pipes'.alloc /\ Key(pipes', o.endp) = q
       /\ \A a \in pipes.alloc : Key(pipes', a) = Key(pipes, a)
       /\ \A a \in pipes'.alloc : pipes'.mem[a].raised => a \in pipes.alloc /\ pipes.mem[a].raised
  <2> HIDE DEF bad
  <2>1. Submit(c, o, transfers, ok, bad)
    BY <1>6 DEF bad
  <2> QED
    BY <1>1, <1>3, <1>4, <2>1, SubmitKeeps
<1>11. /\ x.cb = c.cb /\ x.rec = o.endp /\ ~x.closed /\ (x.stale <=> ~o.live)
  BY DEF Transfer
<1>12. q \in Pipe
  BY <1>4, CallPipe
<1> HIDE DEF bad, x, q
<1>13. Rows(pipes, slot)' /\ Live(transfers, pipes)'
  BY <1>2, <1>3, <1>10
<1>14. NoneAsked(transfers)
  BY <1>1 DEF Good, Answering
<1>15. "PRESENCE" \notin iFlags => ~ok
  BY <1>1, <1>6 DEF Good, Flow, Submit
<1>16. Raised(pipes)'
  BY <1>1, <1>2, <1>10 DEF Good, Raised, Uart
<1>17. CASE c.wait /\ ok /\ o.live
  <2>1. /\ endp' = o.endp /\ pc' = "wait" /\ todo' = todo /\ own' = -1
        /\ transfers' = Push(transfers, q, x) /\ x \in Pending
    BY <1>6, <1>7, <1>17
  <2>2. x.cb \in Waited /\ ~Receiver(x) /\ Asked(x)
    BY <1>5, <1>11, <1>17 DEF Planned, Waited, Receiver, Asked
  <2>3. /\ Roles(transfers') /\ Receivers(transfers') /\ OneAsked(transfers')
        /\ NoReceiver(transfers) => NoReceiver(transfers')
    BY <1>1, <1>3, <1>12, <1>14, <2>1, <2>2, PushKeeps DEF Good
  <2>4. AskedOf(transfers', o.endp)
    <3>1. AskedOf(transfers, o.endp)
      BY <1>14 DEF NoneAsked, AskedOf
    <3> QED
      BY <1>3, <1>11, <1>12, <2>1, <3>1, PushKeeps
  <2>5. Roles(transfers)' /\ Receivers(transfers)' /\ OneAsked(transfers)'
    BY <1>1, <1>2, <2>3 DEF Roles, Serves, Uart, Receivers, OneAsked, Asked, Receiver
  <2>6. Starting' /\ Plan'
    BY <1>1, <1>2, <2>1, <2>3 DEF Good, Starting, Plan, Planned, Serves, Uart
  <2>7. Answering'
    BY <1>1, <1>10, <1>17, <2>1, <2>4 DEF Answering, c, q
  <2>8. Flow'
    BY <1>1, <1>2, <1>15, <1>17, <2>1 DEF Good, Flow, Open
  <2> QED
    BY <1>13, <1>16, <2>5, <2>6, <2>7, <2>8 DEF Good
<1>18. CASE ~(c.wait /\ ok /\ o.live)
  <2>1. endp' = NULL /\ Proceed
    BY <1>6, <1>18
  <2>2. /\ todo' \in Seq(Call \union {MakeContext}) /\ pc' \in {"call", "idle"}
        /\ pc' = "call" <=> todo' # <<>>
    BY <1>1, <1>3, <2>1, Proceeded DEF Types
  <2>3. /\ Plan'
        /\ \A i \in DOMAIN todo' : todo'[i].cb = "Callback_BulkInp" =>
              /\ i = Len(todo') /\ NoReceiver(transfers)
              /\ c.cb # "Callback_BulkInp"
    BY <1>1, <1>2, <1>3, <2>1, ProceedKeeps DEF Good, c
  <2>4. ok => Serves(c.cb, q) /\ Uart /\ ~Asked(x)
    BY <1>5, <1>10, <1>11, <1>18 DEF Planned, q, Serves, Asked, Waited
  <2>5. ok => ~x.stale
    BY <1>10, <1>11
  <2>6. c.cb = "Callback_BulkInp" => NoReceiver(transfers)
    BY <1>1, <1>4 DEF Good, Starting, c
  <2>7. /\ Roles(transfers') /\ Receivers(transfers') /\ OneAsked(transfers') /\ NoneAsked(transfers')
        /\ NoReceiver(transfers) /\ c.cb # "Callback_BulkInp" => NoReceiver(transfers')
    <3>1. CASE ok
      <4>1. transfers' = Push(transfers, q, x) /\ x \in Pending
        BY <1>7, <3>1
      <4>2. Receiver(x) => c.cb = "Callback_BulkInp"
        BY <1>11 DEF Receiver
      <4> QED
        BY <1>1, <1>3, <1>11, <1>12, <1>14, <2>4, <2>5, <2>6, <3>1, <4>1, <4>2, PushKeeps DEF Good
    <3>2. CASE ~ok
      BY <1>1, <1>7, <1>14, <3>2 DEF Good
    <3> QED
      BY <3>1, <3>2
  <2>8. Roles(transfers)' /\ Receivers(transfers)' /\ OneAsked(transfers)'
    BY <1>1, <1>2, <2>7 DEF Roles, Serves, Uart, Receivers, OneAsked, Asked, Receiver
  <2>9. Starting'
    BY <2>3, <2>7 DEF Starting
  <2>10. Answering'
    BY <2>2, <2>7 DEF Answering, AskedOf, NoneAsked
  <2>11. Flow'
    BY <1>1, <1>2, <1>7, <1>15, <2>2 DEF Good, Flow, Open
  <2> QED
    BY <1>13, <1>16, <2>3, <2>8, <2>9, <2>10, <2>11 DEF Good
<1> QED
  BY <1>17, <1>18

LEMMA ContextStep ==
  ASSUME Types, Good, ~badAccess, CallContext
  PROVE  Keeps
<1>1. Types /\ Good /\ pc = "call" /\ Proceed /\ todo # <<>>
  BY DEF CallContext, Good, Flow
<1>2. UNCHANGED <<chip, plugged, iFlags, opens, pipes, transfers, wBytes, slot, endp, own, badAccess>>
  BY DEF CallContext, answer
<1>3. /\ todo' \in Seq(Call \union {MakeContext}) /\ pc' \in {"call", "idle"}
      /\ pc' = "call" <=> todo' # <<>>
  BY <1>1, Proceeded DEF Types
<1>4. Plan' /\ Starting'
  <2>1. /\ Plan'
        /\ \A i \in DOMAIN todo' : todo'[i].cb = "Callback_BulkInp" =>
              i = Len(todo') /\ NoReceiver(transfers)
    BY <1>1, <1>2, ProceedKeeps DEF Good
  <2> QED
    BY <1>2, <2>1 DEF Starting, NoReceiver, Receiver
<1>5. Types'
  <2>1. context' \in BOOLEAN
    BY Zenon DEF CallContext
  <2> QED
    BY <1>1, <1>2, <1>3, <2>1 DEF Types
<1>6. Rows(pipes, slot)' /\ Live(transfers, pipes)'
  BY <1>1, <1>2 DEF Good, Rows, Live, Key
<1>7. Roles(transfers)' /\ Receivers(transfers)' /\ OneAsked(transfers)'
  BY <1>1, <1>2 DEF Good, Roles, Serves, Uart, Receivers, OneAsked, Asked, Receiver
<1>8. Answering' /\ Raised(pipes)'
  BY <1>1, <1>2, <1>3 DEF Good, Answering, NoneAsked, AskedOf, Asked, Raised, Key, Uart
<1>9. Flow'
  BY <1>1, <1>2, <1>3 DEF Good, Flow, Open
<1> QED
  BY <1>4, <1>5, <1>6, <1>7, <1>8, <1>9 DEF Keeps, Good

(* coreWaitEvent returns with the answer.                                  *)
LEMMA WakeStep ==
  ASSUME Types, Good, ~badAccess, Wake
  PROVE  Keeps
<1>1. /\ Types /\ Good /\ pc = "wait" /\ Proceed /\ todo # <<>> /\ pipes \in Table
      /\ pipes.mem[endp].raised /\ endp' = NULL /\ own' = -1
  BY DEF Wake, Good, Flow, Types
<1>2. UNCHANGED <<chip, plugged, iFlags, context, opens, transfers, wBytes, slot, badAccess>>
  BY DEF Wake, device
<1>3. /\ endp \in pipes.alloc /\ endp \in Addr /\ todo[1] # MakeContext /\ todo[1].wait
      /\ Key(pipes, endp) = <<todo[1].ep, todo[1].type>>
  BY <1>1 DEF Good, Answering, Table
<1>4. 1 \in DOMAIN todo /\ Planned(todo[1])
  <2>1. Len(todo) \in Nat \ {0}
    BY <1>1, EmptySeq DEF Types
  <2> QED
    BY <1>1, <1>3, <2>1 DEF Types, Good, Plan
<1>5. own # -1
  <2>1. ~(Key(pipes, endp) = <<"out", "BULK">> /\ Uart)
    BY <1>3, <1>4 DEF Planned
  <2> QED
    BY <1>1, <1>3, <2>1 DEF Good, Raised
<1>6. NoneAsked(transfers)
  BY <1>1, <1>5 DEF Good, Answering
<1>7. /\ todo' \in Seq(Call \union {MakeContext}) /\ pc' \in {"call", "idle"}
      /\ pc' = "call" <=> todo' # <<>>
  BY <1>1, Proceeded DEF Types
<1>8. /\ pipes' \in Table /\ pipes'.apPipes = pipes.apPipes /\ pipes'.alloc = pipes.alloc
      /\ pipes'.mem = [pipes.mem EXCEPT ![endp].raised = FALSE]
  <2>1. pipes \in Table /\ pipes' = [pipes EXCEPT !.mem[endp].raised = FALSE]
    BY <1>1 DEF Wake
  <2>2. endp \in Addr
    BY <1>3
  <2>3. pipes.mem \in [Addr -> Record]
    BY ONLY <2>1 DEF Table
  <2>4. /\ pipes'.apPipes = pipes.apPipes /\ pipes'.alloc = pipes.alloc /\ pipes'.faults = pipes.faults
        /\ pipes'.mem = [pipes.mem EXCEPT ![endp].raised = FALSE]
    <3>1. PICK x : x = [pipes.mem EXCEPT ![endp].raised = FALSE]
      OBVIOUS
    <3>2. pipes' = [pipes EXCEPT !.mem = x]
      BY ONLY <2>1, <3>1
    <3>3. pipes = [apPipes |-> pipes.apPipes, alloc |-> pipes.alloc, mem |-> pipes.mem,
                   faults |-> pipes.faults]
      BY ONLY <2>1 DEF Table
    <3>4. pipes' = [apPipes |-> pipes.apPipes, alloc |-> pipes.alloc, mem |-> x,
                    faults |-> pipes.faults]
      BY ONLY <3>2, <3>3
    <3> QED
      BY ONLY <3>1, <3>4
  <2>5. pipes'.mem \in [Addr -> Record]
    <3>1. PICK m \in [Addr -> Record] : m = pipes.mem
      BY ONLY <2>3
    <3>2. m[endp] \in Record
      BY ONLY <2>2, m \in [Addr -> Record]
    <3>3. PICK r \in Record : r = [m[endp] EXCEPT !.raised = FALSE]
      BY ONLY <3>2 DEF Record
    <3>4. pipes'.mem = [m EXCEPT ![endp] = r]
      BY ONLY <2>4, <3>1, <3>3
    <3>5. [m EXCEPT ![endp] = r] \in [Addr -> Record]
      BY ONLY <2>2, m \in [Addr -> Record], r \in Record
    <3> QED
      BY ONLY <3>4, <3>5
  <2>6. pipes' \in Table
    <3>1. pipes' = [apPipes |-> pipes'.apPipes, alloc |-> pipes'.alloc,
                    mem |-> pipes'.mem, faults |-> pipes'.faults]
      BY ONLY <2>1 DEF Table
    <3>2. /\ pipes.apPipes \in Seq(Addr \union {NULL}) /\ pipes.alloc \in SUBSET Addr
          /\ pipes.faults \in Nat
      BY ONLY <2>1 DEF Table
    <3> QED
      BY ONLY <2>4, <2>5, <3>1, <3>2 DEF Table
  <2> QED
    BY ONLY <2>4, <2>6
<1>9. /\ Touched(pipes, pipes', endp) /\ ~pipes'.mem[endp].raised
  <2>1. pipes.mem \in [Addr -> Record]
    BY <1>1 DEF Table
  <2> QED
    BY <1>3, <1>8, <2>1 DEF Touched, Key, Record
<1>10. Rows(pipes, slot)'
  BY <1>1, <1>2, <1>8, <1>9, TouchedRows DEF Good, Types
<1>11. pipes.alloc \subseteq Addr
  BY <1>1 DEF Table
<1>12. Live(transfers, pipes)'
  BY <1>1, <1>2, <1>8, <1>9, <1>11 DEF Good, Live, Touched
<1>13. Plan' /\ Starting'
  <2>1. /\ Plan'
        /\ \A i \in DOMAIN todo' : todo'[i].cb = "Callback_BulkInp" =>
              i = Len(todo') /\ NoReceiver(transfers)
    BY <1>1, <1>2, ProceedKeeps DEF Good
  <2> QED
    BY <1>2, <2>1 DEF Starting, NoReceiver, Receiver
<1>14. Types'
  BY <1>1, <1>2, <1>7, <1>8 DEF Types
<1>15. Roles(transfers)' /\ Receivers(transfers)' /\ OneAsked(transfers)'
  BY <1>1, <1>2 DEF Good, Roles, Serves, Uart, Receivers, OneAsked, Asked, Receiver
<1>16. Answering'
  BY <1>2, <1>6, <1>7 DEF Answering, NoneAsked, AskedOf, Asked
<1>17. Raised(pipes)'
  BY <1>1, <1>2, <1>8, <1>9, <1>11 DEF Good, Raised, Touched, Uart
<1>18. Flow'
  BY <1>1, <1>2, <1>7, <1>8 DEF Good, Flow, Open
<1> QED
  BY <1>10, <1>12, <1>13, <1>14, <1>15, <1>16, <1>17, <1>18 DEF Keeps, Good

LEMMA CloseFlagsStep ==
  ASSUME Types, Good, ~badAccess, CloseFlags
  PROVE  Keeps
<1>1. /\ Types /\ Good /\ pc = "idle" /\ pc' = "close" /\ iFlags' = iFlags \ {"BUSY", "UART"}
      /\ todo = <<>>
  BY DEF CloseFlags, Good, Flow
<1>2. UNCHANGED <<chip, plugged, context, opens, pipes, transfers, wBytes, todo, slot, endp, own,
                  badAccess>>
  BY DEF CloseFlags, answer
<1>3. Types'
  BY <1>1, <1>2 DEF Types
<1>4. Rows(pipes, slot)' /\ Live(transfers, pipes)'
  BY <1>1, <1>2 DEF Good, Rows, Live, Key
<1>5. Roles(transfers)' /\ Receivers(transfers)' /\ OneAsked(transfers)'
  BY <1>1, <1>2 DEF Good, Roles, Serves, Receivers, OneAsked, Asked, Receiver
<1>6. DOMAIN todo = {}
  BY <1>1
<1>7. Plan' /\ Starting'
  BY <1>2, <1>6 DEF Plan, Starting
<1>8. Answering' /\ Raised(pipes)'
  BY <1>1, <1>2 DEF Good, Answering, NoneAsked, AskedOf, Asked, Raised, Key
<1>9. Flow'
  BY <1>1, <1>2 DEF Good, Flow, Open
<1> QED
  BY <1>3, <1>4, <1>5, <1>7, <1>8, <1>9 DEF Keeps, Good

(* ClosePipes frees one record more, a, in the row after the first s.      *)
Freed(p, s, a) == [p EXCEPT !.apPipes[s + 1] = NULL, !.alloc = @ \ {a}, !.mem[a] = Blank]

LEMMA FreedRow ==
  ASSUME NEW p \in Table, NEW s \in Nat, Rows(p, s), s + 1 \in DOMAIN p.apPipes,
         NEW r, r = Freed(p, s, p.apPipes[s + 1])
  PROVE  /\ p.apPipes[s + 1] \in p.alloc /\ r \in Table /\ Rows(r, s + 1)
         /\ r.alloc = p.alloc \ {p.apPipes[s + 1]}
         /\ \A b \in p.alloc : b # p.apPipes[s + 1] => r.mem[b] = p.mem[b]
<1> DEFINE a == p.apPipes[s + 1]
           n == Len(p.apPipes)
           A == [p.apPipes EXCEPT ![s + 1] = NULL]
           m == [p.mem EXCEPT ![a] = Blank]
<1>1. /\ p.apPipes \in Seq(Addr \union {NULL}) /\ n \in Nat /\ p.alloc \subseteq Addr
      /\ p.mem \in [Addr -> Record] /\ s + 1 \in 1 .. n
  BY DEF Table
<1>2. a \in p.alloc
  BY <1>1 DEF Rows
<1>3. Blank \in Record
  BY DEF Blank, Record
<1>4. /\ A \in Seq(Addr \union {NULL}) /\ Len(A) = n /\ A[s + 1] = NULL
      /\ \A i \in 1 .. n : i # s + 1 => A[i] = p.apPipes[i]
  BY <1>1
<1>5. m \in [Addr -> Record] /\ \A b \in Addr : b # a => m[b] = p.mem[b]
  BY <1>1, <1>3
<1>6. r.apPipes = A /\ r.alloc = p.alloc \ {a} /\ r.mem = m /\ r \in Table
  <2>1. p.alloc \ {a} \subseteq Addr
    BY <1>1
  <2> QED
    BY <1>1, <1>4, <1>5, <2>1 DEF Table, Freed
<1> HIDE DEF A, m
<1>7. \A b \in p.alloc : b # a => r.mem[b] = p.mem[b] /\ Key(r, b) = Key(p, b)
  BY <1>1, <1>5, <1>6 DEF Key
<1>8. Rows(r, s + 1)
  <2>1. s + 1 <= n /\ \A i \in 1 .. s + 1 : A[i] = NULL
    BY <1>1, <1>4 DEF Rows
  <2>2. \A i \in s + 2 .. n : A[i] = p.apPipes[i] /\ i \in s + 1 .. n /\ i # s + 1
    BY <1>1, <1>4
  <2>3. \A i \in s + 2 .. n : A[i] \in r.alloc
    <3> SUFFICES ASSUME NEW i \in s + 2 .. n PROVE A[i] \in r.alloc
      OBVIOUS
    <3>1. p.apPipes[i] \in p.alloc /\ p.apPipes[i] # a
      BY <1>1, <2>2 DEF Rows
    <3> QED
      BY <1>6, <2>2, <3>1
  <2>4. \A i, j \in s + 2 .. n : A[i] = A[j] => i = j
    BY <2>2 DEF Rows
  <2>5. \A b \in r.alloc : \E i \in s + 2 .. n : A[i] = b
    <3> SUFFICES ASSUME NEW b \in r.alloc PROVE \E i \in s + 2 .. n : A[i] = b
      OBVIOUS
    <3>1. b \in p.alloc /\ b # a
      BY <1>6
    <3>2. PICK i \in s + 1 .. n : p.apPipes[i] = b
      BY <3>1 DEF Rows
    <3>3. i \in s + 2 .. n
      BY <1>1, <3>1, <3>2
    <3> QED
      BY <2>2, <3>2, <3>3
  <2>6. \A b \in r.alloc : r.mem[b].pEvent
    BY <1>6, <1>7 DEF Rows
  <2>7. \A b, d \in r.alloc : Key(r, b) = Key(r, d) => b = d
    BY <1>6, <1>7 DEF Rows
  <2>8. s + 1 + 1 = s + 2
    OBVIOUS
  <2> QED
    BY <1>4, <1>6, <2>1, <2>3, <2>4, <2>5, <2>6, <2>7, <2>8 DEF Rows
<1> QED
  BY <1>2, <1>6, <1>7, <1>8

LEMMA ClosePipesStep ==
  ASSUME Types, Good, ~badAccess, ClosePipes
  PROVE  Keeps
<1> DEFINE a == pipes.apPipes[slot + 1]
<1>1. /\ Types /\ Good /\ pc = "close" /\ More /\ slot' = slot + 1 /\ todo = <<>>
      /\ pipes \in Table /\ slot \in Nat /\ Rows(pipes, slot) /\ transfers \in Queues
  BY DEF ClosePipes, Good, Flow, Types, Queues
<1>2. UNCHANGED <<chip, plugged, iFlags, context, opens, wBytes, pc, todo, endp, own, badAccess>>
  BY DEF ClosePipes, device, answer
<1>3. /\ a \in pipes.alloc /\ pipes' \in Table /\ Rows(pipes', slot + 1)
      /\ pipes'.alloc = pipes.alloc \ {a}
      /\ \A b \in pipes.alloc : b # a => pipes'.mem[b] = pipes.mem[b]
  <2>1. pipes' = Freed(pipes, slot, pipes.apPipes[slot + 1])
    BY DEF ClosePipes, Freed
  <2>2. slot + 1 \in DOMAIN pipes.apPipes
    BY <1>1 DEF More
  <2> QED
    BY <1>1, <2>1, <2>2, FreedRow
<1> HIDE DEF a
<1>4. transfers' = [q \in Pipe |-> [k \in DOMAIN transfers[q] |-> Closed(q, transfers[q][k], a)]]
  BY DEF ClosePipes, a
<1>5. ASSUME NEW q \in Pipe, NEW k \in DOMAIN transfers[q]
      PROVE  LET t == transfers[q][k]
                 u == Closed(q, transfers[q][k], a)
             IN  /\ t \in Pending /\ u \in Pending /\ u.cb = t.cb /\ u.rec = t.rec
                 /\ u.stale <=> (t.stale \/ t.rec = a)
                 /\ u.closed <=> (t.closed \/ (t.rec = a /\ "PRESENCE" \in iFlags
                                                         /\ q[1] \notin NullEndpoint))
  <2> DEFINE t == transfers[q][k]
  <2>1. t \in Pending
    BY <1>1 DEF Queues
  <2> HIDE DEF t
  <2>2. LET u == Closed(q, t, a)
        IN  /\ u \in Pending /\ u.cb = t.cb /\ u.rec = t.rec
            /\ u.stale <=> (t.stale \/ t.rec = a)
            /\ u.closed <=> (t.closed \/ (t.rec = a /\ "PRESENCE" \in iFlags
                                                    /\ q[1] \notin NullEndpoint))
    BY <2>1 DEF Closed, Pending
  <2> QED
    BY <2>1, <2>2 DEF t
<1>6. \A q \in Pipe : DOMAIN transfers'[q] = DOMAIN transfers[q] /\ transfers[q] \in Seq(Pending)
  BY <1>1, <1>4 DEF Queues
<1>7. transfers' \in Queues
  <2>1. ASSUME NEW q \in Pipe PROVE transfers'[q] \in Seq(Pending)
    <3>1. DOMAIN transfers[q] = 1 .. Len(transfers[q]) /\ Len(transfers[q]) \in Nat
      BY <1>6
    <3>2. \A k \in 1 .. Len(transfers[q]) : Closed(q, transfers[q][k], a) \in Pending
      BY <1>5, <3>1
    <3>3. transfers'[q] = [k \in 1 .. Len(transfers[q]) |-> Closed(q, transfers[q][k], a)]
      BY <1>4, <3>1
    <3> QED
      BY <3>1, <3>2, <3>3, IsASeq
  <2>2. transfers' = [q \in Pipe |-> transfers'[q]]
    BY <1>4
  <2> QED
    BY <2>1, <2>2 DEF Queues
<1> DEFINE T == transfers
           U == transfers'
<1>8. \A q \in Pipe : \A k \in DOMAIN U[q] :
         /\ k \in DOMAIN T[q] /\ U[q][k].cb = T[q][k].cb /\ U[q][k].rec = T[q][k].rec
         /\ U[q][k].stale <=> (T[q][k].stale \/ T[q][k].rec = a)
         /\ T[q][k].closed => U[q][k].closed
         /\ T[q][k].rec = a /\ "PRESENCE" \in iFlags /\ q[1] \notin NullEndpoint => U[q][k].closed
  BY <1>4, <1>5, <1>6
<1> HIDE DEF T, U
<1>9. Types'
  <2>1. slot' \in Nat
    BY <1>1
  <2> QED
    BY <1>1, <1>2, <1>3, <1>7, <2>1 DEF Types, Queues
<1>10. Rows(pipes, slot)'
  BY <1>1, <1>3
<1>11. Live(U, pipes')
  BY <1>1, <1>3, <1>8 DEF Good, Live, Key, T
<1>12. Roles(T) /\ Receivers(T) /\ OneAsked(T) /\ NoneAsked(T) /\ Live(T, pipes)
  BY <1>1 DEF Good, Answering, T
<1>13. Roles(U)
  BY <1>8, <1>12 DEF Roles
<1>14. Receivers(U)
  <2>1. ASSUME NEW q \in Pipe, NEW k \in DOMAIN U[q], Receiver(U[q][k])
        PROVE  k \in DOMAIN T[q] /\ Receiver(T[q][k]) /\ ~U[q][k].stale
    <3>1. k \in DOMAIN T[q] /\ Receiver(T[q][k]) /\ ~T[q][k].stale
      BY <1>8, <1>12, <2>1 DEF Receiver, Receivers
    <3>2. q = <<"in", "BULK">>
      BY <1>12, <3>1 DEF Roles, Receiver, Serves, Waited
    <3>3. "PRESENCE" \in iFlags
      <4> SUFFICES ASSUME "PRESENCE" \notin iFlags PROVE FALSE
        OBVIOUS
      <4>1. T[q] = <<>>
        BY <1>1 DEF Good, Flow, T
      <4> QED
        BY <3>1, <4>1
    <3>4. q[1] \notin NullEndpoint
      BY <3>2 DEF NullEndpoint
    <3> QED
      BY <1>8, <2>1, <3>1, <3>3, <3>4 DEF Receiver
  <2> QED
    BY <1>12, <2>1 DEF Receivers
<1>15. NoneAsked(U)
  BY <1>8, <1>12 DEF NoneAsked, Asked
<1>16. Roles(transfers)' /\ Receivers(transfers)' /\ Live(transfers, pipes)'
  BY <1>2, <1>11, <1>13, <1>14 DEF Roles, Serves, Uart, Receivers, Receiver, U
<1>17. OneAsked(transfers)' /\ Answering'
  BY <1>1, <1>2, <1>15 DEF OneAsked, NoneAsked, Answering, AskedOf, Asked, U
<1>18. DOMAIN todo = {}
  BY <1>1
<1>19. Plan' /\ Starting'
  BY <1>2, <1>18 DEF Plan, Starting
<1>20. Raised(pipes)'
  BY <1>1, <1>2, <1>3 DEF Good, Raised, Key
<1>21. Flow'
  <2>1. ASSUME NEW q \in Pipe, transfers[q] = <<>> PROVE transfers'[q] = <<>>
    <3> DEFINE u == transfers'[q]
    <3>1. DOMAIN u = {} /\ u \in Seq(Pending)
      BY <1>6, <1>7, <2>1 DEF Queues
    <3> HIDE DEF u
    <3>2. Len(u) = 0
      BY <3>1
    <3> QED
      BY <3>1, <3>2, EmptySeq DEF u
  <2> QED
    BY <1>1, <1>2, <2>1 DEF Good, Flow, Open
<1> QED
  BY <1>9, <1>10, <1>16, <1>17, <1>19, <1>20, <1>21 DEF Keeps, Good

LEMMA CloseEndStep ==
  ASSUME Types, Good, ~badAccess, CloseEnd
  PROVE  Keeps
<1>1. /\ Types /\ Good /\ pc = "close" /\ ~More /\ pc' = "idle" /\ slot' = 0 /\ todo = <<>>
      /\ pipes \in Table /\ slot \in Nat /\ Rows(pipes, slot)
  BY DEF CloseEnd, Good, Flow, Types
<1>2. UNCHANGED <<chip, plugged, iFlags, opens, transfers, wBytes, todo, endp, own>>
      /\ context' = FALSE
  BY DEF CloseEnd, answer
<1>3. pipes' \in Table /\ pipes'.apPipes = <<>> /\ pipes'.alloc = pipes.alloc
  <2>1. <<>> \in Seq(Addr \union {NULL})
    BY EmptySeq
  <2> QED
    BY <1>1, <2>1 DEF CloseEnd, Table
<1>4. pipes.alloc = {}
  <2>1. /\ pipes.apPipes \in Seq(Addr \union {NULL}) /\ Len(pipes.apPipes) \in Nat
        /\ pipes.alloc \subseteq Addr /\ DOMAIN pipes.apPipes = 1 .. Len(pipes.apPipes)
    BY <1>1 DEF Table
  <2>2. slot + 1 \notin DOMAIN pipes.apPipes
    BY <1>1, <2>1, SessionAssumption DEF More, Rows
  <2>3. slot + 1 .. Len(pipes.apPipes) = {}
    BY <1>1, <2>1, <2>2
  <2> QED
    BY <1>1, <2>3 DEF Rows
<1>5. Types'
  <2>1. context' \in BOOLEAN
    BY <1>2, Zenon
  <2> QED
    BY <1>1, <1>2, <1>3, <2>1 DEF Types
<1>6. Rows(pipes, slot)'
  <2>1. Len(pipes'.apPipes) = 0
    BY <1>3
  <2> QED
    BY <1>1, <1>3, <1>4, <2>1 DEF Rows
<1>7. \A q \in Pipe : \A k \in DOMAIN transfers[q] : transfers[q][k].stale
  BY <1>1, <1>4 DEF Good, Live
<1>8. Live(transfers, pipes)' /\ Roles(transfers)'
  BY <1>2, <1>7 DEF Live, Roles
<1>9. Receivers(transfers)' /\ OneAsked(transfers)' /\ Answering'
  BY <1>1, <1>2, <1>7 DEF Good, Receivers, OneAsked, Answering, NoneAsked, AskedOf, Asked, Receiver
<1>10. DOMAIN todo = {}
  BY <1>1
<1>11. Plan' /\ Starting' /\ Raised(pipes)'
  BY <1>2, <1>3, <1>4, <1>10 DEF Plan, Starting, Raised
<1>12. Flow'
  BY <1>1, <1>2, <1>3, <1>4 DEF Good, Flow, Open
<1> QED
  BY <1>5, <1>6, <1>8, <1>9, <1>11, <1>12 DEF Keeps, Good

(* The device goes, and the stack says so when all transfers have ended.   *)
LEMMA DeviceGoes ==
  ASSUME Types, Good, ~badAccess, Unplug \/ Disconnected
  PROVE  Keeps
<1>1. Types /\ Good
  OBVIOUS
<1>2. UNCHANGED <<chip, context, opens, pipes, transfers, wBytes, pc, todo, slot, endp, own, badAccess>>
  BY DEF Unplug, Disconnected, answer
<1>3. \/ iFlags' = iFlags /\ plugged' = FALSE
      \/ iFlags' = iFlags \ {"PRESENCE"} /\ plugged' = plugged /\ ~plugged
          /\ \A q \in Pipe : transfers[q] = <<>>
  BY DEF Unplug, Disconnected, Busy
<1>4. (Uart' <=> Uart) /\ (Open' <=> Open) /\ iFlags' \subseteq {"PRESENCE", "BUSY", "UART"}
  BY <1>1, <1>3 DEF Uart, Open, Types
<1>5. Types'
  <2>1. plugged' \in BOOLEAN
    BY <1>1, <1>3, Zenon DEF Types
  <2> QED
    BY <1>1, <1>2, <1>4, <2>1 DEF Types
<1>6. Rows(pipes, slot)' /\ Live(transfers, pipes)'
  BY <1>1, <1>2 DEF Good, Rows, Live, Key
<1>7. Roles(transfers)' /\ Receivers(transfers)' /\ OneAsked(transfers)'
  BY <1>1, <1>2, <1>4 DEF Good, Roles, Serves, Receivers, OneAsked, Asked, Receiver
<1>8. Plan' /\ Starting'
  BY <1>1, <1>2, <1>4 DEF Good, Plan, Planned, Serves, Starting, NoReceiver, Receiver
<1>9. Answering' /\ Raised(pipes)'
  BY <1>1, <1>2, <1>4 DEF Good, Answering, NoneAsked, AskedOf, Asked, Raised, Key
<1>10. Flow'
  BY <1>1, <1>2, <1>3, <1>4 DEF Good, Flow
<1> QED
  BY <1>5, <1>6, <1>7, <1>8, <1>9, <1>10 DEF Keeps, Good

-----------------------------------------------------------------------------
(* The callbacks.  Both lemmas are about a completed transfer that no      *)
(* thread waits for; the first one is not submitted again, and the table   *)
(* keeps its records.                                                      *)
LEMMA DropKeeps ==
  ASSUME Types, Good, ~badAccess, NEW q \in Pipe, transfers[q] # <<>>,
         pipes' \in Table, transfers' = Pop(transfers, q), wBytes' \in 0 .. MaxParts,
         UNCHANGED <<device, pc, todo, slot, answer>>,
         ~badAccess' /\ (Lost' => Early) =>
            /\ ~Head(transfers[q]).stale
            /\ Rows(pipes', slot) /\ pipes.alloc \subseteq pipes'.alloc
            /\ \A a \in pipes.alloc : Key(pipes', a) = Key(pipes, a)
            /\ \A a \in pipes'.alloc : pipes'.mem[a].raised =>
                  \/ /\ a \in pipes.alloc /\ pipes.mem[a].raised
                     /\ pipes'.mem[a].iCountRW = pipes.mem[a].iCountRW
                  \/ Key(pipes', a) = <<"out", "BULK">> /\ (pc = "close" \/ Uart)
  PROVE  Keeps
<1> DEFINE T == transfers
           U == Pop(transfers, q)
<1>1. Types /\ Good /\ T \in Queues
  BY DEF Types, Queues
<1>2. UNCHANGED <<chip, plugged, iFlags, context, opens, pc, todo, slot, endp, own>>
  BY DEF device, answer
<1>3. U \in Queues /\ Head(T[q]) = T[q][1] /\ 1 \in DOMAIN T[q] /\ Head(T[q]) \in Pending
  BY <1>1, Popped
<1>4. Types'
  BY <1>1, <1>2, <1>3 DEF Types, Queues
<1> SUFFICES ASSUME ~badAccess', Lost' => Early PROVE Good'
  BY <1>4 DEF Keeps
<1>5. /\ Live(U, pipes) /\ Roles(U) /\ Receivers(U) /\ OneAsked(U)
      /\ (NoReceiver(T) => NoReceiver(U)) /\ (NoneAsked(T) => NoneAsked(U)) /\ AskedOf(U, endp)
  BY <1>1, PopKeeps DEF Good, Answering
<1>6. pipes.alloc # {} /\ "PRESENCE" \in iFlags
  BY <1>1, <1>3 DEF Good, Live, Flow
<1> HIDE DEF U
<1>7. Rows(pipes, slot)' /\ Live(transfers, pipes)'
  <2>1. Live(U, pipes')
    BY <1>5 DEF Live
  <2> QED
    BY <1>2, <2>1 DEF U
<1>8. Roles(transfers)' /\ Receivers(transfers)' /\ OneAsked(transfers)'
  BY <1>2, <1>5 DEF Roles, Serves, Uart, Receivers, OneAsked, Asked, Receiver, U
<1>9. Plan' /\ Starting'
  BY <1>1, <1>2, <1>5 DEF Good, Plan, Planned, Serves, Uart, Starting, U
<1>10. Answering'
  BY <1>1, <1>2, <1>5 DEF Good, Answering, U
<1>11. Raised(pipes)'
  <2>1. ASSUME NEW a \in pipes'.alloc, pipes'.mem[a].raised
        PROVE  \/ pc = "wait" /\ endp = a /\ own # -1 /\ pipes'.mem[a].iCountRW = own
               \/ Key(pipes', a) = <<"out", "BULK">> /\ (pc = "close" \/ Uart)
    BY <1>1, <2>1 DEF Good, Raised
  <2> QED
    BY <1>2, <2>1 DEF Raised, Uart
<1>12. Flow'
  BY <1>1, <1>2, <1>6 DEF Good, Flow, Open
<1> QED
  BY <1>7, <1>8, <1>9, <1>10, <1>11, <1>12 DEF Good

(* The second one is submitted again on its pipe, after the callback has   *)
(* brought the table to p.                                                 *)
LEMMA AgainKeeps ==
  ASSUME Types, Good, ~badAccess, NEW q \in Pipe, transfers[q] # <<>>,
         NEW p \in Table, Rows(p, slot),
         pipes.alloc \subseteq p.alloc, \A a \in pipes.alloc : p.mem[a] = pipes.mem[a],
         \A a \in p.alloc : a \notin pipes.alloc => ~p.mem[a].raised,
         NEW c \in Call, c.cb = Head(transfers[q]).cb, c.cb \notin Waited,
         ~Head(transfers[q]).stale => <<c.ep, c.type>> = q,
         c.cb = "Callback_BulkInp" => ~Head(transfers[q]).closed,
         NEW o \in GetCreatePipe(p, c.ep, c.type), NEW ok \in BOOLEAN, NEW bad,
         Submit(c, o, Pop(transfers, q), ok, bad), ~bad => ~Head(transfers[q]).stale,
         wBytes' \in 0 .. MaxParts, UNCHANGED <<device, pc, todo, slot, answer>>
  PROVE  Keeps
<1> DEFINE T == transfers
           U == Pop(transfers, q)
           t == Head(transfers[q])
           x == Transfer(c, o)
           k == <<c.ep, c.type>>
<1>1. Types /\ Good /\ T \in Queues /\ slot \in Nat
  BY DEF Types, Queues
<1>2. UNCHANGED <<chip, plugged, iFlags, context, opens, pc, todo, slot, endp, own>>
  BY DEF device, answer
<1>3. U \in Queues /\ t = T[q][1] /\ 1 \in DOMAIN T[q] /\ t \in Pending
  BY <1>1, Popped
<1>4. /\ pipes' \in Table /\ transfers' \in Queues /\ (ok => x \in Pending)
      /\ transfers' = IF ok THEN Push(U, k, x) ELSE U
  <2> HIDE DEF U
  <2>1. Submit(c, o, U, ok, bad)
    BY DEF U
  <2> QED
    BY <1>1, <1>3, <2>1, SubmitTypes DEF Sent
<1>5. Types'
  BY <1>1, <1>2, <1>4 DEF Types, Queues
<1> SUFFICES ASSUME ~badAccess', Lost' => Early PROVE Good'
  BY <1>5 DEF Keeps
<1>6. ~bad /\ ~t.stale /\ k = q /\ (o.endp # NULL => o.live)
  BY DEF Submit
<1>7. /\ Live(U, pipes) /\ Roles(U) /\ Receivers(U) /\ OneAsked(U)
      /\ (NoReceiver(T) => NoReceiver(U)) /\ (NoneAsked(T) => NoneAsked(U)) /\ AskedOf(U, endp)
  BY <1>1, PopKeeps DEF Good, Answering
<1>8. /\ t.rec \in pipes.alloc /\ "PRESENCE" \in iFlags
      /\ Serves(c.cb, q) /\ (pc = "close" \/ Uart)
  BY <1>1, <1>3, <1>6 DEF Good, Live, Roles, Flow
<1>9. c.cb = "Callback_BulkInp" => ~NoReceiver(T) /\ NoReceiver(U)
  <2>1. c.cb = "Callback_BulkInp" => Receiver(t)
    BY DEF Receiver
  <2>2. Receivers(T) /\ Receiver(t) => NoReceiver(U)
    BY <1>1, PopKeeps
  <2> QED
    BY <1>1, <1>3, <2>1, <2>2 DEF Good, NoReceiver
<1>10. Live(U, p)
  BY <1>7 DEF Live, Key
<1> HIDE DEF U, x
<1>11. /\ Rows(pipes', slot) /\ Live(transfers', pipes') /\ (ok => o.live)
       /\ o.live => o.endp \in pipes'.alloc /\ Key(pipes', o.endp) = k
       /\ p.alloc \subseteq pipes'.alloc
       /\ \A a \in p.alloc : /\ Key(pipes', a) = Key(p, a)
                             /\ a # o.endp => pipes'.mem[a] = p.mem[a]
       /\ \A a \in pipes'.alloc : pipes'.mem[a].raised => a \in p.alloc /\ p.mem[a].raised
  <2>1. Submit(c, o, U, ok, bad)
    BY DEF U
  <2>2. slot # 0 => pc = "close"
    BY <1>1 DEF Good, Flow
  <2>3. slot = 0 \/ o.pipes.apPipes = p.apPipes
    <3> SUFFICES ASSUME slot # 0, o.pipes.apPipes # p.apPipes PROVE FALSE
      OBVIOUS
    <3>1. <<c.ep, c.type>> \in Pipe /\ c.ep \in EP /\ c.type \in Kind
      BY CallPipe
    <3>2. /\ t.rec \in o.pipes.alloc
          /\ \A i \in DOMAIN o.pipes.apPipes : o.pipes.apPipes[i] # t.rec
      BY <1>1, <1>8, <3>1, PipeLoses
    <3>3. pipes'.apPipes = o.pipes.apPipes /\ pipes'.alloc = o.pipes.alloc
      <4>1. o.pipes \in Table /\ (o.live => o.endp \in Addr)
        BY <1>1, <3>1, PipeTypes
      <4> QED
        BY <2>1, <4>1, SubmitPipes DEF Touched
    <3>4. Lost'
      BY <3>2, <3>3 DEF Lost
    <3> QED
      BY <2>2, <3>4 DEF Early
  <2> QED
    BY <1>1, <1>3, <1>10, <2>1, <2>3, SubmitKeeps
<1>12. x.cb = c.cb /\ x.rec = o.endp /\ ~x.closed /\ (x.stale <=> ~o.live)
  BY DEF Transfer, x
<1>13. Receiver(x) => c.cb = "Callback_BulkInp"
  BY <1>12 DEF Receiver
<1>14. ~Asked(x)
  BY <1>12 DEF Asked
<1>15. /\ Roles(transfers') /\ Receivers(transfers') /\ OneAsked(transfers')
       /\ NoReceiver(T) => NoReceiver(transfers')
       /\ NoneAsked(T) => NoneAsked(transfers')
       /\ AskedOf(transfers', endp)
  <2>1. CASE ok
    <3>1. transfers' = Push(U, q, x) /\ x \in Pending /\ ~x.stale
      BY <1>4, <1>6, <1>11, <1>12, <2>1
    <3> QED
      BY <1>3, <1>7, <1>8, <1>9, <1>12, <1>13, <1>14, <3>1, PushKeeps
  <2>2. CASE ~ok
    BY <1>4, <1>7, <2>2
  <2> QED
    BY <2>1, <2>2
<1>16. Rows(pipes, slot)' /\ Live(transfers, pipes)'
  BY <1>2, <1>11
<1>17. Roles(transfers)' /\ Receivers(transfers)' /\ OneAsked(transfers)'
  BY <1>2, <1>15 DEF Roles, Serves, Uart, Receivers, OneAsked, Asked, Receiver
<1>18. Plan' /\ Starting'
  BY <1>1, <1>2, <1>15 DEF Good, Plan, Planned, Serves, Uart, Starting
<1>19. \A a \in pipes.alloc : a \in pipes'.alloc /\ Key(pipes', a) = Key(pipes, a)
  BY <1>11 DEF Key
<1>20. Answering'
  BY <1>1, <1>2, <1>15, <1>19 DEF Good, Answering
<1>21. Raised(pipes)'
  <2>1. ASSUME NEW a \in pipes'.alloc, pipes'.mem[a].raised
        PROVE  \/ pc = "wait" /\ endp = a /\ own # -1 /\ pipes'.mem[a].iCountRW = own
               \/ Key(pipes', a) = <<"out", "BULK">> /\ (pc = "close" \/ Uart)
    <3>1. a \in pipes.alloc /\ pipes.mem[a].raised
      BY <1>11, <2>1
    <3>2. CASE pc = "wait" /\ endp = a /\ own # -1 /\ pipes.mem[a].iCountRW = own
      <4>1. /\ todo # <<>> /\ todo[1] # MakeContext /\ todo[1].wait
            /\ Key(pipes, a) = <<todo[1].ep, todo[1].type>>
        BY <1>1, <3>2 DEF Good, Answering, Flow
      <4>2. Planned(todo[1])
        <5>1. Len(todo) \in Nat \ {0}
          BY <1>1, <4>1, EmptySeq DEF Types
        <5> QED
          BY <1>1, <4>1, <5>1 DEF Types, Good, Plan
      <4>3. Key(pipes, a) # q
        BY <1>8, <3>2, <4>1, <4>2 DEF Planned, Serves
      <4>4. a \in Addr /\ a # NULL
        BY <1>1, <3>1, SessionAssumption DEF Types, Table
      <4>5. a # o.endp
        BY <1>6, <1>11, <1>19, <3>1, <4>3, <4>4
      <4> QED
        BY <1>11, <3>1, <3>2, <4>5
    <3>3. CASE Key(pipes, a) = <<"out", "BULK">> /\ (pc = "close" \/ Uart)
      BY <1>19, <3>1, <3>3
    <3> QED
      BY <1>1, <3>1, <3>2, <3>3 DEF Good, Raised
  <2> QED
    BY <1>2, <2>1 DEF Raised, Uart
<1>22. Flow'
  BY <1>1, <1>2, <1>8 DEF Good, Flow, Open
<1> QED
  BY <1>16, <1>17, <1>18, <1>20, <1>21, <1>22 DEF Good

(* A callback that tells the program: the record a gets the count or the   *)
(* event, all else is kept.                                                *)
Told(p, r, a) ==
    /\ r.apPipes = p.apPipes /\ r.alloc = p.alloc
    /\ \A b \in Addr : /\ Key(r, b) = Key(p, b)
                       /\ r.mem[b].pEvent <=> p.mem[b].pEvent
                       /\ b # a => r.mem[b] = p.mem[b]

LEMMA CountKeeps ==
  ASSUME NEW p \in Table, NEW a \in Addr, NEW n \in Nat
  PROVE  /\ Count(p, a, n) \in Table /\ Told(p, Count(p, a, n), a)
         /\ Count(p, a, n).mem[a].iCountRW = n
<1> DEFINE x == [p.mem[a] EXCEPT !.iCountRW = n]
           r == Count(p, a, n)
<1>1. p.mem \in [Addr -> Record] /\ p.mem[a] \in Record
  BY DEF Table
<1>2. /\ x \in Record /\ x.iCountRW = n /\ x.iEP = p.mem[a].iEP /\ x.iType = p.mem[a].iType
      /\ x.pEvent <=> p.mem[a].pEvent
  BY <1>1 DEF Record
<1>3. r = [p EXCEPT !.mem[a] = x]
  BY <1>1 DEF Count, Table
<1> HIDE DEF x, r
<1>4. /\ r \in Table /\ r.apPipes = p.apPipes /\ r.alloc = p.alloc
      /\ r.mem = [p.mem EXCEPT ![a] = x]
  BY <1>1, <1>2, <1>3 DEF Table
<1>5. /\ r.mem[a].iCountRW = n
      /\ \A b \in Addr : /\ r.mem[b].iEP = p.mem[b].iEP /\ r.mem[b].iType = p.mem[b].iType
                         /\ r.mem[b].pEvent <=> p.mem[b].pEvent
                         /\ b # a => r.mem[b] = p.mem[b]
  BY <1>1, <1>2, <1>4
<1> QED
  BY <1>4, <1>5 DEF Key, Told, r

LEMMA RaiseKeeps ==
  ASSUME NEW p \in Table, NEW a \in Addr
  PROVE  /\ Raise(p, a) \in Table /\ Told(p, Raise(p, a), a)
         /\ Raise(p, a).mem[a].iCountRW = p.mem[a].iCountRW
<1> DEFINE x == [p.mem[a] EXCEPT !.raised = TRUE]
           r == [p EXCEPT !.mem[a].raised = TRUE]
<1>1. p.mem \in [Addr -> Record] /\ p.mem[a] \in Record
  BY DEF Table
<1>2. /\ x \in Record /\ x.iEP = p.mem[a].iEP /\ x.iType = p.mem[a].iType
      /\ x.iCountRW = p.mem[a].iCountRW
      /\ x.pEvent <=> p.mem[a].pEvent
  BY <1>1 DEF Record
<1>3. r = [p EXCEPT !.mem[a] = x]
  BY <1>1 DEF Table
<1>4. Raise(p, a) = r \/ Raise(p, a) = p
  BY DEF Raise
<1> HIDE DEF x, r
<1>5. /\ r \in Table /\ r.apPipes = p.apPipes /\ r.alloc = p.alloc
      /\ r.mem = [p.mem EXCEPT ![a] = x]
  BY <1>1, <1>2, <1>3 DEF Table
<1>6. /\ r.mem[a].iCountRW = p.mem[a].iCountRW
      /\ \A b \in Addr : /\ r.mem[b].iEP = p.mem[b].iEP /\ r.mem[b].iType = p.mem[b].iType
                         /\ r.mem[b].pEvent <=> p.mem[b].pEvent
                         /\ b # a => r.mem[b] = p.mem[b]
  BY <1>1, <1>2, <1>5
<1>7. Told(p, r, a)
  BY <1>5, <1>6 DEF Key, Told
<1>8. Told(p, p, a)
  BY DEF Told
<1> QED
  BY <1>4, <1>5, <1>6, <1>7, <1>8

LEMMA ToldRows ==
  ASSUME NEW p \in Table, NEW r \in Table, NEW a, NEW s \in Nat, Told(p, r, a), Rows(p, s)
  PROVE  Rows(r, s)
<1>1. p.alloc \subseteq Addr /\ r.alloc = p.alloc /\ r.apPipes = p.apPipes
  BY DEF Table, Told
<1>2. \A b \in r.alloc : r.mem[b].pEvent
  BY <1>1 DEF Rows, Told
<1>3. \A b, d \in r.alloc : Key(r, b) = Key(r, d) => b = d
  BY <1>1 DEF Rows, Told
<1> QED
  BY <1>1, <1>2, <1>3 DEF Rows

(* The transfer of the thread that waits.                                  *)
LEMMA CtrlStep ==
  ASSUME Types, Good, ~badAccess, NEW q \in Busy, NEW n \in 0 .. 1, Callback_Ctrl(q, n)
  PROVE  Keeps
<1> DEFINE t == Head(transfers[q])
           T == transfers
           U == Pop(transfers, q)
           m == Count(pipes, t.rec, n)
<1>1. /\ Types /\ Good /\ T \in Queues /\ pipes \in Table /\ slot \in Nat
      /\ q \in Pipe /\ T[q] # <<>>
  BY DEF Types, Queues, Busy
<1>2. /\ UNCHANGED <<chip, plugged, iFlags, context, opens, wBytes, pc, todo, slot, endp>>
      /\ t.cb \in Waited /\ transfers' = U /\ own' = n /\ (badAccess' <=> t.stale)
      /\ pipes' = Raise(m, t.rec)
  BY DEF Callback_Ctrl, device, Waited, Rest, Pop
<1>3. U \in Queues /\ t = T[q][1] /\ 1 \in DOMAIN T[q] /\ t \in Pending /\ t.rec \in Addr
  BY <1>1, Popped DEF Pending
<1>4. m \in Table /\ Told(pipes, m, t.rec) /\ m.mem[t.rec].iCountRW = n
  <2>1. n \in Nat
    OBVIOUS
  <2> HIDE DEF t
  <2> QED
    BY <1>1, <1>3, <2>1, CountKeeps
<1>5. /\ pipes' \in Table /\ pipes'.mem[t.rec].iCountRW = n /\ pipes'.apPipes = pipes.apPipes
      /\ pipes'.alloc = pipes.alloc /\ Told(pipes, pipes', t.rec)
      /\ \A b \in Addr : /\ Key(pipes', b) = Key(pipes, b)
                         /\ b # t.rec => pipes'.mem[b] = pipes.mem[b]
  <2> HIDE DEF m, t
  <2>1. pipes' \in Table /\ Told(m, pipes', t.rec) /\ pipes'.mem[t.rec].iCountRW = n
    BY <1>2, <1>3, <1>4, RaiseKeeps
  <2> QED
    BY <1>4, <2>1 DEF Told
<1> HIDE DEF m
<1>6. Types'
  BY <1>1, <1>2, <1>3, <1>5 DEF Types, Queues
<1> SUFFICES ASSUME ~badAccess', Lost' => Early PROVE Good'
  BY <1>6 DEF Keeps
<1>7. Asked(t) /\ t.rec \in pipes.alloc
  BY <1>1, <1>2, <1>3 DEF Asked, Good, Live
<1>8. pc = "wait" /\ endp = t.rec /\ "PRESENCE" \in iFlags
  BY <1>1, <1>3, <1>7 DEF Good, Answering, NoneAsked, AskedOf, Flow
<1>9. /\ Live(U, pipes) /\ Roles(U) /\ Receivers(U) /\ OneAsked(U)
      /\ (NoReceiver(T) => NoReceiver(U)) /\ NoneAsked(U)
  BY <1>1, <1>7, PopKeeps DEF Good
<1> HIDE DEF U, t
<1>10. pipes.alloc \subseteq Addr
  BY <1>1 DEF Table
<1>11. Rows(pipes, slot)' /\ Live(transfers, pipes)'
  <2>1. Rows(pipes', slot)
    BY <1>1, <1>5, ToldRows DEF Good
  <2>2. Live(U, pipes')
    BY <1>5, <1>9, <1>10 DEF Live
  <2> QED
    BY <1>2, <2>1, <2>2
<1>12. Roles(transfers)' /\ Receivers(transfers)' /\ OneAsked(transfers)'
  BY <1>2, <1>9 DEF Roles, Serves, Uart, Receivers, OneAsked, Asked, Receiver
<1>13. Plan' /\ Starting'
  BY <1>1, <1>2, <1>9 DEF Good, Plan, Planned, Serves, Uart, Starting
<1>14. Answering'
  BY <1>1, <1>2, <1>5, <1>9, <1>10 DEF Good, Answering, NoneAsked, AskedOf
<1>15. Raised(pipes)'
  <2>1. ASSUME NEW a \in pipes'.alloc, pipes'.mem[a].raised
        PROVE  \/ pc = "wait" /\ endp = a /\ n # -1 /\ pipes'.mem[a].iCountRW = n
               \/ Key(pipes', a) = <<"out", "BULK">> /\ (pc = "close" \/ Uart)
    <3>1. CASE a = t.rec
      BY <1>5, <1>8, <3>1
    <3>2. CASE a # t.rec
      BY <1>1, <1>5, <1>8, <1>10, <2>1, <3>2 DEF Good, Raised
    <3> QED
      BY <3>1, <3>2
  <2> QED
    BY <1>2, <2>1 DEF Raised, Uart
<1>16. Flow'
  BY <1>1, <1>2, <1>5, <1>8 DEF Good, Flow, Open
<1> QED
  BY <1>11, <1>12, <1>13, <1>14, <1>15, <1>16 DEF Good

(* A part of a packet has been sent.                                       *)
LEMMA OutStep ==
  ASSUME Types, Good, ~badAccess, NEW q \in Busy, NEW n \in 0 .. 1, Callback_BulkOut(q, n)
  PROVE  Keeps
<1> DEFINE t == Head(transfers[q])
           left == IF n > 0 THEN wBytes - 1 ELSE wBytes
           c == Bulk(pipes.mem[t.rec].iEP, "Callback_BulkOut", FALSE)
<1>1. /\ Types /\ Good /\ transfers \in Queues /\ pipes \in Table /\ slot \in Nat
      /\ q \in Pipe /\ transfers[q] # <<>> /\ wBytes \in 0 .. MaxParts
  BY DEF Types, Queues, Busy
<1>2. /\ UNCHANGED <<device, pc, todo, slot, answer>> /\ t.cb = "Callback_BulkOut"
      /\ Rest(q) = Pop(transfers, q)
  BY DEF Callback_BulkOut, Rest, Pop
<1>3. /\ t = transfers[q][1] /\ 1 \in DOMAIN transfers[q] /\ t \in Pending /\ t.rec \in Addr
  BY <1>1, Popped DEF Pending
<1>4. pipes.mem[t.rec].iEP \in EP
  BY <1>1, <1>3 DEF Table, Record, EP
<1>5. c \in Call /\ c.ep = pipes.mem[t.rec].iEP /\ c.type = "BULK" /\ c.cb = "Callback_BulkOut"
  BY <1>4, CallTypes DEF Bulk, Handler
<1>6. ~t.stale => /\ t.rec \in pipes.alloc /\ Key(pipes, t.rec) = q /\ q = <<"out", "BULK">>
                  /\ pc = "close" \/ Uart
  BY <1>1, <1>2, <1>3 DEF Good, Live, Roles, Serves, Waited
<1>7. ~t.stale => <<c.ep, c.type>> = q
  <2>1. ~t.stale => pipes.mem[t.rec].iEP = "out"
    BY <1>6 DEF Key
  <2> HIDE DEF t, c
  <2> QED
    BY <1>5, <1>6, <2>1
<1>8. CASE left > 0
  <2>1. PICK o \in GetCreatePipe(pipes, c.ep, "BULK"), ok \in BOOLEAN :
           Submit(c, o, Rest(q), ok, t.stale)
    BY <1>8 DEF Callback_BulkOut
  <2>2. wBytes' \in 0 .. MaxParts
    <3>1. wBytes' = left
      BY <1>8 DEF Callback_BulkOut
    <3> QED
      BY <1>1, <1>8, <3>1, SessionAssumption
  <2>3. Submit(c, o, Pop(transfers, q), ok, t.stale) /\ o \in GetCreatePipe(pipes, c.ep, c.type)
    BY <1>2, <1>5, <2>1
  <2>4. c.cb = t.cb /\ c.cb \notin Waited /\ c.cb # "Callback_BulkInp" /\ Rows(pipes, slot)
    BY <1>1, <1>2, <1>5 DEF Waited, Good
  <2> HIDE DEF c, left
  <2> QED
    BY <1>1, <1>2, <1>5, <1>7, <2>2, <2>3, <2>4, AgainKeeps
<1>9. CASE ~(left > 0)
  <2>1. /\ pipes' = Raise(pipes, t.rec) /\ transfers' = Pop(transfers, q)
        /\ wBytes' = 0 /\ (badAccess' <=> t.stale)
    BY <1>2, <1>9 DEF Callback_BulkOut
  <2>2. wBytes' \in 0 .. MaxParts
    BY <2>1, SessionAssumption
  <2>3. /\ pipes' \in Table /\ Told(pipes, pipes', t.rec)
        /\ pipes'.mem[t.rec].iCountRW = pipes.mem[t.rec].iCountRW
    <3> HIDE DEF t
    <3> QED
      BY <1>1, <1>3, <2>1, RaiseKeeps
  <2>4. Rows(pipes', slot) /\ pipes.alloc \subseteq Addr
    <3> HIDE DEF t
    <3> QED
      BY <1>1, <2>3, ToldRows DEF Good, Table
  <2>5. ASSUME ~t.stale, NEW a \in pipes'.alloc, pipes'.mem[a].raised
        PROVE  \/ /\ a \in pipes.alloc /\ pipes.mem[a].raised
                  /\ pipes'.mem[a].iCountRW = pipes.mem[a].iCountRW
               \/ Key(pipes', a) = <<"out", "BULK">> /\ (pc = "close" \/ Uart)
    <3> HIDE DEF t
    <3> QED
      BY <1>6, <2>3, <2>4, <2>5 DEF Told
  <2>6. pipes'.alloc = pipes.alloc /\ \A a \in pipes.alloc : Key(pipes', a) = Key(pipes, a)
    BY <2>3, <2>4 DEF Told
  <2> HIDE DEF c, left
  <2> QED
    BY <1>1, <1>2, <2>1, <2>2, <2>3, <2>4, <2>5, <2>6, DropKeeps
<1> QED
  BY <1>8, <1>9

(* A read has been completed: the next one is submitted only on a device   *)
(* that is open, and not by a transfer the stack has closed.               *)
LEMMA RereadKeeps ==
  ASSUME Types, Good, ~badAccess, NEW q \in Busy, NEW p \in Table, NEW c \in Call,
         NEW status \in Status(q), NEW bad, Reread(q, p, c, status, bad),
         UNCHANGED <<device, wBytes, pc, todo, slot, answer>>,
         c.cb = Head(transfers[q]).cb, c.cb \notin Waited,
         ~Head(transfers[q]).stale => <<c.ep, c.type>> = q,
         ~bad => ~Head(transfers[q]).stale,
         \/ /\ Rows(p, slot) /\ pipes.alloc \subseteq p.alloc
            /\ \A a \in pipes.alloc : p.mem[a] = pipes.mem[a]
            /\ \A a \in p.alloc : a \notin pipes.alloc => ~p.mem[a].raised
         \/ /\ slot # 0
            /\ \A a \in pipes.alloc : /\ a \in p.alloc
                                      /\ \A i \in DOMAIN p.apPipes : p.apPipes[i] # a
  PROVE  Keeps
<1> DEFINE t == Head(transfers[q])
<1>1. /\ Types /\ Good /\ q \in Pipe /\ transfers[q] # <<>> /\ wBytes' \in 0 .. MaxParts
      /\ Rest(q) = Pop(transfers, q) /\ UNCHANGED <<device, pc, todo, slot, answer>>
      /\ slot \in Nat
  BY DEF Types, Busy, Rest, Pop
<1>2. CASE Restartable(status)
  <2>1. PICK o \in GetCreatePipe(p, c.ep, c.type), ok \in BOOLEAN :
           Submit(c, o, Pop(transfers, q), ok, bad)
    BY <1>1, <1>2 DEF Reread
  <2>2. slot = 0 /\ ~t.closed
    BY <1>1, <1>2 DEF Restartable, Good, Flow, Open, Status
  <2> QED
    BY <1>1, <2>1, <2>2, AgainKeeps
<1>3. CASE ~Restartable(status)
  <2>1. pipes' = p /\ transfers' = Pop(transfers, q) /\ (badAccess' <=> bad)
    BY <1>1, <1>3 DEF Reread
  <2>2. ~badAccess' /\ (Lost' => Early) =>
           /\ ~t.stale /\ Rows(pipes', slot) /\ pipes.alloc \subseteq pipes'.alloc
           /\ \A a \in pipes.alloc : Key(pipes', a) = Key(pipes, a)
           /\ \A a \in pipes'.alloc : pipes'.mem[a].raised =>
                 /\ a \in pipes.alloc /\ pipes.mem[a].raised
                 /\ pipes'.mem[a].iCountRW = pipes.mem[a].iCountRW
    <3> SUFFICES ASSUME ~badAccess', Lost' => Early
                 PROVE  /\ ~t.stale /\ Rows(pipes', slot) /\ pipes.alloc \subseteq pipes'.alloc
                        /\ \A a \in pipes.alloc : Key(pipes', a) = Key(pipes, a)
                        /\ \A a \in pipes'.alloc : pipes'.mem[a].raised =>
                              /\ a \in pipes.alloc /\ pipes.mem[a].raised
                              /\ pipes'.mem[a].iCountRW = pipes.mem[a].iCountRW
      OBVIOUS
    <3>1. ~t.stale
      BY <2>1
    <3>2. t.rec \in pipes.alloc
      <4>1. t = transfers[q][1] /\ 1 \in DOMAIN transfers[q]
        BY <1>1, Popped DEF Types, Queues
      <4> QED
        BY <1>1, <3>1, <4>1 DEF Good, Live
    <3>3. ~(slot # 0 /\ \A a \in pipes.alloc : /\ a \in p.alloc
                                             /\ \A i \in DOMAIN p.apPipes : p.apPipes[i] # a)
      <4> SUFFICES ASSUME slot # 0, \A a \in pipes.alloc : /\ a \in p.alloc
                                             /\ \A i \in DOMAIN p.apPipes : p.apPipes[i] # a
                   PROVE  FALSE
        OBVIOUS
      <4>1. Lost'
        BY <2>1, <3>2 DEF Lost
      <4>2. ~Early
        BY <1>1 DEF Early, Good, Flow, Types
      <4> QED
        BY <4>1, <4>2
    <3> QED
      BY <2>1, <3>1, <3>3 DEF Key
  <2> QED
    BY <1>1, <2>1, <2>2, DropKeeps
<1> QED
  BY <1>2, <1>3

(* The callback of the receiver.                                           *)
LEMMA InpStep ==
  ASSUME Types, Good, ~badAccess, NEW q \in Busy, NEW status \in Status(q),
         NEW changed \in BOOLEAN, Callback_BulkInp(q, status, changed)
  PROVE  Keeps
<1> DEFINE t == Head(transfers[q])
           c == Bulk(pipes.mem[t.rec].iEP, "Callback_BulkInp", FALSE)
<1>1. /\ Types /\ Good /\ transfers \in Queues /\ pipes \in Table /\ slot \in Nat
      /\ q \in Pipe /\ transfers[q] # <<>> /\ Rows(pipes, slot)
  BY DEF Types, Queues, Busy, Good
<1>2. UNCHANGED <<device, wBytes, pc, todo, slot, answer>> /\ t.cb = "Callback_BulkInp"
  BY DEF Callback_BulkInp
<1>3. t = transfers[q][1] /\ 1 \in DOMAIN transfers[q] /\ t \in Pending /\ t.rec \in Addr
  BY <1>1, Popped DEF Pending
<1>4. pipes.mem[t.rec].iEP \in EP
  BY <1>1, <1>3 DEF Table, Record, EP
<1>5. c \in Call /\ c.ep = pipes.mem[t.rec].iEP /\ c.type = "BULK" /\ c.cb = "Callback_BulkInp"
  BY <1>4, CallTypes DEF Bulk, Handler
<1>6. ~t.stale => Key(pipes, t.rec) = q /\ q = <<"in", "BULK">>
  BY <1>1, <1>2, <1>3 DEF Good, Live, Roles, Serves, Waited
<1>7. ~t.stale => <<c.ep, c.type>> = q
  <2>1. ~t.stale => pipes.mem[t.rec].iEP = "in"
    BY <1>6 DEF Key
  <2> HIDE DEF t, c
  <2> QED
    BY <1>5, <1>6, <2>1
<1>8. c.cb = t.cb /\ c.cb \notin Waited /\ "80" \in EP /\ "INTR" \in Kind
  BY <1>2, <1>5 DEF Waited, EP, Kind
<1>9. CASE chip = "FTDI" /\ changed
  <2>1. PICK o \in GetCreatePipe(pipes, "80", "INTR") :
           Reread(q, o.pipes, c, status, t.stale \/ ~o.live)
    BY <1>9 DEF Callback_BulkInp
  <2>2. o.pipes \in Table
    BY <1>1, <1>8, PipeTypes
  <2>3. \/ Rows(o.pipes, slot) /\ Grown(pipes, o, "80", "INTR")
        \/ /\ slot # 0
           /\ \A a \in pipes.alloc : /\ a \in o.pipes.alloc
                                     /\ \A i \in DOMAIN o.pipes.apPipes : o.pipes.apPipes[i] # a
    BY <1>1, <1>8, PipeGrows, PipeLoses
  <2> DEFINE bad == t.stale \/ ~o.live
             p == o.pipes
  <2>5. Reread(q, p, c, status, bad) /\ (~bad => ~t.stale) /\ p \in Table
    BY <2>1, <2>2
  <2>6. \/ /\ Rows(p, slot) /\ pipes.alloc \subseteq p.alloc
           /\ \A a \in pipes.alloc : p.mem[a] = pipes.mem[a]
           /\ \A a \in p.alloc : a \notin pipes.alloc => ~p.mem[a].raised
        \/ /\ slot # 0
           /\ \A a \in pipes.alloc : /\ a \in p.alloc
                                     /\ \A i \in DOMAIN p.apPipes : p.apPipes[i] # a
    BY <2>3 DEF Grown, Same
  <2> HIDE DEF bad, p, c
  <2> QED
    BY <1>2, <1>5, <1>7, <1>8, <2>5, <2>6, RereadKeeps
<1>10. CASE ~(chip = "FTDI" /\ changed)
  <2>1. Reread(q, pipes, c, status, t.stale)
    BY <1>10 DEF Callback_BulkInp
  <2> HIDE DEF c
  <2> QED
    BY <1>1, <1>2, <1>5, <1>7, <1>8, <2>1, RereadKeeps
<1> QED
  BY <1>9, <1>10

(* The callback of the line status.                                        *)
LEMMA IntrStep ==
  ASSUME Types, Good, ~badAccess, NEW q \in Busy, NEW status \in Status(q),
         Callback_Intr(q, status)
  PROVE  Keeps
<1> DEFINE t == Head(transfers[q])
           ep == pipes.mem[t.rec].iEP
           c == IF chip = "CP210x" THEN Ctrl(ep, "Callback_Intr", FALSE)
                ELSE Bulk(ep, "Callback_Intr", FALSE)
<1>1. /\ Types /\ Good /\ transfers \in Queues /\ pipes \in Table /\ slot \in Nat
      /\ q \in Pipe /\ transfers[q] # <<>> /\ Rows(pipes, slot)
  BY DEF Types, Queues, Busy, Good
<1>2. /\ UNCHANGED <<device, wBytes, pc, todo, slot, answer>> /\ t.cb = "Callback_Intr"
      /\ Reread(q, pipes, c, status, t.stale)
  BY DEF Callback_Intr
<1>3. t = transfers[q][1] /\ 1 \in DOMAIN transfers[q] /\ t \in Pending /\ t.rec \in Addr
  BY <1>1, Popped DEF Pending
<1>4. ep \in EP
  BY <1>1, <1>3 DEF Table, Record, EP
<1>5. /\ c \in Call /\ c.ep = ep /\ c.cb = "Callback_Intr"
      /\ c.type = IF chip = "CP210x" THEN "CTRL" ELSE "BULK"
  <2> HIDE DEF ep
  <2> QED
    BY <1>4, CallTypes DEF Ctrl, Bulk, Handler
<1>6. ~t.stale => /\ Key(pipes, t.rec) = q
                  /\ q = IF chip = "CP210x" THEN <<"80", "CTRL">> ELSE <<"intr", "BULK">>
  BY <1>1, <1>2, <1>3 DEF Good, Live, Roles, Serves, Waited
<1>7. ~t.stale => <<c.ep, c.type>> = q
  <2>1. ~t.stale => ep = IF chip = "CP210x" THEN "80" ELSE "intr"
    BY <1>6 DEF Key
  <2> HIDE DEF t, c, ep
  <2> QED
    BY <1>5, <1>6, <2>1
<1>8. c.cb = t.cb /\ c.cb \notin Waited
  BY <1>2, <1>5 DEF Waited
<1> HIDE DEF c
<1> QED
  BY <1>1, <1>2, <1>5, <1>7, <1>8, RereadKeeps

-----------------------------------------------------------------------------
(* What holds whatever was lost.  A step keeps the types, the program and  *)
(* the rows, and a record that is lost stays so.                           *)
Holds == General' /\ (~badAccess' /\ Lost => Lost')

(* A walk that ends after k rows, and the rows that are kept.              *)
LEMMA PresentWalk ==
  ASSUME NEW p \in Table, NEW k \in 0 .. Len(p.apPipes), Walk(p, k)
  PROVE  /\ Present(p) = 1 .. k
         /\ Shortened(p) \in Table /\ Shortened(p).alloc = p.alloc /\ Shortened(p).mem = p.mem
         /\ Len(Shortened(p).apPipes) = k
         /\ \A i \in 1 .. k : Shortened(p).apPipes[i] = p.apPipes[i] /\ Row(p, i)
<1> DEFINE S == p.apPipes
           U == SubSeq(S, 1, k)
<1>1. S \in Seq(Addr \union {NULL}) /\ Len(S) \in Nat /\ k \in Nat /\ k <= Len(S)
      /\ DOMAIN S = 1 .. Len(S)
  BY DEF Table
<1>2. \A i \in 1 .. k : i \in 1 .. Len(S) /\ S[i] # NULL
  BY <1>1 DEF Walk
<1>3. k < Len(S) => S[k + 1] = NULL
  BY DEF Walk
<1>4. Present(p) = 1 .. k
  <2> HIDE DEF S
  <2>1. Present(p) = LET stops == {i \in DOMAIN S : S[i] = NULL}
                     IN  {i \in DOMAIN S : \A s \in stops : i < s}
    BY DEF Present, S
  <2>2. CASE k = Len(S)
    BY <1>1, <1>2, <2>1, <2>2
  <2>3. CASE k < Len(S)
    <3>1. k + 1 \in DOMAIN S /\ S[k + 1] = NULL
      BY <1>1, <1>3, <2>3
    <3>2. ASSUME NEW i \in Present(p) PROVE i \in 1 .. k
      BY <1>1, <2>1, <3>1
    <3>3. ASSUME NEW i \in 1 .. k PROVE i \in Present(p)
      BY <1>1, <1>2, <2>1
    <3> QED
      BY <3>2, <3>3
  <2>4. k = Len(S) \/ k < Len(S)
    <3>1. k \in Nat /\ Len(S) \in Nat /\ k <= Len(S)
      BY <1>1
    <3> QED
      BY <3>1
  <2> QED
    BY <2>2, <2>3, <2>4
<1>5. Cardinality(Present(p)) = k
  BY <1>1, <1>4, CardInterval
<1>6. U \in Seq(Addr \union {NULL}) /\ Len(U) = k /\ \A i \in 1 .. k : U[i] = S[i]
  <2> HIDE DEF S
  <2>1. \A i \in 1 .. k : S[i] \in Addr \union {NULL}
    BY <1>1, <1>2
  <2>2. U = [i \in 1 .. k |-> S[i]]
    BY <1>1 DEF U
  <2> QED
    BY <1>1, <2>1, <2>2
<1>7. /\ Shortened(p) \in Table /\ Shortened(p).alloc = p.alloc /\ Shortened(p).mem = p.mem
      /\ Shortened(p).apPipes = U
  <2> HIDE DEF U
  <2>1. Shortened(p) = [p EXCEPT !.apPipes = U]
    BY <1>5 DEF Shortened, U
  <2> QED
    BY <1>6, <2>1 DEF Table
<1> QED
  BY <1>1, <1>2, <1>4, <1>6, <1>7 DEF Row

(* A table whose records differ only in counts and events.                 *)
Alike(p, r) == /\ r.apPipes = p.apPipes /\ r.alloc = p.alloc
               /\ \A a \in Addr : /\ Key(r, a) = Key(p, a)
                                  /\ r.mem[a].pEvent <=> p.mem[a].pEvent

LEMMA AlikeSound ==
  ASSUME NEW p \in Table, NEW r, Alike(p, r), Sound(p)
  PROVE  Sound(r) /\ (Loss(p) => Loss(r))
<1>1. p.alloc \subseteq Addr /\ r.apPipes = p.apPipes /\ r.alloc = p.alloc
  BY DEF Table, Alike
<1>2. \A i : Row(r, i) <=> Row(p, i)
  BY <1>1 DEF Row
<1>3. \A i : Row(p, i) => /\ p.apPipes[i] \in r.alloc /\ r.mem[p.apPipes[i]].pEvent
                          /\ Key(r, p.apPipes[i]) = Key(p, p.apPipes[i])
  BY <1>1 DEF Sound, Alike
<1>4. \E k \in 0 .. Len(r.apPipes) : Walk(r, k)
  BY <1>1 DEF Sound, Walk
<1>5. \A i, j : Row(r, i) /\ Row(r, j) /\ Key(r, r.apPipes[i]) = Key(r, r.apPipes[j]) => i = j
  BY <1>1, <1>2, <1>3 DEF Sound
<1>6. \A i : Row(r, i) => r.apPipes[i] \in r.alloc /\ r.mem[r.apPipes[i]].pEvent
  BY <1>1, <1>2, <1>3
<1>7. Sound(r)
  BY <1>4, <1>5, <1>6 DEF Sound
<1>8. Loss(p) => Loss(r)
  BY <1>1 DEF Loss
<1> QED
  BY <1>7, <1>8

LEMMA TouchedSound ==
  ASSUME NEW p \in Table, NEW r, NEW e, Touched(p, r, e) \/ Told(p, r, e), Sound(p)
  PROVE  Sound(r) /\ (Loss(p) => Loss(r))
<1>1. Alike(p, r)
  BY DEF Alike, Touched, Told
<1> QED
  BY <1>1, AlikeSound

(* A table with the first k rows of another, whose records are kept.       *)
LEMMA FewerSound ==
  ASSUME NEW p \in Table, NEW r \in Table, NEW k \in Nat, Sound(p),
         Len(r.apPipes) = k, \A i \in 1 .. k : r.apPipes[i] = p.apPipes[i] /\ Row(p, i),
         r.alloc = p.alloc, \A a \in p.alloc : r.mem[a] = p.mem[a]
  PROVE  Sound(r) /\ (Loss(p) => Loss(r)) /\ \A i : Row(r, i) <=> i \in 1 .. k
<1>1. DOMAIN r.apPipes = 1 .. k /\ DOMAIN p.apPipes = 1 .. Len(p.apPipes) /\ p.alloc \subseteq Addr
  BY DEF Table
<1>2. \A i : Row(r, i) <=> i \in 1 .. k
  BY <1>1 DEF Row
<1>3. \A i \in 1 .. k : /\ r.apPipes[i] \in p.alloc /\ p.mem[r.apPipes[i]].pEvent
                        /\ Key(r, r.apPipes[i]) = Key(p, p.apPipes[i])
  BY DEF Sound, Key
<1>4. Walk(r, k) /\ k \in 0 .. Len(r.apPipes)
  BY <1>2 DEF Walk, Row
<1>5. \A i, j : Row(r, i) /\ Row(r, j) /\ Key(r, r.apPipes[i]) = Key(r, r.apPipes[j]) => i = j
  BY <1>2, <1>3 DEF Sound
<1>6. \A i : Row(r, i) => r.apPipes[i] \in r.alloc /\ r.mem[r.apPipes[i]].pEvent
  BY <1>2, <1>3
<1>7. Loss(p) => Loss(r)
  <2> SUFFICES ASSUME NEW a \in p.alloc, \A i \in DOMAIN p.apPipes : p.apPipes[i] # a PROVE Loss(r)
    BY DEF Loss
  <2>1. \A i \in DOMAIN r.apPipes : r.apPipes[i] # a
    BY <1>1 DEF Row
  <2> QED
    BY <2>1 DEF Loss
<1>8. \E i \in 0 .. Len(r.apPipes) : Walk(r, i)
  BY <1>4
<1>9. Sound(r)
  BY <1>5, <1>6, <1>8 DEF Sound
<1> QED
  BY <1>2, <1>7, <1>9

(* A record more, in a row of its own.                                     *)
LEMMA MoreSound ==
  ASSUME NEW p \in Table, NEW r \in Table, NEW a \in Addr \ p.alloc, Sound(p),
         \A i : Row(p, i) <=> i \in 1 .. Len(p.apPipes),
         r.apPipes = Append(p.apPipes, a), r.alloc = p.alloc \union {a},
         \A b \in p.alloc : r.mem[b] = p.mem[b], r.mem[a].pEvent,
         \A i \in 1 .. Len(p.apPipes) : Key(p, p.apPipes[i]) # Key(r, a)
  PROVE  Sound(r) /\ (Loss(p) => Loss(r))
<1> DEFINE n == Len(p.apPipes)
           S == r.apPipes
<1>1. /\ p.apPipes \in Seq(Addr \union {NULL}) /\ n \in Nat /\ p.alloc \subseteq Addr
      /\ DOMAIN p.apPipes = 1 .. n
  BY DEF Table
<1>2. /\ Len(S) = n + 1 /\ S[n + 1] = a /\ \A i \in 1 .. n : S[i] = p.apPipes[i]
      /\ DOMAIN S = 1 .. n + 1
  BY <1>1
<1> HIDE DEF n, S
<1>3. a # NULL /\ n + 1 \in Nat
  BY <1>1, SessionAssumption
<1>4. \A i : i \in 1 .. n + 1 <=> i \in 1 .. n \/ i = n + 1
  BY <1>1
<1>5. \A i \in 1 .. n : /\ S[i] # NULL /\ S[i] \in p.alloc /\ p.mem[S[i]].pEvent
                        /\ Key(r, S[i]) = Key(p, p.apPipes[i])
  BY <1>1, <1>2 DEF Sound, Key, Row, n
<1>6. \A i : Row(r, i) <=> i \in 1 .. n + 1
  BY <1>2, <1>3, <1>4, <1>5 DEF Row, S
<1>7. Walk(r, n + 1) /\ n + 1 \in 0 .. Len(r.apPipes)
  BY <1>2, <1>3, <1>4, <1>5 DEF Walk, S
<1>8. \A i : Row(r, i) => r.apPipes[i] \in r.alloc /\ r.mem[r.apPipes[i]].pEvent
  BY <1>2, <1>4, <1>5, <1>6 DEF S
<1>9. \A i, j \in 1 .. n : Key(r, S[i]) = Key(r, S[j]) => i = j
  BY <1>5 DEF Sound, n
<1>10. \A i \in 1 .. n : Key(r, S[i]) # Key(r, a)
  BY <1>5 DEF n
<1>11. \A i, j : Row(r, i) /\ Row(r, j) /\ Key(r, r.apPipes[i]) = Key(r, r.apPipes[j]) => i = j
  BY <1>2, <1>4, <1>6, <1>9, <1>10 DEF S
<1>12. Loss(p) => Loss(r)
  <2> SUFFICES ASSUME NEW b \in p.alloc, \A i \in DOMAIN p.apPipes : p.apPipes[i] # b PROVE Loss(r)
    BY DEF Loss
  <2>1. \A i \in 1 .. n + 1 : S[i] # b
    BY <1>1, <1>2, <1>4
  <2> QED
    BY <1>2, <2>1 DEF Loss, S
<1> QED
  BY <1>7, <1>8, <1>11, <1>12 DEF Sound

LEMMA PipeSound ==
  ASSUME NEW p \in Table, Sound(p), NEW ep \in EP, NEW type \in Kind,
         NEW o \in GetCreatePipe(p, ep, type)
  PROVE  /\ o.pipes \in Table /\ o.endp \in Addr \union {NULL}
         /\ o.live => o.open /\ o.endp \in Addr
         /\ o.open => o.endp \in Addr
         /\ Sound(o.pipes) /\ (Loss(p) => Loss(o.pipes))
<1> DEFINE kept == Shortened(p)
           failed == Fault(Shortened(p))
<1>1. PICK k \in 0 .. Len(p.apPipes) : Walk(p, k)
  BY DEF Sound
<1>2. p.alloc \subseteq Addr /\ k \in Nat /\ DOMAIN p.apPipes = 1 .. Len(p.apPipes)
      /\ Len(p.apPipes) \in Nat
  BY DEF Table
<1>3. /\ Present(p) = 1 .. k /\ kept \in Table /\ kept.alloc = p.alloc /\ kept.mem = p.mem
      /\ Len(kept.apPipes) = k /\ \A i \in 1 .. k : kept.apPipes[i] = p.apPipes[i] /\ Row(p, i)
  BY <1>1, PresentWalk
<1>4. /\ failed \in Table /\ failed.alloc = p.alloc /\ failed.mem = p.mem
      /\ failed.apPipes = kept.apPipes
  BY <1>3, TableFault
<1> HIDE DEF kept, failed
<1>5. Sound(kept) /\ (Loss(p) => Loss(kept)) /\ \A i : Row(kept, i) <=> i \in 1 .. k
  BY <1>2, <1>3, FewerSound
<1>6. Sound(failed) /\ (Loss(p) => Loss(failed)) /\ \A i : Row(failed, i) <=> i \in 1 .. k
  BY <1>2, <1>3, <1>4, FewerSound
<1>7. CASE Matches(p, ep, type) # {}
  <2>1. PICK i \in Matches(p, ep, type) : o = Result(p.apPipes[i], TRUE, TRUE, p)
    BY <1>7 DEF GetCreatePipe
  <2>2. Row(p, i)
    BY <1>3 DEF Matches
  <2>3. p.apPipes[i] \in Addr
    BY <1>2, <2>2 DEF Sound
  <2> QED
    BY <2>1, <2>3 DEF Result
<1>8. CASE Matches(p, ep, type) = {}
  <2>1. \/ o \in {Result(NULL, FALSE, FALSE, Fault(p)), Result(NULL, FALSE, FALSE, failed)}
        \/ \E a \in Free(p) : o = Result(a, FALSE, FALSE, failed)
        \/ \E a \in Free(p) : o = Result(a, FALSE, TRUE, Filled(failed, a, ep, type, FALSE))
        \/ \E a \in Free(p) : o = Result(a, TRUE, TRUE, Added(Filled(kept, a, ep, type, TRUE), a))
    BY <1>8 DEF GetCreatePipe, kept, failed
  <2>2. \A a \in Free(p) : a \in Addr \ p.alloc
    BY DEF Free
  <2>3. CASE o \in {Result(NULL, FALSE, FALSE, Fault(p)), Result(NULL, FALSE, FALSE, failed)}
    <3>1. Sound(Fault(p)) /\ (Loss(p) => Loss(Fault(p))) /\ Fault(p) \in Table
      <4>1. /\ Fault(p) \in Table /\ Fault(p).apPipes = p.apPipes
            /\ Fault(p).alloc = p.alloc /\ Fault(p).mem = p.mem
        BY TableFault
      <4>2. Alike(p, Fault(p))
        BY <4>1 DEF Alike, Key
      <4> QED
        BY <4>1, <4>2, AlikeSound
    <3> QED
      BY <1>4, <1>6, <2>3, <3>1 DEF Result
  <2>4. ASSUME NEW a \in Free(p), o = Result(a, FALSE, FALSE, failed)
        PROVE  /\ o.pipes \in Table /\ o.endp \in Addr /\ ~o.live
               /\ Sound(o.pipes) /\ (Loss(p) => Loss(o.pipes))
    BY <1>4, <1>6, <2>2, <2>4 DEF Result
  <2>5. ASSUME NEW a \in Free(p), o = Result(a, FALSE, TRUE, Filled(failed, a, ep, type, FALSE))
        PROVE  /\ o.pipes \in Table /\ o.endp \in Addr /\ ~o.live
               /\ Sound(o.pipes) /\ (Loss(p) => Loss(o.pipes))
    <3> DEFINE t == Filled(failed, a, ep, type, FALSE)
    <3>1. /\ t \in Table /\ t.apPipes = kept.apPipes /\ t.alloc = p.alloc
          /\ \A b \in Addr : b # a => t.mem[b] = p.mem[b]
      <4> DEFINE x == [Blank EXCEPT !.iEP = ep, !.iType = type, !.pEvent = FALSE]
      <4>1. x \in Record
        BY DEF Record, Blank, EP, Kind
      <4>2. t = [failed EXCEPT !.mem[a] = x]
        BY DEF Filled
      <4> HIDE DEF t, x
      <4> QED
        BY <1>4, <2>2, <4>1, <4>2 DEF Table
    <3> HIDE DEF t
    <3>2. Sound(t) /\ (Loss(p) => Loss(t))
      <4>1. \A b \in p.alloc : t.mem[b] = p.mem[b]
        BY <1>2, <2>2, <3>1
      <4> QED
        BY <1>2, <1>3, <3>1, <4>1, FewerSound
    <3> QED
      BY <2>2, <2>5, <3>1, <3>2 DEF Result, t
  <2>6. ASSUME NEW a \in Free(p), o = Result(a, TRUE, TRUE, Added(Filled(kept, a, ep, type, TRUE), a))
        PROVE  /\ o.pipes \in Table /\ o.endp \in Addr /\ o.live /\ o.open
               /\ Sound(o.pipes) /\ (Loss(p) => Loss(o.pipes))
    <3> DEFINE t == Filled(kept, a, ep, type, TRUE)
               r == Added(t, a)
    <3>1. /\ t \in Table /\ t.apPipes = kept.apPipes /\ t.alloc = kept.alloc
          /\ Key(t, a) = <<ep, type>> /\ t.mem[a].pEvent
          /\ \A b \in Addr : b # a => t.mem[b] = kept.mem[b]
      <4> DEFINE x == [Blank EXCEPT !.iEP = ep, !.iType = type, !.pEvent = TRUE]
      <4>1. x \in Record /\ x.iEP = ep /\ x.iType = type /\ x.pEvent
        BY DEF Record, Blank, EP, Kind
      <4>2. t = [kept EXCEPT !.mem[a] = x]
        BY DEF Filled
      <4> HIDE DEF t, x
      <4> QED
        BY <1>3, <2>2, <4>1, <4>2 DEF Table, Key
    <3> HIDE DEF t
    <3>2. /\ r \in Table /\ r.apPipes = Append(kept.apPipes, a)
          /\ r.alloc = kept.alloc \union {a} /\ r.mem = t.mem
      BY <2>2, <3>1, TableAdded
    <3> HIDE DEF r
    <3>3. \A b \in kept.alloc : r.mem[b] = kept.mem[b]
      BY <1>2, <1>3, <2>2, <3>1, <3>2
    <3>4. r.mem[a].pEvent /\ Key(r, a) = <<ep, type>>
      BY <3>1, <3>2 DEF Key
    <3>5. \A i \in 1 .. Len(kept.apPipes) : Key(kept, kept.apPipes[i]) # Key(r, a)
      <4> SUFFICES ASSUME NEW i \in 1 .. k PROVE Key(kept, kept.apPipes[i]) # <<ep, type>>
        BY <1>3, <3>4
      <4>1. i \notin Matches(p, ep, type)
        BY <1>8
      <4>2. Key(p, p.apPipes[i]) # <<ep, type>>
        BY <1>3, <4>1 DEF Matches, Key
      <4> QED
        BY <1>3, <4>2 DEF Key
    <3>6. Sound(r) /\ (Loss(kept) => Loss(r))
      <4>1. a \in Addr \ kept.alloc
        BY <1>3, <2>2
      <4>2. \A i : Row(kept, i) <=> i \in 1 .. Len(kept.apPipes)
        BY <1>3, <1>5
      <4> QED
        BY <1>3, <1>5, <3>2, <3>3, <3>4, <3>5, <4>1, <4>2, MoreSound
    <3> QED
      BY <1>5, <2>2, <2>6, <3>2, <3>6 DEF Result, r, t
  <2> QED
    BY <2>1, <2>3, <2>4, <2>5, <2>6 DEF Result
<1> QED
  BY <1>7, <1>8

(* usb_control_msg and usb_bulk_msg, whoever calls them, on such a table.  *)
LEMMA SubmitSound ==
  ASSUME NEW p \in Table, Sound(p), NEW T \in Queues, NEW c \in Call,
         NEW o \in GetCreatePipe(p, c.ep, c.type), NEW ok, NEW bad, Submit(c, o, T, ok, bad)
  PROVE  /\ pipes' \in Table /\ transfers' \in Queues
         /\ Sound(pipes') /\ (Loss(p) => Loss(pipes'))
<1>1. /\ o.pipes \in Table /\ (o.live => o.endp \in Addr) /\ (o.open => o.endp \in Addr)
      /\ Sound(o.pipes) /\ (Loss(p) => Loss(o.pipes))
  BY CallPipe, PipeSound
<1>2. pipes' \in Table /\ Touched(o.pipes, pipes', o.endp)
  BY <1>1, SubmitPipes
<1>3. Sound(pipes') /\ (Loss(o.pipes) => Loss(pipes'))
  BY <1>1, <1>2, TouchedSound
<1>4. transfers' \in Queues
  <2>1. ok => Transfer(c, o) \in Pending
    BY <1>1, CallPipe DEF Submit, Transfer, Pending
  <2>2. transfers' = Sent(c, o, T, ok)
    BY DEF Submit, Sent, Push
  <2> QED
    BY <2>1, <2>2, CallPipe, Pushed DEF Sent
<1> QED
  BY <1>1, <1>2, <1>3, <1>4

(* A step that makes, frees and fills no record.                           *)
LEMMA AlikeHolds ==
  ASSUME General, ~badAccess, Types', Program', Alike(pipes, pipes')
  PROVE  Holds
<1>1. pipes \in Table /\ Sound(pipes)
  BY DEF General, Types
<1>2. Sound(pipes') /\ (Loss(pipes) => Loss(pipes'))
  BY <1>1, AlikeSound
<1> QED
  BY <1>2 DEF Holds, General, Lost, Loss

LEMMA SamePipes == ASSUME pipes' = pipes PROVE Alike(pipes, pipes')
  BY DEF Alike, Key

LEMMA EnterHolds ==
  ASSUME General, ~badAccess, NEW S \in Seq(Call \union {MakeContext}), NEW at \in {"idle", "call"},
         at = "call" <=> S # <<>>, Enter(S, at), UNCHANGED <<chip, plugged, context, wBytes>>,
         opens' \in 0 .. MaxOpen, iFlags' \subseteq {"PRESENCE", "BUSY", "UART"}
  PROVE  Holds
<1>1. /\ pc' = at /\ todo' = S
      /\ UNCHANGED <<chip, plugged, context, wBytes, pipes, transfers, slot, endp, own, badAccess>>
  BY DEF Enter, answer
<1>2. Types' /\ Program'
  BY <1>1 DEF General, Types, Program
<1> QED
  BY <1>1, <1>2, AlikeHolds, SamePipes

LEMMA RequestHolds ==
  ASSUME General, ~badAccess,
         \/ ProcCmd_OPEN_UART \/ ProcCmd_OPEN_RAW \/ ProcCmd_SET_STATUS_LINE \/ ProcCmd_SETUP_LINE
         \/ ProcCmd_CTRL_RAW \/ ProcCmd_BULK_RAW
  PROVE  Holds
<1>1. Types
  BY DEF General
<1>2. CASE ProcCmd_OPEN_UART
  <2>1. SetBusy({"UART"}) /\ Enter(OpenCalls, "call")
    BY <1>2 DEF ProcCmd_OPEN_UART
  <2>2. OpenCalls \in Seq(Call \union {MakeContext}) /\ OpenCalls # <<>>
    BY <1>1, OpenCallsAre DEF Types
  <2>3. /\ iFlags' \subseteq {"PRESENCE", "BUSY", "UART"} /\ opens' \in 0 .. MaxOpen
        /\ UNCHANGED <<chip, plugged, context, wBytes>>
    BY <1>1, <2>1, SessionAssumption DEF SetBusy, Types
  <2> QED
    BY <2>1, <2>2, <2>3, EnterHolds
<1>3. CASE ProcCmd_OPEN_RAW
  <2>1. SetBusy({}) /\ Enter(<<>>, "idle")
    BY <1>3 DEF ProcCmd_OPEN_RAW
  <2>2. /\ iFlags' \subseteq {"PRESENCE", "BUSY", "UART"} /\ opens' \in 0 .. MaxOpen
        /\ UNCHANGED <<chip, plugged, context, wBytes>>
    BY <1>1, <2>1, SessionAssumption DEF SetBusy, Types
  <2>3. <<>> \in Seq(Call \union {MakeContext})
    BY EmptySeq
  <2> QED
    BY <2>1, <2>2, <2>3, EnterHolds
<1> DEFINE ctrl == Ctrl("0", "Callback_Ctrl", TRUE)
           bulk(ep) == Bulk(ep, "Callback_Bulk_Msg", TRUE)
<1>4. ctrl \in Call /\ \A ep \in {"in", "out"} : bulk(ep) \in Call
  BY CallTypes DEF EP, Handler, Waited
<1>5. CASE ProcCmd_SET_STATUS_LINE \/ ProcCmd_SETUP_LINE \/ ProcCmd_CTRL_RAW \/ ProcCmd_BULK_RAW
  <2>1. UNCHANGED <<chip, plugged, iFlags, context, opens, wBytes>>
    BY <1>5 DEF ProcCmd_SET_STATUS_LINE, ProcCmd_SETUP_LINE, ProcCmd_CTRL_RAW, ProcCmd_BULK_RAW, device
  <2>2. \/ Enter(<<ctrl>>, "call")
        \/ \E n \in {1, 2} : Enter([i \in 1 .. n |-> ctrl], "call")
        \/ \E ep \in {"in", "out"} : Enter(<<bulk(ep)>>, "call")
    BY <1>5 DEF ProcCmd_SET_STATUS_LINE, ProcCmd_SETUP_LINE, ProcCmd_CTRL_RAW, ProcCmd_BULK_RAW
  <2> HIDE DEF ctrl, bulk
  <2>3. <<ctrl>> \in Seq(Call \union {MakeContext}) /\ <<ctrl>> # <<>>
    BY <1>4
  <2>4. \A n \in {1, 2} : /\ [i \in 1 .. n |-> ctrl] \in Seq(Call \union {MakeContext})
                          /\ [i \in 1 .. n |-> ctrl] # <<>>
    BY <1>4
  <2>5. \A ep \in {"in", "out"} : /\ <<bulk(ep)>> \in Seq(Call \union {MakeContext})
                                  /\ <<bulk(ep)>> # <<>>
    BY <1>4
  <2>6. \E S \in Seq(Call \union {MakeContext}) : S # <<>> /\ Enter(S, "call")
    BY <2>2, <2>3, <2>4, <2>5
  <2>7. iFlags' \subseteq {"PRESENCE", "BUSY", "UART"} /\ opens' \in 0 .. MaxOpen
    BY <1>1, <2>1 DEF Types
  <2> QED
    BY <2>1, <2>6, <2>7, EnterHolds
<1> QED
  BY <1>2, <1>3, <1>5

LEMMA SendHolds ==
  ASSUME General, ~badAccess, ProcCmd_SEND_PACKET
  PROVE  Holds
<1>1. Types /\ Program /\ Sound(pipes) /\ pc = "idle" /\ pipes \in Table
  BY DEF General, Types, ProcCmd_SEND_PACKET
<1>2. UNCHANGED <<chip, plugged, iFlags, context, opens, transfers, slot, endp, own, badAccess>>
  BY DEF ProcCmd_SEND_PACKET, device, answer
<1>3. pipes' \in Table /\ Sound(pipes') /\ (Loss(pipes) => Loss(pipes'))
  <2>1. PICK o \in GetCreatePipe(pipes, "out", "BULK") : pipes' = o.pipes
    BY DEF ProcCmd_SEND_PACKET
  <2>2. "out" \in EP /\ "BULK" \in Kind
    BY DEF EP, Kind
  <2> QED
    BY <1>1, <2>1, <2>2, PipeSound
<1> DEFINE c == Bulk("out", "Callback_BulkOut", FALSE)
<1>4. c \in Call
  BY CallTypes DEF EP, Handler, Waited
<1>5. \/ wBytes' \in 1 .. MaxParts /\ pc' = "call" /\ todo' = <<c>>
      \/ UNCHANGED <<wBytes, pc, todo>>
  BY DEF ProcCmd_SEND_PACKET
<1> HIDE DEF c
<1>6. <<c>> \in Seq(Call \union {MakeContext}) /\ <<c>> # <<>>
  BY <1>4
<1>7. wBytes' \in 0 .. MaxParts /\ pc' \in {"idle", "call"} /\ todo' \in Seq(Call \union {MakeContext})
  <2>1. wBytes \in 0 .. MaxParts /\ todo \in Seq(Call \union {MakeContext}) /\ MaxParts \in Nat
    BY <1>1, SessionAssumption DEF Types
  <2>2. CASE wBytes' \in 1 .. MaxParts /\ pc' = "call" /\ todo' = <<c>>
    BY <1>6, <2>1, <2>2
  <2>3. CASE UNCHANGED <<wBytes, pc, todo>>
    BY <1>1, <2>1, <2>3
  <2> QED
    BY <1>5, <2>2, <2>3
<1>8. Types' /\ Program'
  BY <1>1, <1>2, <1>3, <1>5, <1>6, <1>7 DEF Types, Program
<1> QED
  BY <1>2, <1>3, <1>8 DEF Holds, General, Lost, Loss

LEMMA CallHolds ==
  ASSUME General, ~badAccess, CallTransfer
  PROVE  Holds
<1> DEFINE c == todo[1]
<1>1. /\ Types /\ Program /\ Sound(pipes) /\ pipes \in Table /\ transfers \in Queues
      /\ pc = "call" /\ c # MakeContext /\ todo # <<>>
  BY DEF CallTransfer, General, Program, Types, Queues
<1>2. UNCHANGED <<chip, plugged, iFlags, context, opens, wBytes, slot>>
  BY DEF CallTransfer, device
<1>3. c \in Call
  <2>1. Len(todo) \in Nat \ {0}
    BY <1>1, EmptySeq DEF Types
  <2> QED
    BY <1>1, <2>1 DEF Types
<1> HIDE DEF c
<1>4. PICK o \in GetCreatePipe(pipes, c.ep, c.type), ok \in BOOLEAN :
         /\ Submit(c, o, transfers, ok, o.endp = NULL /\ c.cb = "Callback_Bulk_Msg")
         /\ own' = -1
         /\ IF c.wait /\ ok /\ o.live
            THEN endp' = o.endp /\ pc' = "wait" /\ UNCHANGED todo
            ELSE endp' = NULL /\ Proceed
  BY DEF CallTransfer, c
<1> DEFINE bad == o.endp = NULL /\ c.cb = "Callback_Bulk_Msg"
<1>5. Submit(c, o, transfers, ok, bad)
  BY <1>4
<1> HIDE DEF bad
<1>6. /\ pipes' \in Table /\ transfers' \in Queues
      /\ Sound(pipes') /\ (Loss(pipes) => Loss(pipes'))
  BY <1>1, <1>3, <1>5, SubmitSound
<1>7. o.live => o.endp \in Addr
  BY <1>1, <1>3, CallPipe, PipeSound
<1>8. /\ todo' \in Seq(Call \union {MakeContext}) /\ pc' \in {"idle", "call", "wait"}
      /\ endp' \in Addr \union {NULL} /\ own' \in Int /\ Program'
  <2>1. CASE c.wait /\ ok /\ o.live
    BY <1>1, <1>4, <1>7, <2>1 DEF Types, Program
  <2>2. CASE ~(c.wait /\ ok /\ o.live)
    BY <1>1, <1>4, <2>2, Proceeded DEF Types, Program
  <2> QED
    BY <2>1, <2>2
<1>9. Types'
  BY <1>1, <1>2, <1>6, <1>8 DEF Types, Queues
<1> QED
  BY <1>6, <1>8, <1>9 DEF Holds, General, Lost, Loss

LEMMA ContextHolds ==
  ASSUME General, ~badAccess, CallContext
  PROVE  Holds
<1>1. Types /\ Program /\ pc = "call" /\ Proceed /\ todo # <<>>
  BY DEF CallContext, General, Program
<1>2. UNCHANGED <<chip, plugged, iFlags, opens, pipes, transfers, wBytes, slot, endp, own, badAccess>>
  BY DEF CallContext, answer
<1>3. context' \in BOOLEAN
  BY Zenon DEF CallContext
<1>4. Types' /\ Program'
  BY <1>1, <1>2, <1>3, Proceeded DEF Types, Program
<1> QED
  BY <1>2, <1>4, AlikeHolds, SamePipes

(* coreWaitEvent takes the event of the record.                            *)
Taken(p, a) == [p EXCEPT !.mem[a].raised = FALSE]

LEMMA TakenKeeps ==
  ASSUME NEW p \in Table, NEW a \in Addr
  PROVE  Taken(p, a) \in Table /\ Alike(p, Taken(p, a))
<1> DEFINE x == [p.mem[a] EXCEPT !.raised = FALSE]
           r == Taken(p, a)
<1>1. p.mem \in [Addr -> Record] /\ p.mem[a] \in Record
  BY DEF Table
<1>2. /\ x \in Record /\ x.iEP = p.mem[a].iEP /\ x.iType = p.mem[a].iType
      /\ x.pEvent <=> p.mem[a].pEvent
  BY <1>1 DEF Record
<1>3. r = [p EXCEPT !.mem[a] = x]
  BY <1>1 DEF Taken, Table
<1> HIDE DEF x, r
<1>4. /\ r \in Table /\ r.apPipes = p.apPipes /\ r.alloc = p.alloc
      /\ r.mem = [p.mem EXCEPT ![a] = x]
  BY <1>1, <1>2, <1>3 DEF Table
<1>5. \A b \in Addr : /\ r.mem[b].iEP = p.mem[b].iEP /\ r.mem[b].iType = p.mem[b].iType
                      /\ r.mem[b].pEvent <=> p.mem[b].pEvent
  BY <1>1, <1>2, <1>4
<1>6. Alike(p, r)
  BY <1>4, <1>5 DEF Key, Alike
<1> QED
  BY <1>4, <1>6 DEF r

LEMMA WakeHolds ==
  ASSUME General, ~badAccess, Wake
  PROVE  Holds
<1>1. /\ Types /\ Program /\ pc = "wait" /\ Proceed /\ todo # <<>> /\ endp \in Addr /\ pipes \in Table
      /\ endp' = NULL /\ own' = -1 /\ pipes' = Taken(pipes, endp)
  BY DEF Wake, General, Program, Types, Taken
<1>2. UNCHANGED <<chip, plugged, iFlags, context, opens, transfers, wBytes, slot, badAccess>>
  BY DEF Wake, device
<1>3. pipes' \in Table /\ Alike(pipes, pipes')
  BY <1>1, TakenKeeps
<1>4. Types' /\ Program'
  BY <1>1, <1>2, <1>3, Proceeded DEF Types, Program
<1> QED
  BY <1>3, <1>4, AlikeHolds

LEMMA QuietHolds ==
  ASSUME General, ~badAccess, CloseFlags \/ Unplug \/ Disconnected
  PROVE  Holds
<1>1. Types /\ Program
  BY DEF General
<1>2. UNCHANGED <<chip, context, opens, pipes, transfers, wBytes, todo, slot, endp, own, badAccess>>
  BY DEF CloseFlags, Unplug, Disconnected, answer
<1>3. /\ iFlags' \subseteq iFlags /\ plugged' \in BOOLEAN
      /\ pc' = pc \/ (pc = "idle" /\ pc' = "close")
  <2>1. plugged' = plugged \/ plugged' = FALSE
    BY DEF CloseFlags, Unplug, Disconnected
  <2>2. plugged' \in BOOLEAN
    BY <1>1, <2>1, Zenon DEF Types
  <2> QED
    BY <2>2 DEF CloseFlags, Unplug, Disconnected
<1>4. Types' /\ Program'
  BY <1>1, <1>2, <1>3 DEF Types, Program
<1> QED
  BY <1>2, <1>4, AlikeHolds, SamePipes

(* ClosePipes frees the record of a row: the others stay, and what is in   *)
(* no row stays in none.                                                   *)
LEMMA FreedSound ==
  ASSUME NEW p \in Table, NEW s \in Nat, Sound(p), Row(p, s + 1),
         NEW r, r = Freed(p, s, p.apPipes[s + 1])
  PROVE  /\ r \in Table /\ Sound(r) /\ (Loss(p) => Loss(r))
<1> DEFINE a == p.apPipes[s + 1]
           n == Len(p.apPipes)
           A == [p.apPipes EXCEPT ![s + 1] = NULL]
           m == [p.mem EXCEPT ![a] = Blank]
<1>1. /\ p.apPipes \in Seq(Addr \union {NULL}) /\ n \in Nat /\ p.alloc \subseteq Addr
      /\ p.mem \in [Addr -> Record] /\ s + 1 \in 1 .. n /\ DOMAIN p.apPipes = 1 .. n
  BY DEF Table, Row
<1>2. a \in p.alloc /\ a \in Addr
  BY <1>1 DEF Sound
<1>3. Blank \in Record
  BY DEF Blank, Record
<1>4. /\ A \in Seq(Addr \union {NULL}) /\ Len(A) = n /\ A[s + 1] = NULL /\ DOMAIN A = 1 .. n
      /\ \A i \in 1 .. n : i # s + 1 => A[i] = p.apPipes[i]
  BY <1>1
<1>5. m \in [Addr -> Record] /\ \A b \in Addr : b # a => m[b] = p.mem[b]
  BY <1>1, <1>3
<1>6. r.apPipes = A /\ r.alloc = p.alloc \ {a} /\ r.mem = m /\ r \in Table
  <2>1. p.alloc \ {a} \subseteq Addr
    BY <1>1
  <2> QED
    BY <1>1, <1>4, <1>5, <2>1 DEF Table, Freed
<1> HIDE DEF A, m, n
<1>7. \A i : Row(r, i) => /\ Row(p, i) /\ i # s + 1 /\ r.apPipes[i] = p.apPipes[i]
  BY <1>1, <1>4, <1>6 DEF Row
<1>8. \A i : Row(p, i) /\ p.apPipes[i] = a => i = s + 1
  BY DEF Sound, Key
<1>9. \A i : Row(r, i) => /\ r.apPipes[i] \in r.alloc /\ r.mem[r.apPipes[i]] = p.mem[p.apPipes[i]]
                          /\ r.mem[r.apPipes[i]].pEvent
  <2> SUFFICES ASSUME NEW i, Row(r, i)
               PROVE  /\ r.apPipes[i] \in r.alloc /\ r.mem[r.apPipes[i]] = p.mem[p.apPipes[i]]
                      /\ r.mem[r.apPipes[i]].pEvent
    OBVIOUS
  <2>1. /\ Row(p, i) /\ r.apPipes[i] = p.apPipes[i] /\ p.apPipes[i] # a
        /\ p.apPipes[i] \in p.alloc /\ p.mem[p.apPipes[i]].pEvent
    BY <1>7, <1>8 DEF Sound
  <2> QED
    BY <1>1, <1>5, <1>6, <2>1
<1>10. \A i, j : Row(r, i) /\ Row(r, j) /\ Key(r, r.apPipes[i]) = Key(r, r.apPipes[j]) => i = j
  <2>1. \A i : Row(r, i) => Row(p, i) /\ Key(r, r.apPipes[i]) = Key(p, p.apPipes[i])
    BY <1>7, <1>9 DEF Key
  <2> QED
    BY <2>1 DEF Sound
<1>11. \E k \in 0 .. Len(r.apPipes) : Walk(r, k)
  <2>1. PICK k \in 0 .. n : Walk(p, k)
    BY DEF Sound, n
  <2>2. CASE s < k
    <3>1. s \in 0 .. Len(r.apPipes)
      BY <1>1, <1>4, <1>6
    <3>2. \A i \in 1 .. s : A[i] # NULL
      BY <1>1, <1>4, <2>1, <2>2 DEF Walk
    <3>3. Walk(r, s)
      BY <1>4, <1>6, <3>2 DEF Walk
    <3> QED
      BY <3>1, <3>3
  <2>3. CASE ~(s < k)
    <3>1. k # s
      <4> SUFFICES ASSUME k = s PROVE FALSE
        OBVIOUS
      <4>1. k < Len(p.apPipes)
        BY <1>1 DEF n
      <4> QED
        BY <2>1, <4>1 DEF Walk, Row
    <3>2. k \in Nat /\ k < s /\ k \in 0 .. Len(r.apPipes) /\ k + 1 # s + 1
      BY <1>1, <1>4, <1>6, <2>3, <3>1
    <3>3. \A i \in 1 .. k : A[i] # NULL
      BY <1>1, <1>4, <2>1, <3>2 DEF Walk
    <3>4. k < n => A[k + 1] = NULL
      BY <1>1, <1>4, <2>1, <3>2 DEF Walk, n
    <3>5. Walk(r, k)
      BY <1>4, <1>6, <3>3, <3>4 DEF Walk
    <3> QED
      BY <3>2, <3>5
  <2> QED
    BY <2>2, <2>3
<1>12. Sound(r)
  BY <1>9, <1>10, <1>11 DEF Sound
<1>13. Loss(p) => Loss(r)
  <2> SUFFICES ASSUME NEW b \in p.alloc, \A i \in DOMAIN p.apPipes : p.apPipes[i] # b PROVE Loss(r)
    BY DEF Loss
  <2>1. b # a /\ b # NULL
    BY <1>1, SessionAssumption
  <2>2. \A i \in 1 .. n : A[i] # b
    BY <1>1, <1>4, <2>1
  <2> QED
    BY <1>4, <1>6, <2>1, <2>2 DEF Loss
<1> QED
  BY <1>6, <1>12, <1>13

LEMMA ClosedQueues ==
  ASSUME transfers \in Queues, NEW a \in Addr,
         transfers' = [q \in Pipe |-> [k \in DOMAIN transfers[q] |-> Closed(q, transfers[q][k], a)]]
  PROVE  transfers' \in Queues
<1>1. \A t \in Pending, q \in Pipe : Closed(q, t, a) \in Pending
  BY DEF Closed, Pending
<1>2. ASSUME NEW q \in Pipe PROVE transfers'[q] \in Seq(Pending)
  <2>1. transfers[q] \in Seq(Pending) /\ Len(transfers[q]) \in Nat /\ DOMAIN transfers[q] = 1 .. Len(transfers[q])
    BY DEF Queues
  <2>2. \A k \in 1 .. Len(transfers[q]) : transfers[q][k] \in Pending
    BY <2>1
  <2>3. \A k \in 1 .. Len(transfers[q]) : Closed(q, transfers[q][k], a) \in Pending
    BY <1>1, <2>2
  <2>4. transfers'[q] = [k \in 1 .. Len(transfers[q]) |-> Closed(q, transfers[q][k], a)]
    BY <2>1
  <2> QED
    BY <2>1, <2>3, <2>4, IsASeq
<1>3. transfers' = [q \in Pipe |-> transfers'[q]]
  OBVIOUS
<1> QED
  BY <1>2, <1>3 DEF Queues

LEMMA CloseHolds ==
  ASSUME General, ~badAccess, ClosePipes
  PROVE  Holds
<1> DEFINE a == pipes.apPipes[slot + 1]
<1>1. /\ Types /\ Program /\ Sound(pipes) /\ pipes \in Table /\ slot \in Nat /\ slot' = slot + 1
      /\ transfers \in Queues
  BY DEF ClosePipes, General, Types, Queues
<1>2. UNCHANGED <<chip, plugged, iFlags, context, opens, wBytes, pc, todo, endp, own, badAccess>>
  BY DEF ClosePipes, device, answer
<1>3. Row(pipes, slot + 1)
  BY DEF ClosePipes, More, Row
<1>4. pipes' = Freed(pipes, slot, a)
  BY DEF ClosePipes, Freed
<1>5. pipes' \in Table /\ Sound(pipes') /\ (Loss(pipes) => Loss(pipes'))
  BY <1>1, <1>3, <1>4, FreedSound
<1>6. a \in Addr
  <2>1. a \in pipes.alloc
    BY <1>1, <1>3 DEF Sound
  <2> QED
    BY <1>1, <2>1 DEF Table
<1>7. transfers' \in Queues
  <2>1. transfers' = [q \in Pipe |-> [k \in DOMAIN transfers[q] |-> Closed(q, transfers[q][k], a)]]
    BY DEF ClosePipes
  <2> HIDE DEF a
  <2> QED
    BY <1>1, <1>6, <2>1, ClosedQueues
<1>8. Types' /\ Program'
  <2>1. slot' \in Nat
    BY <1>1
  <2> QED
    BY <1>1, <1>2, <1>5, <1>7, <2>1 DEF Types, Program, Queues
<1> QED
  BY <1>5, <1>8 DEF Holds, General, Lost, Loss

LEMMA EndHolds ==
  ASSUME General, ~badAccess, CloseEnd
  PROVE  Holds
<1>1. Types /\ Program /\ pipes \in Table /\ pc = "close" /\ pc' = "idle" /\ slot' = 0
  BY DEF CloseEnd, General, Types
<1>2. UNCHANGED <<chip, plugged, iFlags, opens, transfers, wBytes, todo, endp, own>>
      /\ context' = FALSE
  BY DEF CloseEnd, answer
<1>3. <<>> \in Seq(Addr \union {NULL}) /\ Len(<<>>) = 0 /\ DOMAIN <<>> = {}
  BY EmptySeq
<1>4. /\ pipes' \in Table /\ pipes'.apPipes = <<>> /\ pipes'.alloc = pipes.alloc
  BY <1>1, <1>3 DEF CloseEnd, Table
<1>5. Types' /\ Program'
  <2>1. context' \in BOOLEAN
    BY <1>2, Zenon
  <2> QED
    BY <1>1, <1>2, <1>4, <2>1 DEF Types, Program
<1>6. \A i : ~Row(pipes', i)
  BY <1>3, <1>4 DEF Row
<1>7. \E k \in 0 .. Len(pipes'.apPipes) : Walk(pipes', k)
  <2>1. 0 \in 0 .. Len(pipes'.apPipes) /\ Walk(pipes', 0)
    BY <1>3, <1>4 DEF Walk
  <2> QED
    BY <2>1
<1>8. Sound(pipes')
  BY <1>6, <1>7 DEF Sound
<1>9. Loss(pipes) => Loss(pipes')
  BY <1>3, <1>4 DEF Loss
<1> QED
  BY <1>5, <1>8, <1>9 DEF Holds, General, Lost, Loss

(* The callbacks.                                                          *)
LEMMA CtrlHolds ==
  ASSUME General, ~badAccess, NEW q \in Busy, NEW n \in 0 .. 1, Callback_Ctrl(q, n)
  PROVE  Holds
<1> DEFINE t == Head(transfers[q])
           m == Count(pipes, t.rec, n)
<1>1. /\ Types /\ Program /\ Sound(pipes) /\ pipes \in Table /\ transfers \in Queues
      /\ q \in Pipe /\ transfers[q] # <<>>
  BY DEF General, Types, Queues, Busy
<1>2. /\ UNCHANGED <<chip, plugged, iFlags, context, opens, wBytes, pc, todo, slot, endp>>
      /\ transfers' = Pop(transfers, q) /\ own' = n /\ pipes' = Raise(m, t.rec)
  BY DEF Callback_Ctrl, device, Rest, Pop
<1>3. Pop(transfers, q) \in Queues /\ t \in Pending
  BY <1>1, Popped
<1>4. t.rec \in Addr /\ n \in Nat
  BY <1>3 DEF Pending
<1> HIDE DEF t
<1>5. m \in Table /\ Told(pipes, m, t.rec)
  BY <1>1, <1>4, CountKeeps
<1> HIDE DEF m
<1>6. pipes' \in Table /\ Told(m, pipes', t.rec)
  BY <1>2, <1>4, <1>5, RaiseKeeps
<1>7. Alike(pipes, pipes')
  BY <1>5, <1>6 DEF Told, Alike
<1>8. Types' /\ Program'
  BY <1>1, <1>2, <1>3, <1>6 DEF Types, Program, Queues
<1> QED
  BY <1>7, <1>8, AlikeHolds

(* What a callback that tells no thread leaves alone.                      *)
LEMMA CallbackHolds ==
  ASSUME General, ~badAccess, UNCHANGED <<device, pc, todo, slot, answer>>,
         wBytes' \in 0 .. MaxParts, pipes' \in Table, transfers' \in Queues,
         Sound(pipes'), Loss(pipes) => Loss(pipes')
  PROVE  Holds
<1>1. UNCHANGED <<chip, plugged, iFlags, context, opens, pc, todo, slot, endp, own>>
  BY DEF device, answer
<1>2. Types' /\ Program'
  BY <1>1 DEF General, Types, Program, Queues
<1> QED
  BY <1>2 DEF Holds, General, Lost, Loss

LEMMA OutHolds ==
  ASSUME General, ~badAccess, NEW q \in Busy, NEW n \in 0 .. 1, Callback_BulkOut(q, n)
  PROVE  Holds
<1> DEFINE t == Head(transfers[q])
           left == IF n > 0 THEN wBytes - 1 ELSE wBytes
           c == Bulk(pipes.mem[t.rec].iEP, "Callback_BulkOut", FALSE)
<1>1. /\ Sound(pipes) /\ pipes \in Table /\ transfers \in Queues
      /\ q \in Pipe /\ transfers[q] # <<>> /\ wBytes \in 0 .. MaxParts
  BY DEF General, Types, Queues, Busy
<1>2. UNCHANGED <<device, pc, todo, slot, answer>> /\ Rest(q) = Pop(transfers, q)
  BY DEF Callback_BulkOut, Rest, Pop
<1>3. Pop(transfers, q) \in Queues /\ t \in Pending
  BY <1>1, Popped
<1>4. t.rec \in Addr
  BY <1>3 DEF Pending
<1>5. c \in Call /\ c.type = "BULK"
  <2>1. pipes.mem[t.rec].iEP \in EP
    BY <1>1, <1>4 DEF Table, Record, EP
  <2> QED
    BY <2>1, CallTypes DEF Bulk, Handler
<1>6. CASE left > 0
  <2>1. PICK o \in GetCreatePipe(pipes, c.ep, "BULK"), ok \in BOOLEAN :
           Submit(c, o, Rest(q), ok, t.stale)
    BY <1>6 DEF Callback_BulkOut
  <2>2. wBytes' \in 0 .. MaxParts
    <3>1. wBytes' = left
      BY <1>6 DEF Callback_BulkOut
    <3> QED
      BY <1>1, <1>6, <3>1, SessionAssumption
  <2>3. Submit(c, o, Pop(transfers, q), ok, t.stale) /\ o \in GetCreatePipe(pipes, c.ep, c.type)
    BY <1>2, <1>5, <2>1
  <2> HIDE DEF c, left, t
  <2>4. /\ pipes' \in Table /\ transfers' \in Queues
        /\ Sound(pipes') /\ (Loss(pipes) => Loss(pipes'))
    BY <1>1, <1>3, <1>5, <2>3, SubmitSound
  <2> QED
    BY <1>2, <2>2, <2>4, CallbackHolds
<1>7. CASE ~(left > 0)
  <2>1. pipes' = Raise(pipes, t.rec) /\ transfers' = Pop(transfers, q) /\ wBytes' = 0
    BY <1>2, <1>7 DEF Callback_BulkOut
  <2> HIDE DEF c, left, t
  <2>2. pipes' \in Table /\ Told(pipes, pipes', t.rec)
    BY <1>1, <1>4, <2>1, RaiseKeeps
  <2>3. Sound(pipes') /\ (Loss(pipes) => Loss(pipes'))
    BY <1>1, <2>2, TouchedSound
  <2>4. wBytes' \in 0 .. MaxParts
    BY <2>1, SessionAssumption
  <2> QED
    BY <1>2, <1>3, <2>1, <2>2, <2>3, <2>4, CallbackHolds
<1> QED
  BY <1>6, <1>7

LEMMA RereadHolds ==
  ASSUME General, ~badAccess, NEW q \in Busy, NEW p \in Table, NEW c \in Call, NEW status, NEW bad,
         Reread(q, p, c, status, bad), UNCHANGED <<device, wBytes, pc, todo, slot, answer>>,
         Sound(p), Loss(pipes) => Loss(p)
  PROVE  Holds
<1>1. /\ transfers \in Queues /\ q \in Pipe /\ transfers[q] # <<>> /\ wBytes' \in 0 .. MaxParts
      /\ Rest(q) = Pop(transfers, q) /\ UNCHANGED <<device, pc, todo, slot, answer>>
  BY DEF General, Types, Busy, Rest, Pop, Queues
<1>2. Pop(transfers, q) \in Queues
  BY <1>1, Popped
<1>3. CASE Restartable(status)
  <2>1. PICK o \in GetCreatePipe(p, c.ep, c.type), ok \in BOOLEAN :
           Submit(c, o, Pop(transfers, q), ok, bad)
    BY <1>1, <1>3 DEF Reread
  <2>2. /\ pipes' \in Table /\ transfers' \in Queues
        /\ Sound(pipes') /\ (Loss(p) => Loss(pipes'))
    BY <1>2, <2>1, SubmitSound
  <2> QED
    BY <1>1, <2>2, CallbackHolds
<1>4. CASE ~Restartable(status)
  <2>1. pipes' = p /\ transfers' = Pop(transfers, q)
    BY <1>1, <1>4 DEF Reread
  <2> QED
    BY <1>1, <1>2, <2>1, CallbackHolds
<1> QED
  BY <1>3, <1>4

LEMMA ReadHolds ==
  ASSUME General, ~badAccess, NEW q \in Busy, NEW status, NEW changed,
         Callback_BulkInp(q, status, changed) \/ Callback_Intr(q, status)
  PROVE  Holds
<1> DEFINE t == Head(transfers[q])
           ep == pipes.mem[t.rec].iEP
<1>1. /\ Sound(pipes) /\ pipes \in Table /\ transfers \in Queues
      /\ q \in Pipe /\ transfers[q] # <<>>
  BY DEF General, Types, Queues, Busy
<1>2. UNCHANGED <<device, wBytes, pc, todo, slot, answer>>
  BY DEF Callback_BulkInp, Callback_Intr
<1>3. ep \in EP
  <2>1. t \in Pending
    BY <1>1, Popped
  <2>2. t.rec \in Addr
    BY <2>1 DEF Pending
  <2> QED
    BY <1>1, <2>2 DEF Table, Record, EP
<1>4. \E p \in Table, c \in Call : \E bad :
         Reread(q, p, c, status, bad) /\ Sound(p) /\ (Loss(pipes) => Loss(p))
  <2>1. CASE Callback_BulkInp(q, status, changed)
    <3> DEFINE c == Bulk(ep, "Callback_BulkInp", FALSE)
    <3>1. c \in Call /\ "80" \in EP /\ "INTR" \in Kind
      <4> HIDE DEF ep
      <4> QED
        BY <1>3, CallTypes DEF Handler, EP, Kind
    <3>2. \/ \E o \in GetCreatePipe(pipes, "80", "INTR") :
                Reread(q, o.pipes, c, status, t.stale \/ ~o.live)
          \/ Reread(q, pipes, c, status, t.stale)
      BY <2>1 DEF Callback_BulkInp
    <3> HIDE DEF c, t, ep
    <3>3. \A o \in GetCreatePipe(pipes, "80", "INTR") :
             o.pipes \in Table /\ Sound(o.pipes) /\ (Loss(pipes) => Loss(o.pipes))
      BY <1>1, <3>1, PipeSound
    <3> QED
      BY <1>1, <3>1, <3>2, <3>3
  <2>2. CASE Callback_Intr(q, status)
    <3> DEFINE c == IF chip = "CP210x" THEN Ctrl(ep, "Callback_Intr", FALSE)
                    ELSE Bulk(ep, "Callback_Intr", FALSE)
    <3>1. c \in Call
      <4> HIDE DEF ep
      <4> QED
        BY <1>3, CallTypes DEF Handler
    <3>2. Reread(q, pipes, c, status, t.stale)
      BY <2>2 DEF Callback_Intr
    <3> HIDE DEF c, t, ep
    <3> QED
      BY <1>1, <3>1, <3>2
  <2> QED
    BY <2>1, <2>2
<1> QED
  BY <1>2, <1>4, RereadHolds
-----------------------------------------------------------------------------
-----------------------------------------------------------------------------
LEMMA StepHolds ==
  ASSUME General, Next
  PROVE  Holds
<1>1. ~badAccess
  BY DEF Next
<1>2. \A q \in Busy : \A status \in Status(q) : Length(status) \subseteq 0 .. 1
  BY DEF Length
<1>3. CASE Request
  BY <1>1, <1>3, RequestHolds, SendHolds, QuietHolds DEF Request
<1>4. CASE Inside
  BY <1>1, <1>4, CallHolds, ContextHolds, WakeHolds, CloseHolds, EndHolds DEF Inside
<1>5. CASE CompleteCtrl
  BY <1>1, <1>2, <1>5, CtrlHolds DEF CompleteCtrl
<1>6. CASE CompleteOut
  BY <1>1, <1>2, <1>6, OutHolds DEF CompleteOut
<1>7. CASE CompleteInp \/ CompleteIntr
  BY <1>1, <1>7, ReadHolds DEF CompleteInp, CompleteIntr
<1>8. CASE Unplug \/ Disconnected
  BY <1>1, <1>8, QuietHolds
<1> QED
  BY <1>3, <1>4, <1>5, <1>6, <1>7, <1>8 DEF Next

LEMMA StepKeeps ==
  ASSUME Types, Good, Next
  PROVE  Keeps
<1>1. ~badAccess
  BY DEF Next
<1>2. \A q \in Busy : \A status \in Status(q) : Length(status) \subseteq 0 .. 1
  BY DEF Length
<1>3. CASE Request
  BY <1>1, <1>3, RequestSteps, SendStep, CloseFlagsStep DEF Request
<1>4. CASE Inside
  BY <1>1, <1>4, CallStep, ContextStep, WakeStep, ClosePipesStep, CloseEndStep DEF Inside
<1>5. CASE CompleteCtrl
  BY <1>1, <1>2, <1>5, CtrlStep DEF CompleteCtrl
<1>6. CASE CompleteOut
  BY <1>1, <1>2, <1>6, OutStep DEF CompleteOut
<1>7. CASE CompleteInp
  BY <1>1, <1>7, InpStep DEF CompleteInp
<1>8. CASE CompleteIntr
  BY <1>1, <1>8, IntrStep DEF CompleteIntr
<1>9. CASE Unplug \/ Disconnected
  BY <1>1, <1>9, DeviceGoes
<1> QED
  BY <1>3, <1>4, <1>5, <1>6, <1>7, <1>8, <1>9 DEF Next

LEMMA NothingChanges ==
  ASSUME UNCHANGED vars
  PROVE  /\ SessionInv => SessionInv'
         /\ Lost' <=> Lost
<1>1. UNCHANGED <<chip, plugged, iFlags, context, opens, pipes, transfers, wBytes, pc, todo,
                  slot, endp, own, badAccess>>
  BY DEF vars, device, answer
<1>2. Lost' <=> Lost
  BY <1>1 DEF Lost
<1>3. General => General'
  BY <1>1 DEF General, Types, Program, Sound, Walk, Row, Key
<1>4. Good => Good'
  <2> SUFFICES ASSUME Good PROVE Good'
    OBVIOUS
  <2>1. (Rows(pipes, slot) /\ Live(transfers, pipes) /\ Roles(transfers) /\ Plan)'
    BY <1>1 DEF Good, Rows, Live, Key, Roles, Serves, Uart, Plan, Planned
  <2>2. (Receivers(transfers) /\ Starting /\ OneAsked(transfers))'
    BY <1>1 DEF Good, Receivers, Starting, NoReceiver, Receiver, OneAsked, Asked
  <2>3. (Answering /\ Raised(pipes) /\ Flow)'
    BY <1>1 DEF Good, Answering, NoneAsked, AskedOf, Asked, Raised, Key, Uart, Flow, Open
  <2> QED
    BY <2>1, <2>2, <2>3 DEF Good
<1> QED
  BY <1>1, <1>2, <1>3, <1>4 DEF SessionInv

LEMMA SessionStep == SessionInv /\ [Next]_vars => SessionInv'
<1> SUFFICES ASSUME SessionInv, [Next]_vars PROVE SessionInv'
  OBVIOUS
<1>1. CASE UNCHANGED vars
  BY <1>1, NothingChanges
<1>2. CASE Next
  <2>1. General /\ ~badAccess
    BY <1>2 DEF SessionInv, Next
  <2>2. General' /\ (~badAccess' /\ Lost => Lost')
    BY <1>2, <2>1, StepHolds DEF Holds
  <2>3. ~Lost => (~badAccess' /\ ~Lost' => Good')
    BY <1>2, <2>1, StepKeeps DEF SessionInv, General, Keeps
  <2> QED
    BY <2>2, <2>3 DEF SessionInv
<1> QED
  BY <1>1, <1>2

(* The inductive invariant holds in every state of a behaviour.            *)
THEOREM SessionAlways == Spec => []SessionInv
  BY SessionInit, SessionStep, PTL DEF Spec

(* Whatever fails in GetCreatePipe, whenever callbacks make pipes while    *)
(* ClosePipes runs, and however often kmalloc hands out an address again:  *)
(* the records a walk along apPipes finds are allocated, have an event and *)
(* are one per endpoint and type, until memory that is not theirs is used. *)
THEOREM TableCorrect == Spec => []TableSound
<1>1. SessionInv => TableSound
  <2> SUFFICES ASSUME SessionInv PROVE TableSound
    OBVIOUS
  <2>1. TypeOK
    BY DEF SessionInv, General, Types, TypeOK, Table
  <2>2. ASSUME ~badAccess
        PROVE  /\ \A i \in Present(pipes) : /\ pipes.apPipes[i] \in pipes.alloc
                                            /\ pipes.mem[pipes.apPipes[i]].pEvent
               /\ \A i, j \in Present(pipes) :
                     /\ pipes.mem[pipes.apPipes[i]].iEP = pipes.mem[pipes.apPipes[j]].iEP
                     /\ pipes.mem[pipes.apPipes[i]].iType = pipes.mem[pipes.apPipes[j]].iType
                     => i = j
    <3>1. pipes \in Table /\ Sound(pipes)
      BY <2>2 DEF SessionInv, General, Types
    <3>2. PICK k \in 0 .. Len(pipes.apPipes) : Walk(pipes, k)
      BY <3>1 DEF Sound
    <3>3. \A i \in Present(pipes) : Row(pipes, i)
      BY <3>1, <3>2, PresentWalk
    <3> QED
      BY <3>1, <3>3 DEF Sound, Key
  <2> QED
    BY <2>1, <2>2 DEF TableSound
<1> QED
  BY <1>1, SessionAlways, PTL

(* While no record is lost, opening, closing and opening again never leave *)
(* two reads of the data endpoint that are not closed: Callback_BulkInp    *)
(* does not start the receiver of a session that CLOSE_DEVICE has ended.   *)
THEOREM ReceiverUnique == Spec => []OneReceiver
<1>1. SessionInv => OneReceiver
  BY DEF SessionInv, Good, Receivers, Receiver, OneReceiver
<1> QED
  BY <1>1, SessionAlways, PTL

(* While no record is lost, the event that wakes usb_control_msg or        *)
(* usb_bulk_msg is that of its own transfer, and iCountRW is what that     *)
(* transfer moved: no callback of an earlier session or another pipe       *)
(* raises it or changes the count.                                         *)
THEOREM AnswerCorrect == Spec => []OwnAnswer
<1>1. SessionInv => OwnAnswer
  <2> SUFFICES ASSUME SessionInv, ~badAccess, ~Lost, pc = "wait", pipes.mem[endp].raised
               PROVE  own # -1 /\ pipes.mem[endp].iCountRW = own
    BY DEF OwnAnswer
  <2>1. /\ Types /\ Good /\ todo # <<>> /\ endp \in pipes.alloc
        /\ todo[1] # MakeContext /\ todo[1].wait /\ Key(pipes, endp) = <<todo[1].ep, todo[1].type>>
    BY DEF SessionInv, General, Good, Answering, Flow
  <2>2. Planned(todo[1])
    <3>1. Len(todo) \in Nat \ {0}
      BY <2>1, EmptySeq DEF Types
    <3> QED
      BY <2>1, <3>1 DEF Types, Good, Plan
  <2>3. ~(Key(pipes, endp) = <<"out", "BULK">> /\ Uart)
    BY <2>1, <2>2 DEF Planned
  <2> QED
    BY <2>1, <2>3 DEF Good, Raised
<1> QED
  BY <1>1, SessionAlways, PTL

(* A record gets out of reach in one way only: a callback makes a pipe     *)
(* when ClosePipes has done its first slot.  No failure in GetCreatePipe,  *)
(* no request and no earlier callback loses one.                           *)
THEOREM RecordsKept == Spec => LostInClose
<1>1. SessionInv /\ [Next]_vars => [~badAccess' /\ ~Lost /\ Lost' => pc = "close" /\ slot > 0]_vars
  <2> SUFFICES ASSUME SessionInv, [Next]_vars, ~badAccess', ~Lost, Lost'
               PROVE  pc = "close" /\ slot > 0
    OBVIOUS
  <2>1. Next
    BY NothingChanges
  <2>2. Types /\ Good
    BY <2>1 DEF SessionInv, General, Next
  <2>3. Types' /\ (Early => Good')
    BY <2>1, <2>2, StepKeeps DEF Keeps
  <2>4. Good' => ~Lost'
    <3>1. /\ pipes'.apPipes \in Seq(Addr \union {NULL}) /\ slot' \in Nat
          /\ DOMAIN pipes'.apPipes = 1 .. Len(pipes'.apPipes) /\ Len(pipes'.apPipes) \in Nat
      BY <2>3 DEF Types, Table
    <3>2. slot' + 1 .. Len(pipes'.apPipes) \subseteq DOMAIN pipes'.apPipes
      BY <3>1
    <3> QED
      BY <3>2 DEF Good, Rows, Lost
  <2>5. ~Early /\ slot \in Nat
    BY <2>2, <2>3, <2>4 DEF Types
  <2> QED
    BY <2>5 DEF Early
<1> QED
  BY <1>1, SessionAlways, PTL DEF Spec, LostInClose
=============================================================================
