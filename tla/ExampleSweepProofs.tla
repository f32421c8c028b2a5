--------------------------- MODULE ExampleSweepProofs ---------------------------
(***************************************************************************)
(* Theorems about ExampleSweep, for any number of samples, any addresses,  *)
(* any sorted table and any number of failures and scripts.                *)
(*                                                                         *)
(* The argument has two halves.  The first looks at the twenty programs as *)
(* sequences of operations and says what is true of each by inspection: in *)
(* which order they make, use and destroy their stack (Owned, Renewed,     *)
(* Fetched), and where what a sample reads was written (Flows).            *)
(*                                                                         *)
(* The second is the inductive invariant, which speaks of the operations   *)
(* still to do, whatever program they are from.  Its five parts are proved *)
(* one after the other: Basic (types, and the latest interpolation),       *)
(* Ownership (the stack and its handle), Data (what each variable was      *)
(* computed from), Outcome (rows, failures, files and plots) and Contents  *)
(* (what the files hold).  From them follow the properties and the         *)
(* refinement of SweepReport.                                              *)
(*                                                                         *)
(* The conversions of the MATLAB gateway need no invariant and come last.  *)
(***************************************************************************)
EXTENDS ExampleSweep, InterpNkProofs

(***************************************************************************)
(* Sequences of operations.                                                *)
(***************************************************************************)
Name == {"create", "add_layer", "get_layer", "getHandle", "destroy", "interp_nk_quadratic",
         "store", "write"} \cup StackCall \cup ArrayCall \cup NumberCall

\* These depend on the sample.
Strong == {"tmm", "tmm_s", "tmm_p", "found", "phase", "absorbed", "power"}

OpSet ==
  {op \in [do : Name, to : Variable \cup {"none"}, n : Nat, from : SUBSET Variable] :
     /\ op.do # "write" => op.n \in Pass
     /\ op.do \in {"create", "add_layer"} => op.to = "built"
     /\ op.do = "get_layer" => op.to = "layers"
     /\ op.do = "interp_nk_quadratic" => op.to = "nk"
     /\ op.do \in {"getHandle", "destroy", "store", "write"} <=> op.to = "none"
     /\ op.do = "create" => op.from = {}
     /\ op.do = "store" => "power" \in op.from
     /\ op.to \in Strong => op.do \in TakesSample \/ op.from \cap Strong # {}}

\* Between an operation of A and a later one of B there is one of C; before each
\* one of B there is one of C; after the last of A there is one of C; none is of A.
Between(t, A, B, C) ==
  \A a, b \in 1 .. Len(t) :
    a < b /\ t[a].do \in A /\ t[b].do \in B => \E c \in a + 1 .. b - 1 : t[c].do \in C
Before(t, B, C) ==
  \A b \in 1 .. Len(t) : t[b].do \in B => \E c \in 1 .. b - 1 : t[c].do \in C
Last(t, C, A) ==
  \E c \in 1 .. Len(t) : t[c].do \in C /\ \A b \in c + 1 .. Len(t) : t[b].do \notin A
None(t, A) == \A b \in 1 .. Len(t) : t[b].do \notin A

\* Taking the first operation off.
LEMMA TailFacts ==
  ASSUME NEW t \in Seq(OpSet), t # <<>>
  PROVE  /\ Tail(t) \in Seq(OpSet) /\ Len(t) \in Nat \ {0} /\ Len(Tail(t)) = Len(t) - 1
         /\ Head(t) = t[1] /\ Head(t) \in OpSet
         /\ \A k \in 1 .. Len(t) - 1 : Tail(t)[k] = t[k + 1]
OBVIOUS

\* The discipline of a resource.  An operation of A spoils it, one of C puts it in
\* order again, and one of B needs it in order; `bad' says that it is spoilt.
Safe(t, bad, A, B, C) == Between(t, A, B, C) /\ (bad => Before(t, B, C))

\* What is left of a part puts the resource in order.
Settles(t, bad, A, C) == Last(t, C, A) \/ (~bad /\ None(t, A))

\* An operation of B finds the resource in order, and what is left stays safe.
LEMMA SafeStep ==
  ASSUME NEW t \in Seq(OpSet), t # <<>>, NEW A, NEW B, NEW C,
         NEW bad \in BOOLEAN, NEW bad2 \in BOOLEAN, Safe(t, bad, A, B, C),
         Head(t).do \in C => ~bad2,
         bad2 /\ ~bad => Head(t).do \in A
  PROVE  Safe(Tail(t), bad2, A, B, C) /\ (bad => Head(t).do \notin B)
<1> DEFINE u == Tail(t)
<1>1. /\ u \in Seq(OpSet) /\ Len(t) \in Nat \ {0} /\ Len(u) = Len(t) - 1
      /\ Head(t) = t[1] /\ \A k \in 1 .. Len(t) - 1 : u[k] = t[k + 1]
  BY TailFacts
<1> HIDE DEF u
<1>2. Between(u, A, B, C)
  <2>1. SUFFICES ASSUME NEW a \in 1 .. Len(u), NEW b \in 1 .. Len(u), a < b,
                        u[a].do \in A, u[b].do \in B
                 PROVE  \E c \in a + 1 .. b - 1 : u[c].do \in C
    BY DEF Between
  <2>2. /\ a + 1 \in 1 .. Len(t) /\ b + 1 \in 1 .. Len(t) /\ a + 1 < b + 1
        /\ t[a + 1].do \in A /\ t[b + 1].do \in B
    BY <1>1, <2>1
  <2>3. PICK c \in (a + 1) + 1 .. (b + 1) - 1 : t[c].do \in C
    BY <2>2 DEF Safe, Between
  <2>4. c - 1 \in a + 1 .. b - 1 /\ u[c - 1] = t[(c - 1) + 1] /\ (c - 1) + 1 = c
    BY <1>1, <2>3
  <2>5. QED
    BY <2>3, <2>4
<1>3. ASSUME bad2 PROVE Before(u, B, C)
  <2>1. SUFFICES ASSUME NEW b \in 1 .. Len(u), u[b].do \in B
                 PROVE  \E c \in 1 .. b - 1 : u[c].do \in C
    BY DEF Before
  <2>2. b + 1 \in 1 .. Len(t) /\ t[b + 1].do \in B /\ 1 \in 1 .. Len(t) /\ 1 < b + 1
    BY <1>1, <2>1
  <2>3. PICK c \in 2 .. b : t[c].do \in C
    <3>1. CASE bad
      <4>1. PICK c \in 1 .. (b + 1) - 1 : t[c].do \in C
        BY <2>2, <3>1 DEF Safe, Before
      <4>2. c # 1
        BY <1>1, <1>3, <4>1
      <4>3. QED
        BY <4>1, <4>2
    <3>2. CASE ~bad
      <4>1. t[1].do \in A
        BY <1>1, <1>3, <3>2
      <4>2. \E c \in 1 + 1 .. (b + 1) - 1 : t[c].do \in C
        BY <2>2, <4>1 DEF Safe, Between
      <4>3. QED
        BY <4>2
    <3>3. QED
      BY <3>1, <3>2
  <2>4. c - 1 \in 1 .. b - 1 /\ u[c - 1] = t[(c - 1) + 1] /\ (c - 1) + 1 = c
    BY <1>1, <2>3
  <2>5. QED
    BY <2>3, <2>4
<1>4. ASSUME bad PROVE t[1].do \notin B
  <2>1. SUFFICES ASSUME t[1].do \in B PROVE FALSE
    OBVIOUS
  <2>2. \E c \in 1 .. 1 - 1 : t[c].do \in C
    BY <1>1, <1>4, <2>1 DEF Safe, Before
  <2>3. QED
    BY <2>2
<1>5. QED
  BY <1>1, <1>2, <1>3, <1>4 DEF Safe, u

\* What puts the resource in order still does when its first operation is done.
LEMMA SettlesStep ==
  ASSUME NEW t \in Seq(OpSet), t # <<>>, NEW A, NEW C,
         NEW bad \in BOOLEAN, NEW bad2 \in BOOLEAN, Settles(t, bad, A, C),
         Head(t).do \in C => ~bad2,
         bad2 /\ ~bad => Head(t).do \in A
  PROVE  Settles(Tail(t), bad2, A, C)
<1> DEFINE u == Tail(t)
<1>1. /\ u \in Seq(OpSet) /\ Len(t) \in Nat \ {0} /\ Len(u) = Len(t) - 1
      /\ Head(t) = t[1] /\ \A k \in 1 .. Len(t) - 1 : u[k] = t[k + 1]
  BY TailFacts
<1> HIDE DEF u
<1>2. CASE Last(t, C, A)
  <2>1. PICK c \in 1 .. Len(t) : t[c].do \in C /\ \A b \in c + 1 .. Len(t) : t[b].do \notin A
    BY <1>2 DEF Last
  <2>2. ASSUME NEW b \in 1 .. Len(u), b >= c PROVE u[b].do \notin A
    <3>1. b + 1 \in c + 1 .. Len(t) /\ u[b] = t[b + 1]
      BY <1>1, <2>2
    <3>2. QED
      BY <2>1, <3>1
  <2>3. CASE c = 1
    <3>1. ~bad2 /\ None(u, A)
      BY <1>1, <2>1, <2>2, <2>3 DEF None
    <3>2. QED
      BY <3>1 DEF Settles, u
  <2>4. CASE c # 1
    <3>1. c - 1 \in 1 .. Len(u) /\ u[c - 1] = t[(c - 1) + 1] /\ (c - 1) + 1 = c
      BY <1>1, <2>1, <2>4
    <3>2. \A b \in (c - 1) + 1 .. Len(u) : u[b].do \notin A
      BY <2>1, <2>2, <3>1
    <3>3. Last(u, C, A)
      BY <2>1, <3>1, <3>2 DEF Last
    <3>4. QED
      BY <3>3 DEF Settles, u
  <2>5. QED
    BY <2>3, <2>4
<1>3. CASE ~bad /\ None(t, A)
  <2>1. t[1].do \notin A /\ None(u, A)
    BY <1>1, <1>3 DEF None
  <2>2. QED
    BY <1>1, <1>3, <2>1 DEF Settles, u
<1>4. QED
  BY <1>2, <1>3 DEF Settles
--------------------------------------------------------------------------------
(***************************************************************************)
(* What is true of the programs.                                           *)
(***************************************************************************)
Parts(p) == {p.before, p.sample, p.after}

Ordered(p, A, B, C) == \A t \in Parts(p) : Between(t, A, B, C)

\* A sample may begin with the resource spoilt, or it never does.
Open(p, B, C) == Before(p.sample, B, C) /\ Before(p.after, B, C)
Shut(p, A, C) ==
  \A t \in {p.before, p.sample} : Last(t, C, A) \/ None(t, A)

StackUse == StackCall \cup {"get_layer", "add_layer", "destroy"}
HandleUse == StackCall \cup {"get_layer"}
Spoils == {"create", "destroy"}

\* C and C#: a program has a stack, or none.  It makes one only while it has none,
\* and has none at its end.
Owned(p) ==
  /\ Ordered(p, {"create"}, {"create"}, {"destroy"})
  /\ Open(p, {"create"}, {"destroy"}) \/ Shut(p, {"create"}, {"destroy"})
  /\ \/ Last(p.after, {"destroy"}, {"create"})
     \/ None(p.after, {"create"}) /\ Shut(p, {"create"}, {"destroy"})

\* C: after a destroy the stack variable dangles until the next create.
Renewed(p) ==
  /\ Ordered(p, {"destroy"}, StackUse, {"create"})
  /\ Open(p, StackUse, {"create"}) \/ Shut(p, {"destroy"}, {"create"})

\* MATLAB: after a create the number in h is out of date until the next getHandle,
\* and it is when a script begins.
Fetched(p) ==
  /\ Ordered(p, Spoils, HandleUse, {"getHandle"})
  /\ Before(p.before, HandleUse, {"getHandle"})
  /\ \/ Open(p, HandleUse, {"getHandle"})
     \/ Last(p.before, {"getHandle"}, Spoils) /\ Shut(p, Spoils, {"getHandle"})

\* What an operation reads was last written in its own pass.
SamePass(t) ==
  \A j, k \in 1 .. Len(t) :
    j < k /\ t[j].to \in t[k].from /\ (\A m \in j + 1 .. k - 1 : t[m].to # t[j].to)
      => t[j].n = t[k].n

\* What an operation reads, an earlier one wrote, or it is in S.
Sourced(t, S) ==
  \A k \in 1 .. Len(t) : \A v \in t[k].from : v \in S \/ \E j \in 1 .. k - 1 : t[j].to = v

\* The variables a sample reads from before the loop.
Kept(e, l) ==
  IF e \in {"reflection", "resonance"} /\ l = "matlab" THEN {"built"}
  ELSE IF e \in {"absorption", "reflection", "resonance"} THEN Outer(e) ELSE {}

\* What may be in the three parts.  Only a C program may be led astray.
InBefore(e, l, op) ==
  /\ op.do \notin {"store", "write"}
  /\ l = "c" /\ op.do \in Unchecked => ReliesOn(op.do) \in op.from
InSample(e, l, op) ==
  /\ op.do # "write" /\ op.to \notin Kept(e, l)
  /\ l = "c" /\ op.do \in Unchecked => ReliesOn(op.do) \in op.from \cup Kept(e, l)
InAfter(op) == op.do \in {"write", "destroy"}

Stores(t, pass) == \E k \in 1 .. Len(t) : t[k].do = "store" /\ t[k].n = pass
Writes(t, curves) == \E k \in 1 .. Len(t) : t[k].do = "write" /\ t[k].n = curves
Assigns(t, v) == \E k \in 1 .. Len(t) : t[k].to = v

\* The files or plots of a program.
Curves(e, l) == IF e = "transmission" THEN {1}
                ELSE IF e = "absorption" /\ l # "matlab" THEN {2, 3} ELSE {2}

\* Where the operations of a part may read from, which ones there are, and what
\* they achieve.
InPasses(p) == SamePass(p.before) /\ SamePass(p.sample) /\ SamePass(p.after)
Sources(e, l, p) ==
  Sourced(p.before, {}) /\ Sourced(p.sample, Kept(e, l)) /\ Sourced(p.after, {})
Places(e, l, p) ==
  /\ \A k \in 1 .. Len(p.before) : InBefore(e, l, p.before[k])
  /\ \A k \in 1 .. Len(p.sample) : InSample(e, l, p.sample[k])
  /\ \A k \in 1 .. Len(p.after) : InAfter(p.after[k])
Delivers(e, l, p) ==
  /\ \A v \in Kept(e, l) : Assigns(p.before, v)
  /\ \A pass \in Computed(e) : Stores(p.sample, pass)
  /\ \A curves \in Nat : Writes(p.after, curves) <=> curves \in Curves(e, l)

\* The data of a program: each sample computes what it stores from what it wrote
\* itself, or what was written before the loop.
Flows(e, l, p) ==
  InPasses(p) /\ Sources(e, l, p) /\ Places(e, l, p) /\ Delivers(e, l, p)

Typed(p) == \A t \in Parts(p) : t \in Seq(OpSet)

USE DEF Program, Op, Create, AddLayers, GetLayers, GetHandle, Destroy, Interpolate,
        Direction, LastS, LastP, Ellipsometric, Numbers, Store, Write, Results, Evaluated,
        Amplitudes, AtDepth, Absorbed, Field, Poynting, TwoAngles, NewStack, PowerS,
        Transmitted, OneAngle

\* Every part is a sequence of operations.
LEMMA TypedPrograms == \A e \in Example, l \in Language : Typed(Script(e, l))
<1>1. /\ Typed(AbsorptionC) /\ Typed(AbsorptionCSharp)
      /\ Typed(AbsorptionFortran) /\ Typed(AbsorptionMatlab)
  BY DEF AbsorptionC, AbsorptionCSharp, AbsorptionFortran, AbsorptionMatlab, Typed, Parts,
     OpSet, Name,
     StackCall, ArrayCall, NumberCall, TakesSample, Variable, Pass, Strong
<1>2. /\ Typed(ReflectionC) /\ Typed(ReflectionCSharp)
      /\ Typed(ReflectionFortran) /\ Typed(ReflectionMatlab)
  BY DEF ReflectionC, ReflectionCSharp, ReflectionFortran, ReflectionMatlab, Typed, Parts,
     OpSet, Name,
     StackCall, ArrayCall, NumberCall, TakesSample, Variable, Pass, Strong
<1>3. /\ Typed(TransmissionC) /\ Typed(TransmissionCSharp)
      /\ Typed(TransmissionFortran) /\ Typed(TransmissionMatlab)
  BY DEF TransmissionC, TransmissionCSharp, TransmissionFortran, TransmissionMatlab, Typed,
     Parts, OpSet, Name,
     StackCall, ArrayCall, NumberCall, TakesSample, Variable, Pass, Strong
<1>4. /\ Typed(EllipsometryC) /\ Typed(EllipsometryCSharp)
      /\ Typed(EllipsometryFortran) /\ Typed(EllipsometryMatlab)
  BY DEF EllipsometryC, EllipsometryCSharp, EllipsometryFortran, EllipsometryMatlab, Typed,
     Parts, OpSet, Name,
     StackCall, ArrayCall, NumberCall, TakesSample, Variable, Pass, Strong
<1>5. /\ Typed(ResonanceC) /\ Typed(ResonanceCSharp)
      /\ Typed(ResonanceFortran) /\ Typed(ResonanceMatlab)
  BY DEF ResonanceC, ResonanceCSharp, ResonanceFortran, ResonanceMatlab, Typed, Parts, OpSet,
     Name,
     StackCall, ArrayCall, NumberCall, TakesSample, Variable, Pass, Strong
<1>6. QED
  BY <1>1, <1>2, <1>3, <1>4, <1>5 DEF Script, Example, Language

\* No part of a program has twenty operations.
Longest == 20
Short(p) == \A t \in Parts(p) : Len(t) < Longest

LEMMA ShortPrograms == \A e \in Example, l \in Language : Short(Script(e, l))
<1>1. /\ Short(AbsorptionC) /\ Short(AbsorptionCSharp)
      /\ Short(AbsorptionFortran) /\ Short(AbsorptionMatlab)
  BY DEF AbsorptionC, AbsorptionCSharp, AbsorptionFortran, AbsorptionMatlab,
     Short, Parts, Longest
<1>2. /\ Short(ReflectionC) /\ Short(ReflectionCSharp)
      /\ Short(ReflectionFortran) /\ Short(ReflectionMatlab)
  BY DEF ReflectionC, ReflectionCSharp, ReflectionFortran, ReflectionMatlab,
     Short, Parts, Longest
<1>3. /\ Short(TransmissionC) /\ Short(TransmissionCSharp)
      /\ Short(TransmissionFortran) /\ Short(TransmissionMatlab)
  BY DEF TransmissionC, TransmissionCSharp, TransmissionFortran, TransmissionMatlab,
     Short, Parts, Longest
<1>4. /\ Short(EllipsometryC) /\ Short(EllipsometryCSharp)
      /\ Short(EllipsometryFortran) /\ Short(EllipsometryMatlab)
  BY DEF EllipsometryC, EllipsometryCSharp, EllipsometryFortran, EllipsometryMatlab,
     Short, Parts, Longest
<1>5. /\ Short(ResonanceC) /\ Short(ResonanceCSharp)
      /\ Short(ResonanceFortran) /\ Short(ResonanceMatlab)
  BY DEF ResonanceC, ResonanceCSharp, ResonanceFortran, ResonanceMatlab,
     Short, Parts, Longest
<1>6. QED
  BY <1>1, <1>2, <1>3, <1>4, <1>5 DEF Script, Example, Language

\* The C and C# programs have one stack at a time.
LEMMA OwnedPrograms == \A e \in Example, l \in {"c", "csharp"} : Owned(Script(e, l))
<1>1. Owned(AbsorptionC) /\ Owned(AbsorptionCSharp)
  BY DEF AbsorptionC, AbsorptionCSharp, Owned, Parts, Ordered, Open, Shut,
     Between, Before, Last, None
<1>2. Owned(ReflectionC) /\ Owned(ReflectionCSharp)
  BY DEF ReflectionC, ReflectionCSharp, Owned, Parts, Ordered, Open, Shut,
     Between, Before, Last, None
<1>3. Owned(TransmissionC) /\ Owned(TransmissionCSharp)
  BY DEF TransmissionC, TransmissionCSharp, Owned, Parts, Ordered, Open, Shut,
     Between, Before, Last, None
<1>4. Owned(EllipsometryC) /\ Owned(EllipsometryCSharp)
  BY DEF EllipsometryC, EllipsometryCSharp, Owned, Parts, Ordered, Open, Shut,
     Between, Before, Last, None
<1>5. Owned(ResonanceC) /\ Owned(ResonanceCSharp)
  BY DEF ResonanceC, ResonanceCSharp, Owned, Parts, Ordered, Open, Shut,
     Between, Before, Last, None
<1>6. QED
  BY <1>1, <1>2, <1>3, <1>4, <1>5 DEF Script, Example

\* The C programs use no stack they destroyed.
LEMMA RenewedPrograms == \A e \in Example : Renewed(Script(e, "c"))
<1>1. Renewed(AbsorptionC)
  BY DEF AbsorptionC, Renewed, Parts, Ordered, Open, Shut,
     Between, Before, Last, None,
     StackUse, StackCall
<1>2. Renewed(ReflectionC)
  BY DEF ReflectionC, Renewed, Parts, Ordered, Open, Shut,
     Between, Before, Last, None,
     StackUse, StackCall
<1>3. Renewed(TransmissionC)
  BY DEF TransmissionC, Renewed, Parts, Ordered, Open, Shut,
     Between, Before, Last, None,
     StackUse, StackCall
<1>4. Renewed(EllipsometryC)
  BY DEF EllipsometryC, Renewed, Parts, Ordered, Open, Shut,
     Between, Before, Last, None,
     StackUse, StackCall
<1>5. Renewed(ResonanceC)
  BY DEF ResonanceC, Renewed, Parts, Ordered, Open, Shut,
     Between, Before, Last, None,
     StackUse, StackCall
<1>6. QED
  BY <1>1, <1>2, <1>3, <1>4, <1>5 DEF Script, Example

\* The MATLAB programs fetch the number of each new stack before they use it.
LEMMA FetchedPrograms == \A e \in Example : Fetched(Script(e, "matlab"))
<1>1. Fetched(AbsorptionMatlab)
  BY DEF AbsorptionMatlab, Fetched, Parts, Ordered, Open, Shut,
     Between, Before, Last, None,
     Spoils, HandleUse, StackCall
<1>2. Fetched(ReflectionMatlab)
  BY DEF ReflectionMatlab, Fetched, Parts, Ordered, Open, Shut,
     Between, Before, Last, None,
     Spoils, HandleUse, StackCall
<1>3. Fetched(TransmissionMatlab)
  BY DEF TransmissionMatlab, Fetched, Parts, Ordered, Open, Shut,
     Between, Before, Last, None,
     Spoils, HandleUse, StackCall
<1>4. Fetched(EllipsometryMatlab)
  BY DEF EllipsometryMatlab, Fetched, Parts, Ordered, Open, Shut,
     Between, Before, Last, None,
     Spoils, HandleUse, StackCall
<1>5. Fetched(ResonanceMatlab)
  BY DEF ResonanceMatlab, Fetched, Parts, Ordered, Open, Shut,
     Between, Before, Last, None,
     Spoils, HandleUse, StackCall
<1>6. QED
  BY <1>1, <1>2, <1>3, <1>4, <1>5 DEF Script, Example

\* What a sample stores, it computed.
LEMMA FlowingPrograms == \A e \in Example, l \in Language : Flows(e, l, Script(e, l))
<1>1. Flows("absorption", "c", AbsorptionC)
  <2>1. InPasses(AbsorptionC)
    BY DEF AbsorptionC, InPasses, SamePass
  <2>2. Sources("absorption", "c", AbsorptionC)
    BY DEF AbsorptionC, Sources, Sourced, Kept, Outer
  <2>3. Places("absorption", "c", AbsorptionC)
    BY DEF AbsorptionC, Places, InBefore, InSample, InAfter, Kept, Outer, Unchecked,
       ReliesOn
  <2>4. Delivers("absorption", "c", AbsorptionC)
    BY DEF AbsorptionC, Delivers, Stores, Writes, Assigns, Kept, Outer, Computed, Curves
  <2>5. QED
    BY <2>1, <2>2, <2>3, <2>4 DEF Flows
<1>2. Flows("absorption", "csharp", AbsorptionCSharp)
  <2>1. InPasses(AbsorptionCSharp)
    BY DEF AbsorptionCSharp, InPasses, SamePass
  <2>2. Sources("absorption", "csharp", AbsorptionCSharp)
    BY DEF AbsorptionCSharp, Sources, Sourced, Kept, Outer
  <2>3. Places("absorption", "csharp", AbsorptionCSharp)
    BY DEF AbsorptionCSharp, Places, InBefore, InSample, InAfter, Kept, Outer, Unchecked,
       ReliesOn
  <2>4. Delivers("absorption", "csharp", AbsorptionCSharp)
    BY DEF AbsorptionCSharp, Delivers, Stores, Writes, Assigns, Kept, Outer, Computed, Curves
  <2>5. QED
    BY <2>1, <2>2, <2>3, <2>4 DEF Flows
<1>3. Flows("absorption", "fortran", AbsorptionFortran)
  <2>1. InPasses(AbsorptionFortran)
    BY DEF AbsorptionFortran, InPasses, SamePass
  <2>2. Sources("absorption", "fortran", AbsorptionFortran)
    BY DEF AbsorptionFortran, Sources, Sourced, Kept, Outer
  <2>3. Places("absorption", "fortran", AbsorptionFortran)
    BY DEF AbsorptionFortran, Places, InBefore, InSample, InAfter, Kept, Outer, Unchecked,
       ReliesOn
  <2>4. Delivers("absorption", "fortran", AbsorptionFortran)
    BY DEF AbsorptionFortran, Delivers, Stores, Writes, Assigns, Kept, Outer, Computed, Curves
  <2>5. QED
    BY <2>1, <2>2, <2>3, <2>4 DEF Flows
<1>4. Flows("absorption", "matlab", AbsorptionMatlab)
  <2>1. InPasses(AbsorptionMatlab)
    BY DEF AbsorptionMatlab, InPasses, SamePass
  <2>2. Sources("absorption", "matlab", AbsorptionMatlab)
    BY DEF AbsorptionMatlab, Sources, Sourced, Kept, Outer
  <2>3. Places("absorption", "matlab", AbsorptionMatlab)
    BY DEF AbsorptionMatlab, Places, InBefore, InSample, InAfter, Kept, Outer, Unchecked,
       ReliesOn
  <2>4. Delivers("absorption", "matlab", AbsorptionMatlab)
    BY DEF AbsorptionMatlab, Delivers, Stores, Writes, Assigns, Kept, Outer, Computed, Curves
  <2>5. QED
    BY <2>1, <2>2, <2>3, <2>4 DEF Flows
<1>5. Flows("reflection", "c", ReflectionC)
  <2>1. InPasses(ReflectionC)
    BY DEF ReflectionC, InPasses, SamePass
  <2>2. Sources("reflection", "c", ReflectionC)
    BY DEF ReflectionC, Sources, Sourced, Kept, Outer
  <2>3. Places("reflection", "c", ReflectionC)
    BY DEF ReflectionC, Places, InBefore, InSample, InAfter, Kept, Outer, Unchecked,
       ReliesOn
  <2>4. Delivers("reflection", "c", ReflectionC)
    BY DEF ReflectionC, Delivers, Stores, Writes, Assigns, Kept, Outer, Computed, Curves
  <2>5. QED
    BY <2>1, <2>2, <2>3, <2>4 DEF Flows
<1>6. Flows("reflection", "csharp", ReflectionCSharp)
  <2>1. InPasses(ReflectionCSharp)
    BY DEF ReflectionCSharp, InPasses, SamePass
  <2>2. Sources("reflection", "csharp", ReflectionCSharp)
    BY DEF ReflectionCSharp, Sources, Sourced, Kept, Outer
  <2>3. Places("reflection", "csharp", ReflectionCSharp)
    BY DEF ReflectionCSharp, Places, InBefore, InSample, InAfter, Kept, Outer, Unchecked,
       ReliesOn
  <2>4. Delivers("reflection", "csharp", ReflectionCSharp)
    BY DEF ReflectionCSharp, Delivers, Stores, Writes, Assigns, Kept, Outer, Computed, Curves
  <2>5. QED
    BY <2>1, <2>2, <2>3, <2>4 DEF Flows
<1>7. Flows("reflection", "fortran", ReflectionFortran)
  <2>1. InPasses(ReflectionFortran)
    BY DEF ReflectionFortran, InPasses, SamePass
  <2>2. Sources("reflection", "fortran", ReflectionFortran)
    BY DEF ReflectionFortran, Sources, Sourced, Kept, Outer
  <2>3. Places("reflection", "fortran", ReflectionFortran)
    BY DEF ReflectionFortran, Places, InBefore, InSample, InAfter, Kept, Outer, Unchecked,
       ReliesOn
  <2>4. Delivers("reflection", "fortran", ReflectionFortran)
    BY DEF ReflectionFortran, Delivers, Stores, Writes, Assigns, Kept, Outer, Computed, Curves
  <2>5. QED
    BY <2>1, <2>2, <2>3, <2>4 DEF Flows
<1>8. Flows("reflection", "matlab", ReflectionMatlab)
  <2>1. InPasses(ReflectionMatlab)
    BY DEF ReflectionMatlab, InPasses, SamePass
  <2>2. Sources("reflection", "matlab", ReflectionMatlab)
    BY DEF ReflectionMatlab, Sources, Sourced, Kept, Outer
  <2>3. Places("reflection", "matlab", ReflectionMatlab)
    BY DEF ReflectionMatlab, Places, InBefore, InSample, InAfter, Kept, Outer, Unchecked,
       ReliesOn
  <2>4. Delivers("reflection", "matlab", ReflectionMatlab)
    BY DEF ReflectionMatlab, Delivers, Stores, Writes, Assigns, Kept, Outer, Computed, Curves
  <2>5. QED
    BY <2>1, <2>2, <2>3, <2>4 DEF Flows
<1>9. Flows("transmission", "c", TransmissionC)
  <2>1. InPasses(TransmissionC)
    BY DEF TransmissionC, InPasses, SamePass
  <2>2. Sources("transmission", "c", TransmissionC)
    BY DEF TransmissionC, Sources, Sourced, Kept, Outer
  <2>3. Places("transmission", "c", TransmissionC)
    BY DEF TransmissionC, Places, InBefore, InSample, InAfter, Kept, Outer, Unchecked,
       ReliesOn
  <2>4. Delivers("transmission", "c", TransmissionC)
    BY DEF TransmissionC, Delivers, Stores, Writes, Assigns, Kept, Outer, Computed, Curves
  <2>5. QED
    BY <2>1, <2>2, <2>3, <2>4 DEF Flows
<1>10. Flows("transmission", "csharp", TransmissionCSharp)
  <2>1. InPasses(TransmissionCSharp)
    BY DEF TransmissionCSharp, InPasses, SamePass
  <2>2. Sources("transmission", "csharp", TransmissionCSharp)
    BY DEF TransmissionCSharp, Sources, Sourced, Kept, Outer
  <2>3. Places("transmission", "csharp", TransmissionCSharp)
    BY DEF TransmissionCSharp, Places, InBefore, InSample, InAfter, Kept, Outer, Unchecked,
       ReliesOn
  <2>4. Delivers("transmission", "csharp", TransmissionCSharp)
    BY DEF TransmissionCSharp, Delivers, Stores, Writes, Assigns, Kept, Outer, Computed, Curves
  <2>5. QED
    BY <2>1, <2>2, <2>3, <2>4 DEF Flows
<1>11. Flows("transmission", "fortran", TransmissionFortran)
  <2>1. InPasses(TransmissionFortran)
    BY DEF TransmissionFortran, InPasses, SamePass
  <2>2. Sources("transmission", "fortran", TransmissionFortran)
    BY DEF TransmissionFortran, Sources, Sourced, Kept, Outer
  <2>3. Places("transmission", "fortran", TransmissionFortran)
    BY DEF TransmissionFortran, Places, InBefore, InSample, InAfter, Kept, Outer, Unchecked,
       ReliesOn
  <2>4. Delivers("transmission", "fortran", TransmissionFortran)
    BY DEF TransmissionFortran, Delivers, Stores, Writes, Assigns, Kept, Outer, Computed, Curves
  <2>5. QED
    BY <2>1, <2>2, <2>3, <2>4 DEF Flows
<1>12. Flows("transmission", "matlab", TransmissionMatlab)
  <2>1. InPasses(TransmissionMatlab)
    BY DEF TransmissionMatlab, InPasses, SamePass
  <2>2. Sources("transmission", "matlab", TransmissionMatlab)
    BY DEF TransmissionMatlab, Sources, Sourced, Kept, Outer
  <2>3. Places("transmission", "matlab", TransmissionMatlab)
    BY DEF TransmissionMatlab, Places, InBefore, InSample, InAfter, Kept, Outer, Unchecked,
       ReliesOn
  <2>4. Delivers("transmission", "matlab", TransmissionMatlab)
    BY DEF TransmissionMatlab, Delivers, Stores, Writes, Assigns, Kept, Outer, Computed, Curves
  <2>5. QED
    BY <2>1, <2>2, <2>3, <2>4 DEF Flows
<1>13. Flows("ellipsometry", "c", EllipsometryC)
  <2>1. InPasses(EllipsometryC)
    BY DEF EllipsometryC, InPasses, SamePass
  <2>2. Sources("ellipsometry", "c", EllipsometryC)
    BY DEF EllipsometryC, Sources, Sourced, Kept, Outer
  <2>3. Places("ellipsometry", "c", EllipsometryC)
    BY DEF EllipsometryC, Places, InBefore, InSample, InAfter, Kept, Outer, Unchecked,
       ReliesOn
  <2>4. Delivers("ellipsometry", "c", EllipsometryC)
    BY DEF EllipsometryC, Delivers, Stores, Writes, Assigns, Kept, Outer, Computed, Curves
  <2>5. QED
    BY <2>1, <2>2, <2>3, <2>4 DEF Flows
<1>14. Flows("ellipsometry", "csharp", EllipsometryCSharp)
  <2>1. InPasses(EllipsometryCSharp)
    BY DEF EllipsometryCSharp, InPasses, SamePass
  <2>2. Sources("ellipsometry", "csharp", EllipsometryCSharp)
    BY DEF EllipsometryCSharp, Sources, Sourced, Kept, Outer
  <2>3. Places("ellipsometry", "csharp", EllipsometryCSharp)
    BY DEF EllipsometryCSharp, Places, InBefore, InSample, InAfter, Kept, Outer, Unchecked,
       ReliesOn
  <2>4. Delivers("ellipsometry", "csharp", EllipsometryCSharp)
    BY DEF EllipsometryCSharp, Delivers, Stores, Writes, Assigns, Kept, Outer, Computed, Curves
  <2>5. QED
    BY <2>1, <2>2, <2>3, <2>4 DEF Flows
<1>15. Flows("ellipsometry", "fortran", EllipsometryFortran)
  <2>1. InPasses(EllipsometryFortran)
    BY DEF EllipsometryFortran, InPasses, SamePass
  <2>2. Sources("ellipsometry", "fortran", EllipsometryFortran)
    BY DEF EllipsometryFortran, Sources, Sourced, Kept, Outer
  <2>3. Places("ellipsometry", "fortran", EllipsometryFortran)
    BY DEF EllipsometryFortran, Places, InBefore, InSample, InAfter, Kept, Outer, Unchecked,
       ReliesOn
  <2>4. Delivers("ellipsometry", "fortran", EllipsometryFortran)
    BY DEF EllipsometryFortran, Delivers, Stores, Writes, Assigns, Kept, Outer, Computed, Curves
  <2>5. QED
    BY <2>1, <2>2, <2>3, <2>4 DEF Flows
<1>16. Flows("ellipsometry", "matlab", EllipsometryMatlab)
  <2>1. InPasses(EllipsometryMatlab)
    BY DEF EllipsometryMatlab, InPasses, SamePass
  <2>2. Sources("ellipsometry", "matlab", EllipsometryMatlab)
    BY DEF EllipsometryMatlab, Sources, Sourced, Kept, Outer
  <2>3. Places("ellipsometry", "matlab", EllipsometryMatlab)
    BY DEF EllipsometryMatlab, Places, InBefore, InSample, InAfter, Kept, Outer, Unchecked,
       ReliesOn
  <2>4. Delivers("ellipsometry", "matlab", EllipsometryMatlab)
    BY DEF EllipsometryMatlab, Delivers, Stores, Writes, Assigns, Kept, Outer, Computed, Curves
  <2>5. QED
    BY <2>1, <2>2, <2>3, <2>4 DEF Flows
<1>17. Flows("resonance", "c", ResonanceC)
  <2>1. InPasses(ResonanceC)
    BY DEF ResonanceC, InPasses, SamePass
  <2>2. Sources("resonance", "c", ResonanceC)
    BY DEF ResonanceC, Sources, Sourced, Kept, Outer
  <2>3. Places("resonance", "c", ResonanceC)
    BY DEF ResonanceC, Places, InBefore, InSample, InAfter, Kept, Outer, Unchecked,
       ReliesOn
  <2>4. Delivers("resonance", "c", ResonanceC)
    BY DEF ResonanceC, Delivers, Stores, Writes, Assigns, Kept, Outer, Computed, Curves
  <2>5. QED
    BY <2>1, <2>2, <2>3, <2>4 DEF Flows
<1>18. Flows("resonance", "csharp", ResonanceCSharp)
  <2>1. InPasses(ResonanceCSharp)
    BY DEF ResonanceCSharp, InPasses, SamePass
  <2>2. Sources("resonance", "csharp", ResonanceCSharp)
    BY DEF ResonanceCSharp, Sources, Sourced, Kept, Outer
  <2>3. Places("resonance", "csharp", ResonanceCSharp)
    BY DEF ResonanceCSharp, Places, InBefore, InSample, InAfter, Kept, Outer, Unchecked,
       ReliesOn
  <2>4. Delivers("resonance", "csharp", ResonanceCSharp)
    BY DEF ResonanceCSharp, Delivers, Stores, Writes, Assigns, Kept, Outer, Computed, Curves
  <2>5. QED
    BY <2>1, <2>2, <2>3, <2>4 DEF Flows
<1>19. Flows("resonance", "fortran", ResonanceFortran)
  <2>1. InPasses(ResonanceFortran)
    BY DEF ResonanceFortran, InPasses, SamePass
  <2>2. Sources("resonance", "fortran", ResonanceFortran)
    BY DEF ResonanceFortran, Sources, Sourced, Kept, Outer
  <2>3. Places("resonance", "fortran", ResonanceFortran)
    BY DEF ResonanceFortran, Places, InBefore, InSample, InAfter, Kept, Outer, Unchecked,
       ReliesOn
  <2>4. Delivers("resonance", "fortran", ResonanceFortran)
    BY DEF ResonanceFortran, Delivers, Stores, Writes, Assigns, Kept, Outer, Computed, Curves
  <2>5. QED
    BY <2>1, <2>2, <2>3, <2>4 DEF Flows
<1>20. Flows("resonance", "matlab", ResonanceMatlab)
  <2>1. InPasses(ResonanceMatlab)
    BY DEF ResonanceMatlab, InPasses, SamePass
  <2>2. Sources("resonance", "matlab", ResonanceMatlab)
    BY DEF ResonanceMatlab, Sources, Sourced, Kept, Outer
  <2>3. Places("resonance", "matlab", ResonanceMatlab)
    BY DEF ResonanceMatlab, Places, InBefore, InSample, InAfter, Kept, Outer, Unchecked,
       ReliesOn
  <2>4. Delivers("resonance", "matlab", ResonanceMatlab)
    BY DEF ResonanceMatlab, Delivers, Stores, Writes, Assigns, Kept, Outer, Computed, Curves
  <2>5. QED
    BY <2>1, <2>2, <2>3, <2>4 DEF Flows
<1>21. QED
  BY <1>1, <1>2, <1>3, <1>4, <1>5, <1>6, <1>7, <1>8, <1>9, <1>10, <1>11, <1>12, <1>13, <1>14,
     <1>15, <1>16, <1>17, <1>18, <1>19, <1>20
  DEF Script, Example, Language

HIDE DEF Program, Op, Create, AddLayers, GetLayers, GetHandle, Destroy, Interpolate,
        Direction, LastS, LastP, Ellipsometric, Numbers, Store, Write, Results, Evaluated,
        Amplitudes, AtDepth, Absorbed, Field, Poynting, TwoAngles, NewStack, PowerS,
        Transmitted, OneAngle
--------------------------------------------------------------------------------
(***************************************************************************)
(* The steps.                                                              *)
(***************************************************************************)
\* A step that does the next operation of the program.
Works == \/ DoCreate \/ DoFill \/ DoGetLayers \/ DoGetHandle \/ DoFree
         \/ DoStackCall \/ DoArrayCall \/ DoNumbers \/ DoInterpolate \/ DoStray
         \/ DoStore \/ DoWrite

LEMMA NextSplits == Next => NextPart \/ RunScript \/ Ended \/ Works
BY DEF Next, Works

LEMMA StatusAfterCall == \A do : AfterCall(do) \in {"running", "aborted", "undefined"}
BY DEF AfterCall, Passage

\* Unless it stops the program, it takes the operation off, and only three
\* operations change who owns the stack.
LEMMA WorkFacts ==
  ASSUME Works
  PROVE  /\ status = "running" /\ todo # <<>> /\ UNCHANGED process /\ UNCHANGED i
         /\ status' \in {"running", "aborted", "undefined"}
         /\ status' = "running" => todo' = Tail(todo)
         /\ todo' \in {todo, Tail(todo), <<>>}
         /\ \/ DoCreate \/ DoGetHandle \/ DoFree
            \/ UNCHANGED owner /\ Head(todo).do \notin {"create", "getHandle", "destroy"}
<1> USE DEF Succeeds, Fails, Advance
<1>1. CASE DoCreate
  BY <1>1, StatusAfterCall DEF DoCreate, Doing
<1>2. CASE DoFill
  BY <1>2, StatusAfterCall DEF DoFill, Doing
<1>3. CASE DoGetLayers
  BY <1>3, StatusAfterCall DEF DoGetLayers, Doing
<1>4. CASE DoGetHandle
  BY <1>4, StatusAfterCall DEF DoGetHandle, Doing
<1>5. CASE DoFree
  BY <1>5, StatusAfterCall DEF DoFree, Doing
<1>6. CASE DoStackCall
  BY <1>6, StatusAfterCall DEF DoStackCall, Doing, StackCall
<1>7. CASE DoArrayCall
  BY <1>7, StatusAfterCall DEF DoArrayCall, Doing, ArrayCall
<1>8. CASE DoNumbers
  BY <1>8, StatusAfterCall DEF DoNumbers, Doing, NumberCall
<1>9. CASE DoInterpolate
  BY <1>9, StatusAfterCall DEF DoInterpolate, Doing
<1>10. CASE DoStray
  BY <1>10 DEF DoStray, Doing, Unchecked
<1>11. CASE DoStore
  BY <1>11, StatusAfterCall DEF DoStore, Doing
<1>12. CASE DoWrite
  BY <1>12, StatusAfterCall DEF DoWrite, Doing
<1>13. QED
  BY <1>1, <1>2, <1>3, <1>4, <1>5, <1>6, <1>7, <1>8, <1>9, <1>10, <1>11, <1>12 DEF Works
--------------------------------------------------------------------------------
(***************************************************************************)
(* Types.                                                                  *)
(***************************************************************************)
LEMMA PartTyped ==
  ASSUME example \in Example, lang \in Language, NEW n
  PROVE  Part(n) \in Seq(OpSet) /\ Script(example, lang).before \in Seq(OpSet)
BY TypedPrograms DEF Part, Typed, Parts

\* Only samples of the table enter an interpolation.
LEMMA InterpRange ==
  ASSUME NEW x \in Int, NEW l
  PROVE  Interp(l, Table, x) \subseteq 1 .. Len(Table)
<1>1. Table \in Seq(Int) /\ Len(Table) \in Nat /\ Len(Table) >= 3
  BY TableAssumption
<1>2. CASE Inside(Table, x)
  <2>1. Encloses(Interp(l, Table, x), Table, x)
    BY <1>1, <1>2, TableAssumption, InterpolationCorrect
  <2>2. QED
    BY <1>1, <2>1 DEF Encloses
<1>3. CASE ~Inside(Table, x)
  <2>1. Table[1] \in Int /\ Table[Len(Table)] \in Int
    BY <1>1
  <2>2. Interp(l, Table, x) \in {{1}, {Len(Table)}}
    BY <1>1, <1>3, <2>1 DEF Inside, Interp
  <2>3. QED
    BY <1>1, <2>2
<1>4. QED
  BY <1>2, <1>3

\* What the calls compute comes from samples and passes.
LEMMA ResultTyped ==
  ASSUME value \in [Variable -> SUBSET Origin], NEW op \in OpSet
  PROVE  From(op.from) \in SUBSET Origin /\ Result(op) \in SUBSET Origin
<1>1. From(op.from) \subseteq Origin
  BY DEF From, OpSet
<1>2. op.do \in TakesSample => Now(op.n) \subseteq Origin
  BY DEF Now, OpSet, Origin, TakesSample
<1>3. QED
  BY <1>1, <1>2 DEF Result

\* The invariant of the types.
Interpolated == used = NotUsed \/ (used.at \in Int /\ used.from = Interp(lang, Table, used.at))
Basic ==
  /\ TypeOK /\ Interpolated
  /\ todo \in Seq(OpSet)
  /\ status = "running" => i \in 0 .. Samples + 1

LEMMA AssignTyped ==
  ASSUME value \in [Variable -> SUBSET Origin], NEW v, NEW from \in SUBSET Origin,
         Assign(v, from)
  PROVE  value' \in [Variable -> SUBSET Origin]
BY DEF Assign

LEMMA CommasTyped ==
  ASSUME NEW l \in Language, NEW curves \in Nat
  PROVE  Commas(l, curves) \in [header : Nat, row : Nat]
<1>1. curves = 1 \/ curves # 1
  OBVIOUS
<1>2. QED
  BY <1>1 DEF Language, Commas, CommasC, CommasCSharp, CommasMatlab, CommasFortran

LEMMA BasicInit == Init => Basic
<1> SUFFICES ASSUME Init PROVE Basic
  OBVIOUS
<1>1. Script(example, lang).before \in Seq(OpSet)
  BY PartTyped DEF Init
<1>2. /\ Unassigned \in [Variable -> SUBSET Origin]
      /\ NoRows \in [1 .. Samples -> [Pass -> SUBSET Origin]]
  BY DEF Unassigned, NoRows, Origin
<1>3. NotUsed \in [at : Int, from : SUBSET (1 .. Len(Table))]
  BY DEF NotUsed
<1>4. plugins \in BOOLEAN
  BY PluginsAssumption DEF Init
<1>5. QED
  BY <1>1, <1>2, <1>3, <1>4, SizeAssumption DEF Init, Basic, TypeOK, Interpolated

\* The step of an operation.
LEMMA WorkTyped ==
  ASSUME Basic, Works
  PROVE  Basic'
<1>1. /\ status = "running" /\ todo # <<>> /\ UNCHANGED process /\ UNCHANGED i
      /\ status' \in {"running", "aborted", "undefined"}
      /\ todo' \in {todo, Tail(todo), <<>>}
  BY WorkFacts
<1>2. /\ todo \in Seq(OpSet) /\ Tail(todo) \in Seq(OpSet) /\ <<>> \in Seq(OpSet)
      /\ Head(todo) \in OpSet /\ i \in 0 .. Samples + 1
      /\ value \in [Variable -> SUBSET Origin]
  BY <1>1, TailFacts DEF Basic, TypeOK
<1>3. todo' \in Seq(OpSet)
  BY <1>1, <1>2
<1>4. failed' \in SUBSET (0 .. Samples + 1)
  <2>1. failed' \in {failed, failed \cup {i}}
    BY DEF Works, DoCreate, DoFill, DoGetLayers, DoGetHandle, DoFree, DoStackCall, DoArrayCall,
       DoNumbers, DoInterpolate, DoStray, DoStore, DoWrite, Succeeds, Fails
  <2>2. QED
    BY <1>2, <2>1 DEF Basic, TypeOK
<1>5. /\ From(Head(todo).from) \in SUBSET Origin /\ Result(Head(todo)) \in SUBSET Origin
      /\ From({"built"}) \cup {Unset} \in SUBSET Origin /\ {} \in SUBSET Origin
      /\ {Unset} \in SUBSET Origin
  BY <1>2, ResultTyped DEF From, Origin, Variable
<1>6. value' \in [Variable -> SUBSET Origin]
  <2>1. UNCHANGED value \/ \E v : \E from \in SUBSET Origin : Assign(v, from)
    BY <1>5 DEF Works, DoCreate, DoFill, DoGetLayers, DoGetHandle, DoFree, DoStackCall,
       DoArrayCall,
       DoNumbers, DoInterpolate, DoStray, DoStore, DoWrite
  <2>2. QED
    BY <1>2, <2>1, AssignTyped
<1>7. /\ stack' \in Object \cup {Null} /\ h' \in Object \cup {Null} /\ live' \in SUBSET Object
  <2>1. CASE UNCHANGED owner
    BY <2>1 DEF Basic, TypeOK, owner
  <2>2. CASE DoCreate
    BY <2>2 DEF Basic, TypeOK, DoCreate
  <2>3. CASE DoGetHandle \/ DoFree
    BY <2>3 DEF Basic, TypeOK, DoGetHandle, DoFree
  <2>4. QED
    BY <2>1, <2>2, <2>3, WorkFacts
<1>8. used' \in [at : Int, from : SUBSET (1 .. Len(Table))] /\ Interpolated'
  <2>1. CASE UNCHANGED used
    BY <1>1, <2>1 DEF Basic, TypeOK, Interpolated, process
  <2>2. CASE used' = NotUsed
    BY <2>2 DEF NotUsed, Interpolated
  <2>3. CASE DoInterpolate
    <3>1. PICK x \in Wavelength : used' = [at |-> x, from |-> Interp(lang, Table, x)]
      BY <2>3 DEF DoInterpolate
    <3>2. x \in Int
      <4>1. Table[1] \in Int /\ Table[Len(Table)] \in Int
        BY TableAssumption
      <4>2. QED
        BY <3>1, <4>1 DEF Wavelength
    <3>3. Interp(lang, Table, x) \in SUBSET (1 .. Len(Table))
      BY <3>2, InterpRange
    <3>4. used'.at = x /\ used'.from = Interp(lang, Table, x)
      BY <3>1
    <3>5. lang' = lang
      BY <1>1 DEF process
    <3>6. QED
      BY <3>1, <3>2, <3>3, <3>4, <3>5 DEF Interpolated
  <2>4. QED
    BY <2>1, <2>2, <2>3 DEF Works, DoCreate, DoFill, DoGetLayers, DoGetHandle, DoFree,
       DoStackCall,
       DoArrayCall, DoNumbers, DoStray, DoStore, DoWrite
<1>9. rows' \in [1 .. Samples -> [Pass -> SUBSET Origin]]
  <2>1. CASE UNCHANGED rows
    BY <2>1 DEF Basic, TypeOK
  <2>2. CASE DoStore
    <3>1. rows' = [rows EXCEPT ![i][Head(todo).n] = From(Head(todo).from)]
      BY <2>2 DEF DoStore
    <3> DEFINE n == Head(todo).n
               from == From(Head(todo).from)
    <3>2. from \in SUBSET Origin
      BY <1>5
    <3>3. rows' = [rows EXCEPT ![i] = [rows[i] EXCEPT ![n] = from]]
      BY <3>1
    <3> HIDE DEF n, from
    <3>4. rows \in [1 .. Samples -> [Pass -> SUBSET Origin]]
      BY DEF Basic, TypeOK
    <3>5. i \in 1 .. Samples => [rows[i] EXCEPT ![n] = from] \in [Pass -> SUBSET Origin]
      BY <3>2, <3>4
    <3>6. QED
      BY <3>3, <3>4, <3>5
  <2>3. QED
    BY <2>1, <2>2 DEF Works, DoCreate, DoFill, DoGetLayers, DoGetHandle, DoFree, DoStackCall,
       DoArrayCall, DoNumbers, DoInterpolate, DoStray, DoWrite, output
<1>10. /\ files' \in SUBSET [curves : Nat, commas : [header : Nat, row : Nat]]
       /\ shown' \in SUBSET Nat /\ said' \in SUBSET Nat
  <2>1. CASE UNCHANGED <<files, shown, said>>
    BY <2>1 DEF Basic, TypeOK
  <2>2. CASE DoWrite
    <3> DEFINE curves == Head(todo).n
               file == [curves |-> curves, commas |-> Commas(lang, curves)]
    <3>1. curves \in Nat
      BY <1>2 DEF OpSet
    <3>2. file \in [curves : Nat, commas : [header : Nat, row : Nat]]
      BY <3>1, CommasTyped DEF Basic, TypeOK
    <3>3. /\ files' \in {files, files \cup {file}}
          /\ shown' \in {shown, shown \cup {curves}}
          /\ said' \in {said, said \cup {curves}}
      BY <2>2 DEF DoWrite, Plots
    <3> HIDE DEF curves, file
    <3>4. QED
      BY <3>1, <3>2, <3>3 DEF Basic, TypeOK
  <2>3. QED
    BY <2>1, <2>2 DEF Works, DoCreate, DoFill, DoGetLayers, DoGetHandle, DoFree, DoStackCall,
       DoArrayCall, DoNumbers, DoInterpolate, DoStray, DoStore, output
<1>11. QED
  BY <1>1, <1>2, <1>3, <1>4, <1>6, <1>7, <1>8, <1>9, <1>10, SizeAssumption
  DEF Basic, TypeOK, process

LEMMA BasicStep == Basic /\ [Next]_vars => Basic'
<1> SUFFICES ASSUME Basic, [Next]_vars PROVE Basic'
  OBVIOUS
<1>1. CASE NextPart
  <2>1. value' \in [Variable -> SUBSET Origin]
    BY <1>1 DEF NextPart, Locals, Basic, TypeOK, Origin
  <2>2. todo' \in Seq(OpSet)
    BY <1>1, PartTyped DEF NextPart, Basic, TypeOK
  <2>3. i \in 0 .. Samples + 1 /\ i' = i + 1
    BY <1>1 DEF NextPart, Basic
  <2>4. /\ i' \in 0 .. Samples + 2
        /\ status' \in {"running", "done"} /\ (status' = "running" => i' \in 0 .. Samples + 1)
    BY <1>1, <2>3, SizeAssumption DEF NextPart
  <2>5. QED
    BY <1>1, <2>1, <2>2, <2>4 DEF NextPart, Basic, TypeOK, Interpolated, process, owner, output
<1>2. CASE RunScript
  <2>1. example' \in Example /\ lang' = lang /\ lang \in Language
    BY <1>2 DEF RunScript, Basic, TypeOK
  <2>2. todo' \in Seq(OpSet)
    BY <1>2, TypedPrograms DEF RunScript, Basic, TypeOK, Typed, Parts
  <2>3. /\ Unassigned \in [Variable -> SUBSET Origin]
        /\ NoRows \in [1 .. Samples -> [Pass -> SUBSET Origin]]
    BY DEF Unassigned, NoRows, Origin
  <2>4. NotUsed \in [at : Int, from : SUBSET (1 .. Len(Table))]
    BY DEF NotUsed
  <2>5. runs' \in Nat /\ i' = 0 /\ 0 \in 0 .. Samples + 2 /\ 0 \in 0 .. Samples + 1
    BY <1>2, SizeAssumption DEF RunScript, Basic, TypeOK
  <2>6. QED
    BY <1>2, <2>1, <2>2, <2>3, <2>4, <2>5 DEF RunScript, Basic, TypeOK, Interpolated, owner
<1>3. CASE Ended \/ UNCHANGED vars
  <2>1. UNCHANGED vars
    BY <1>3 DEF Ended
  <2>2. QED
    BY <2>1 DEF vars, process, owner, output, Basic, TypeOK, Interpolated
<1>4. CASE Works
  BY <1>4, WorkTyped
<1>5. QED
  BY <1>1, <1>2, <1>3, <1>4, NextSplits

\* Every variable of the examples keeps the shape the code gives it.
THEOREM TypeCorrect == Spec => []TypeOK
<1>1. Basic => TypeOK
  BY DEF Basic
<1>2. QED
  BY <1>1, BasicInit, BasicStep, PTL DEF Spec

\* In a program of any language an index between the ends of the table is computed
\* from the three samples around it, the same ones in all languages.
THEOREM InterpolationIsTheSame == Spec => []InterpolationEncloses
<1>1. Basic => InterpolationEncloses
  <2>1. SUFFICES ASSUME Basic, used # NotUsed, Inside(Table, used.at)
                 PROVE  /\ Encloses(used.from, Table, used.at)
                        /\ \A l \in Language : Interp(l, Table, used.at) = used.from
    BY DEF InterpolationEncloses
  <2>2. used.at \in Int /\ used.from = Interp(lang, Table, used.at)
    BY <2>1 DEF Basic, Interpolated
  <2>3. QED
    BY <2>1, <2>2, TableAssumption, InterpolationCorrect
<1>2. QED
  BY <1>1, BasicInit, BasicStep, PTL DEF Spec
--------------------------------------------------------------------------------
(***************************************************************************)
(* Who owns the stack.                                                     *)
(***************************************************************************)
\* What is left of a part keeps a discipline, and settles it if it has to.
Keeps(t, bad, must, A, B, C) == Safe(t, bad, A, B, C) /\ (must => Settles(t, bad, A, C))

\* One operation done.
LEMMA KeepsStep ==
  ASSUME NEW t \in Seq(OpSet), t # <<>>, NEW A, NEW B, NEW C, NEW must \in BOOLEAN,
         NEW bad \in BOOLEAN, NEW bad2 \in BOOLEAN, Keeps(t, bad, must, A, B, C),
         Head(t).do \in C => ~bad2,
         bad2 /\ ~bad => Head(t).do \in A
  PROVE  Keeps(Tail(t), bad2, must, A, B, C) /\ (bad => Head(t).do \notin B)
<1>1. Safe(t, bad, A, B, C)
  BY DEF Keeps
<1>2. Safe(Tail(t), bad2, A, B, C) /\ (bad => Head(t).do \notin B)
  BY <1>1, SafeStep
<1>3. must => Settles(Tail(t), bad2, A, C)
  BY SettlesStep DEF Keeps
<1>4. QED
  BY <1>2, <1>3 DEF Keeps

\* A part that is done has settled what it had to.
LEMMA KeepsDone ==
  ASSUME NEW bad, NEW must, NEW A, NEW B, NEW C, Keeps(<<>>, bad, must, A, B, C), must
  PROVE  ~bad
BY DEF Keeps, Settles, Last

\* An operation that needs the resource finds it in order.
LEMMA InOrder ==
  ASSUME NEW t \in Seq(OpSet), t # <<>>, NEW B, NEW C, NEW bad, bad => Before(t, B, C)
  PROVE  bad => Head(t).do \notin B
BY TailFacts DEF Before

\* The three disciplines.
HasStack == live # {}
StackDangles == stack \notin live \cup {Null}
HandleDangles == h \notin live \cup {Null}

Prog == Script(example, lang)
InLoop == i <= Samples

OneStack ==
  Keeps(todo, HasStack, ~InLoop \/ Shut(Prog, {"create"}, {"destroy"}),
        {"create"}, {"create"}, {"destroy"})
NoDangling ==
  Keeps(todo, StackDangles, InLoop /\ Shut(Prog, {"destroy"}, {"create"}),
        {"destroy"}, StackUse, {"create"})
NoStaleHandle ==
  Keeps(todo, HandleDangles, InLoop /\ ~Open(Prog, HandleUse, {"getHandle"}),
        Spoils, HandleUse, {"getHandle"})

Ownership ==
  /\ live \subseteq {stack}
  /\ lang # "c" => stack \in live \cup {Null}
  /\ status = "done" /\ lang \in {"c", "csharp"} => live = {}
  /\ status = "running" =>
       /\ lang \in {"c", "csharp"} => OneStack
       /\ lang = "c" => NoDangling
       /\ lang = "matlab" => NoStaleHandle

LEMMA OwnershipInit == Init => Ownership
<1> SUFFICES ASSUME Init PROVE Ownership
  OBVIOUS
<1>1. /\ todo = Prog.before /\ ~HasStack /\ ~StackDangles /\ ~HandleDangles
      /\ live = {} /\ stack = Null /\ status = "running" /\ i = 0 /\ InLoop
      /\ example \in Example
  BY SizeAssumption DEF Init, Prog, HasStack, StackDangles, HandleDangles, InLoop
<1>2. ASSUME lang \in {"c", "csharp"} PROVE OneStack
  BY <1>1, <1>2, OwnedPrograms
  DEF OneStack, Keeps, Safe, Settles, Owned, Ordered, Parts, Shut, Prog
<1>3. ASSUME lang = "c" PROVE NoDangling
  BY <1>1, <1>3, RenewedPrograms
  DEF NoDangling, Keeps, Safe, Settles, Renewed, Ordered, Parts, Shut, Prog
<1>4. ASSUME lang = "matlab" PROVE NoStaleHandle
  BY <1>1, <1>4, FetchedPrograms
  DEF NoStaleHandle, Keeps, Safe, Settles, Fetched, Ordered, Parts, Prog
<1>5. QED
  BY <1>1, <1>2, <1>3, <1>4 DEF Ownership

\* The next operation of a program that keeps the disciplines.
LEMMA OwnershipWork ==
  ASSUME Basic, Ownership, Works
  PROVE  Ownership'
<1>1. /\ status = "running" /\ todo # <<>> /\ UNCHANGED process /\ UNCHANGED i
      /\ status' \in {"running", "aborted", "undefined"}
      /\ status' = "running" => todo' = Tail(todo)
      /\ \/ DoCreate \/ DoGetHandle \/ DoFree
         \/ UNCHANGED owner /\ Head(todo).do \notin {"create", "getHandle", "destroy"}
  BY WorkFacts
<1>2. todo \in Seq(OpSet) /\ UNCHANGED <<lang, Prog, InLoop>> /\ lang \in Language
  BY <1>1 DEF Basic, TypeOK, process, Prog, InLoop
<1>3. ASSUME lang \in {"c", "csharp"}, DoCreate PROVE live = {}
  <2>1. Keeps(todo, HasStack, ~InLoop \/ Shut(Prog, {"create"}, {"destroy"}),
              {"create"}, {"create"}, {"destroy"})
    BY <1>1, <1>3 DEF Ownership, OneStack
  <2>2. Head(todo).do = "create"
    BY <1>3 DEF DoCreate, Doing
  <2>3. HasStack => Before(todo, {"create"}, {"destroy"})
    BY <2>1 DEF Keeps, Safe
  <2>4. HasStack => Head(todo).do \notin {"create"}
    <3> HIDE DEF HasStack
    <3>1. QED
      BY <1>1, <1>2, <2>3, InOrder
  <2>5. QED
    BY <2>2, <2>4 DEF HasStack
<1>4. /\ (live \subseteq {stack})'
      /\ lang # "c" => (stack \in live \cup {Null})'
  <2>1. CASE UNCHANGED owner
    BY <2>1, <1>2 DEF Ownership, owner
  <2>2. CASE DoCreate
    <3>1. CASE lang \in {"c", "csharp"}
      BY <1>3, <2>2, <3>1 DEF DoCreate, Ownership
    <3>2. CASE lang \in {"fortran", "matlab"}
      BY <2>2, <3>2 DEF DoCreate, Ownership
    <3>3. QED
      BY <1>2, <3>1, <3>2 DEF Language
  <2>3. CASE DoGetHandle \/ DoFree
    BY <2>3 DEF DoGetHandle, DoFree, Ownership
  <2>4. QED
    BY <1>1, <2>1, <2>2, <2>3
<1>5. ASSUME status' = "running", lang \in {"c", "csharp"} PROVE OneStack'
  <2>1. Head(todo).do = "destroy" => ~HasStack'
    BY <1>1 DEF DoCreate, DoGetHandle, DoFree, Doing, Ownership, HasStack
  <2>2. HasStack' /\ ~HasStack => Head(todo).do = "create"
    BY <1>1 DEF DoCreate, DoGetHandle, DoFree, Doing, HasStack, owner
  <2> DEFINE bad == HasStack
             bad2 == HasStack'
             must == ~InLoop \/ Shut(Prog, {"create"}, {"destroy"})
  <2>3. Keeps(todo, bad, must, {"create"}, {"create"}, {"destroy"}) /\ bad \in BOOLEAN
        /\ bad2 \in BOOLEAN /\ must \in BOOLEAN
    BY <1>1, <1>5 DEF Ownership, OneStack, HasStack
  <2>4. todo \in Seq(OpSet) /\ todo # <<>> /\ (Head(todo).do \in {"destroy"} => ~bad2)
        /\ (bad2 /\ ~bad => Head(todo).do \in {"create"})
    BY <1>1, <1>2, <2>1, <2>2
  <2>5. Keeps(Tail(todo), bad2, must, {"create"}, {"create"}, {"destroy"})
    <3> HIDE DEF bad, bad2, must
    <3>1. QED
      BY <2>3, <2>4, KeepsStep
  <2>6. QED
    BY <1>1, <1>2, <1>5, <2>5 DEF OneStack
<1>6. ASSUME status' = "running", lang = "c" PROVE NoDangling'
  <2>1. Head(todo).do = "create" => ~StackDangles'
    BY <1>1, <1>6 DEF DoCreate, DoGetHandle, DoFree, Doing, StackDangles
  <2>2. StackDangles' /\ ~StackDangles => Head(todo).do = "destroy"
    BY <1>1, <2>1 DEF DoCreate, DoGetHandle, DoFree, Doing, StackDangles, owner
  <2> DEFINE bad == StackDangles
             bad2 == StackDangles'
             must == InLoop /\ Shut(Prog, {"destroy"}, {"create"})
  <2>3. Keeps(todo, bad, must, {"destroy"}, StackUse, {"create"}) /\ bad \in BOOLEAN
        /\ bad2 \in BOOLEAN /\ must \in BOOLEAN
    BY <1>1, <1>6 DEF Ownership, NoDangling, StackDangles
  <2>4. todo \in Seq(OpSet) /\ todo # <<>> /\ (Head(todo).do \in {"create"} => ~bad2)
        /\ (bad2 /\ ~bad => Head(todo).do \in {"destroy"})
    BY <1>1, <1>2, <2>1, <2>2
  <2>5. Keeps(Tail(todo), bad2, must, {"destroy"}, StackUse, {"create"})
    <3> HIDE DEF bad, bad2, must
    <3>1. QED
      BY <2>3, <2>4, KeepsStep
  <2>6. QED
    BY <1>1, <1>2, <1>6, <2>5 DEF NoDangling
<1>7. ASSUME status' = "running", lang = "matlab" PROVE NoStaleHandle'
  <2>1. Head(todo).do = "getHandle" => ~HandleDangles'
    BY <1>1, <1>7 DEF DoCreate, DoGetHandle, DoFree, Doing, HandleDangles, Ownership
  <2>2. HandleDangles' /\ ~HandleDangles => Head(todo).do \in Spoils
    BY <1>1, <2>1 DEF DoCreate, DoGetHandle, DoFree, Doing, HandleDangles, owner, Spoils
  <2> DEFINE bad == HandleDangles
             bad2 == HandleDangles'
             must == InLoop /\ ~Open(Prog, HandleUse, {"getHandle"})
  <2>3. Keeps(todo, bad, must, Spoils, HandleUse, {"getHandle"}) /\ bad \in BOOLEAN
        /\ bad2 \in BOOLEAN /\ must \in BOOLEAN
    BY <1>1, <1>7 DEF Ownership, NoStaleHandle, HandleDangles
  <2>4. todo \in Seq(OpSet) /\ todo # <<>> /\ (Head(todo).do \in {"getHandle"} => ~bad2)
        /\ (bad2 /\ ~bad => Head(todo).do \in Spoils)
    BY <1>1, <1>2, <2>1, <2>2
  <2>5. Keeps(Tail(todo), bad2, must, Spoils, HandleUse, {"getHandle"})
    <3> HIDE DEF bad, bad2, must
    <3>1. QED
      BY <2>3, <2>4, KeepsStep
  <2>6. QED
    BY <1>1, <1>2, <1>7, <2>5 DEF NoStaleHandle
<1>8. QED
  BY <1>1, <1>2, <1>4, <1>5, <1>6, <1>7 DEF Ownership

\* From part to part.
LEMMA OwnershipPart ==
  ASSUME Basic, Ownership, NextPart
  PROVE  Ownership'
<1>1. /\ status = "running" /\ todo = <<>> /\ UNCHANGED process /\ UNCHANGED owner
      /\ i' = i + 1 /\ i \in 0 .. Samples + 1
      /\ IF i <= Samples THEN todo' = Part(i + 1) /\ UNCHANGED status
                         ELSE UNCHANGED todo /\ status' = "done"
      /\ example \in Example /\ lang \in Language
  BY DEF NextPart, Basic, TypeOK
<1>2. /\ UNCHANGED <<lang, Prog, HasStack, StackDangles, HandleDangles>>
      /\ HasStack \in BOOLEAN /\ StackDangles \in BOOLEAN /\ HandleDangles \in BOOLEAN
  BY <1>1 DEF process, owner, Prog, HasStack, StackDangles, HandleDangles
<1>3. ASSUME i <= Samples
      PROVE  \/ InLoop' /\ todo' = Prog.sample
             \/ ~InLoop' /\ todo' = Prog.after
  BY <1>1, <1>3, SizeAssumption DEF Part, InLoop, Prog
<1>4. ASSUME lang \in {"c", "csharp"}
      PROVE  /\ i <= Samples => OneStack'
             /\ i > Samples => ~HasStack
  <2>1. Keeps(<<>>, HasStack, ~InLoop \/ Shut(Prog, {"create"}, {"destroy"}),
              {"create"}, {"create"}, {"destroy"})
    BY <1>1, <1>4 DEF Ownership, OneStack
  <2>2. ~InLoop \/ Shut(Prog, {"create"}, {"destroy"}) => ~HasStack
    BY <2>1, KeepsDone
  <2>3. Owned(Prog)
    BY <1>1, <1>4, OwnedPrograms DEF Prog
  <2>4. ASSUME i <= Samples PROVE OneStack'
    <3>1. CASE InLoop' /\ todo' = Prog.sample
      BY <1>2, <2>2, <2>3, <3>1
      DEF OneStack, Keeps, Safe, Settles, Owned, Ordered, Parts, Open, Shut
    <3>2. CASE ~InLoop' /\ todo' = Prog.after
      BY <1>2, <2>2, <2>3, <3>2
      DEF OneStack, Keeps, Safe, Settles, Owned, Ordered, Parts, Open
    <3>3. QED
      BY <1>3, <2>4, <3>1, <3>2
  <2>5. i > Samples => ~InLoop
    BY <1>1, SizeAssumption DEF InLoop
  <2>6. QED
    BY <2>2, <2>4, <2>5
<1>5. ASSUME lang = "c", i <= Samples PROVE NoDangling'
  <2>1. Keeps(<<>>, StackDangles, InLoop /\ Shut(Prog, {"destroy"}, {"create"}),
              {"destroy"}, StackUse, {"create"})
    BY <1>1, <1>5 DEF Ownership, NoDangling
  <2>2. Shut(Prog, {"destroy"}, {"create"}) => ~StackDangles
    BY <1>5, <2>1, KeepsDone DEF InLoop
  <2>3. Renewed(Prog)
    BY <1>1, <1>5, RenewedPrograms DEF Prog
  <2>4. CASE InLoop' /\ todo' = Prog.sample
    BY <1>2, <2>2, <2>3, <2>4
    DEF NoDangling, Keeps, Safe, Settles, Renewed, Ordered, Parts, Open, Shut
  <2>5. CASE ~InLoop' /\ todo' = Prog.after
    BY <1>2, <2>2, <2>3, <2>5
    DEF NoDangling, Keeps, Safe, Renewed, Ordered, Parts, Open
  <2>6. QED
    BY <1>3, <1>5, <2>4, <2>5
<1>6. ASSUME lang = "matlab", i <= Samples PROVE NoStaleHandle'
  <2>1. Keeps(<<>>, HandleDangles, InLoop /\ ~Open(Prog, HandleUse, {"getHandle"}),
              Spoils, HandleUse, {"getHandle"})
    BY <1>1, <1>6 DEF Ownership, NoStaleHandle
  <2>2. ~Open(Prog, HandleUse, {"getHandle"}) => ~HandleDangles
    BY <1>6, <2>1, KeepsDone DEF InLoop
  <2>3. Fetched(Prog)
    BY <1>1, <1>6, FetchedPrograms DEF Prog
  <2>4. CASE InLoop' /\ todo' = Prog.sample
    BY <1>2, <2>2, <2>3, <2>4
    DEF NoStaleHandle, Keeps, Safe, Settles, Fetched, Ordered, Parts, Open, Shut
  <2>5. CASE ~InLoop' /\ todo' = Prog.after
    BY <1>2, <2>2, <2>3, <2>5
    DEF NoStaleHandle, Keeps, Safe, Fetched, Ordered, Parts, Open
  <2>6. QED
    BY <1>3, <1>6, <2>4, <2>5
<1>7. /\ (live \subseteq {stack})' /\ (lang # "c" => (stack \in live \cup {Null})')
  BY <1>1 DEF Ownership, owner
<1>8. CASE i <= Samples
  <2>1. status' = "running" /\ lang' = lang
    BY <1>1, <1>2, <1>8
  <2>2. /\ (lang \in {"c", "csharp"} => OneStack)'
        /\ (lang = "c" => NoDangling)' /\ (lang = "matlab" => NoStaleHandle)'
    BY <1>4, <1>5, <1>6, <1>8, <2>1
  <2>3. QED
    BY <1>7, <2>1, <2>2 DEF Ownership
<1>9. CASE i > Samples
  <2>1. status' = "done" /\ lang' = lang /\ UNCHANGED live
    BY <1>1, <1>2, <1>9, SizeAssumption DEF owner
  <2>2. (lang \in {"c", "csharp"} => live = {})'
    BY <1>4, <1>9, <2>1 DEF HasStack
  <2>3. QED
    BY <1>7, <2>1, <2>2 DEF Ownership
<1>10. QED
  BY <1>1, <1>8, <1>9, SizeAssumption

LEMMA OwnershipStep == Basic /\ Ownership /\ [Next]_vars => Ownership'
<1> SUFFICES ASSUME Basic, Ownership, [Next]_vars PROVE Ownership'
  OBVIOUS
<1>1. CASE NextPart
  BY <1>1, OwnershipPart
<1>2. CASE RunScript
  <2>1. /\ lang = "matlab" /\ lang' = lang /\ example' \in Example /\ status' = "running"
        /\ todo' = Prog'.before /\ UNCHANGED owner /\ i' = 0
    BY <1>2 DEF RunScript, Prog
  <2>2. NoStaleHandle'
    <3>1. Fetched(Prog')
      BY <2>1, FetchedPrograms DEF Prog
    <3>2. QED
      BY <2>1, <3>1 DEF NoStaleHandle, Keeps, Safe, Settles, Fetched, Ordered, Parts
  <2>3. QED
    BY <2>1, <2>2 DEF Ownership, owner
<1>3. CASE Ended \/ UNCHANGED vars
  <2>1. UNCHANGED vars
    BY <1>3 DEF Ended
  <2>2. QED
    BY <2>1 DEF vars, process, owner, Ownership, OneStack, NoDangling, NoStaleHandle, HasStack,
       StackDangles, HandleDangles, InLoop, Prog
<1>4. CASE Works
  BY <1>4, OwnershipWork
<1>5. QED
  BY <1>1, <1>2, <1>3, <1>4, NextSplits

LEMMA OwnershipInvariant == Spec => [](Basic /\ Ownership)
BY BasicInit, BasicStep, OwnershipInit, OwnershipStep, PTL DEF Spec

\* A program never has two stacks or one it lost, and a C or C# program that ran to
\* its end has none.
THEOREM StacksAreOwned == Spec => []NoStackLost
<1>1. Basic /\ Ownership => NoStackLost
  BY DEF Ownership, NoStackLost
<1>2. QED
  BY <1>1, OwnershipInvariant, PTL

\* No call of a program is given a stack that was destroyed.
THEOREM StacksAreLive == Spec => []CallsUseLiveStack
<1>1. Basic /\ Ownership => CallsUseLiveStack
  <2>1. SUFFICES ASSUME Basic, Ownership, status = "running", todo # <<>>
                 PROVE  /\ Head(todo).do \in HandleUse => Handle \in live \cup {Null}
                        /\ Head(todo).do \in {"add_layer", "destroy"}
                             => stack \in live \cup {Null}
    BY DEF CallsUseLiveStack, Doing, HandleUse
  <2>2. todo \in Seq(OpSet) /\ lang \in Language
    BY <2>1 DEF Basic, TypeOK
  <2>3. CASE lang = "c"
    <3>1. StackDangles => Before(todo, StackUse, {"create"})
      BY <2>1, <2>3 DEF Ownership, NoDangling, Keeps, Safe
    <3>2. StackDangles => Head(todo).do \notin StackUse
      <4> HIDE DEF StackDangles, StackUse
      <4>1. QED
        BY <2>1, <2>2, <3>1, InOrder
    <3>3. QED
      BY <2>3, <3>2 DEF StackDangles, StackUse, HandleUse, Handle
  <2>4. CASE lang = "matlab"
    <3>1. HandleDangles => Before(todo, HandleUse, {"getHandle"})
      BY <2>1, <2>4 DEF Ownership, NoStaleHandle, Keeps, Safe
    <3>2. HandleDangles => Head(todo).do \notin HandleUse
      <4> HIDE DEF HandleDangles, HandleUse
      <4>1. QED
        BY <2>1, <2>2, <3>1, InOrder
    <3>3. QED
      BY <2>1, <2>4, <3>2 DEF HandleDangles, Handle, Ownership
  <2>5. CASE lang \in {"csharp", "fortran"}
    BY <2>1, <2>5 DEF Ownership, Handle
  <2>6. QED
    BY <2>2, <2>3, <2>4, <2>5 DEF Language
<1>2. QED
  BY <1>1, OwnershipInvariant, PTL
--------------------------------------------------------------------------------
(***************************************************************************)
(* What the calls compute.                                                 *)
(***************************************************************************)
\* The gateway understands what is of the kinds it reads.
LEMMA SameKinds ==
  ASSUME NEW kinds, NEW needs \in Nat, NEW outs \in Nat, NEW wants \in Nat, Len(kinds) \in Nat,
         Len(kinds) + 1 >= needs, wants <= outs
  PROVE  Passage(Takes(needs, kinds, outs), Passes(kinds, wants)) = "running"
BY DEF Passage, Rejects, Understands, Takes, Passes

Understood(do) == Passage(Gateway(do), Passed(do)) = "running"

\* No command of the MATLAB gateway takes what LayerStack and the scripts pass it
\* for something else, takes a missing argument, or is asked for a result it has not.
THEOREM GatewayUnderstands == \A do \in Command : Understood(do)
<1>1. Understood("create")
  BY DEF Understood, Passage, Rejects, Understands, Takes, Passes, OfStack,
     Gateway, StackCommands, MatrixCommands, DepthCommands, NumberCommands, FieldCommands,
     Passed, FromLayerStack, FromDepthScript, FromSweepScripts
<1>2. Understood("destroy")
  BY DEF Understood, Passage, Rejects, Understands, Takes, Passes, OfStack,
     Gateway, StackCommands, MatrixCommands, DepthCommands, NumberCommands, FieldCommands,
     Passed, FromLayerStack, FromDepthScript, FromSweepScripts
<1>3. Understood("add_layer")
  BY DEF Understood, Passage, Rejects, Understands, Takes, Passes, OfStack,
     Gateway, StackCommands, MatrixCommands, DepthCommands, NumberCommands, FieldCommands,
     Passed, FromLayerStack, FromDepthScript, FromSweepScripts
<1>4. Understood("propagate_direction")
  BY DEF Understood, Passage, Rejects, Understands, Takes, Passes, OfStack,
     Gateway, StackCommands, MatrixCommands, DepthCommands, NumberCommands, FieldCommands,
     Passed, FromLayerStack, FromDepthScript, FromSweepScripts
<1>5. Understood("last_matrix_s")
  BY DEF Understood, Passage, Rejects, Understands, Takes, Passes, OfStack,
     Gateway, StackCommands, MatrixCommands, DepthCommands, NumberCommands, FieldCommands,
     Passed, FromLayerStack, FromDepthScript, FromSweepScripts
<1>6. Understood("last_matrix_p")
  BY DEF Understood, Passage, Rejects, Understands, Takes, Passes, OfStack,
     Gateway, StackCommands, MatrixCommands, DepthCommands, NumberCommands, FieldCommands,
     Passed, FromLayerStack, FromDepthScript, FromSweepScripts
<1>7. Understood("interface_transfer_matrix_p")
  BY DEF Understood, Passage, Rejects, Understands, Takes, Passes, OfStack,
     Gateway, StackCommands, MatrixCommands, DepthCommands, NumberCommands, FieldCommands,
     Passed, FromLayerStack, FromDepthScript, FromSweepScripts
<1>8. Understood("apply_multilayer_effect")
  BY DEF Understood, Passage, Rejects, Understands, Takes, Passes, OfStack,
     Gateway, StackCommands, MatrixCommands, DepthCommands, NumberCommands, FieldCommands,
     Passed, FromLayerStack, FromDepthScript, FromSweepScripts
<1>9. Understood("get_structure_pos")
  BY DEF Understood, Passage, Rejects, Understands, Takes, Passes, OfStack,
     Gateway, StackCommands, MatrixCommands, DepthCommands, NumberCommands, FieldCommands,
     Passed, FromLayerStack, FromDepthScript, FromSweepScripts
<1>10. Understood("find_in_structure")
  BY DEF Understood, Passage, Rejects, Understands, Takes, Passes, OfStack,
     Gateway, StackCommands, MatrixCommands, DepthCommands, NumberCommands, FieldCommands,
     Passed, FromLayerStack, FromDepthScript, FromSweepScripts
<1>11. Understood("propagate_matrix_to_depth")
  <2> DEFINE kinds == OfStack(<<"angles", "number", "number", "number">>)
  <2>1. Len(kinds) = 5
    BY DEF OfStack, Numbers4
  <2>2. Len(kinds) \in Nat /\ Len(kinds) + 1 >= 6 /\ 6 \in Nat /\ 1 \in Nat
        /\ 1 \in Nat /\ 1 <= 1
    BY <2>1
  <2>3. Gateway("propagate_matrix_to_depth") = Takes(6, kinds, 1)
    BY DEF Gateway, StackCommands, MatrixCommands, DepthCommands, NumberCommands, FieldCommands
  <2>4. Passed("propagate_matrix_to_depth") = Passes(kinds, 1)
    BY DEF Passed, FromLayerStack, FromDepthScript, FromSweepScripts
  <2> HIDE DEF kinds
  <2>5. Passage(Takes(6, kinds, 1), Passes(kinds, 1)) = "running"
    BY <2>1, <2>2, SameKinds
  <2>6. QED
    BY <2>3, <2>4, <2>5 DEF Understood
<1>12. Understood("get_r_t_from_tmm")
  BY DEF Understood, Passage, Rejects, Understands, Takes, Passes, OfStack,
     Gateway, StackCommands, MatrixCommands, DepthCommands, NumberCommands, FieldCommands,
     Passed, FromLayerStack, FromDepthScript, FromSweepScripts
<1>13. Understood("get_r_t_power_s")
  <2> DEFINE kinds == <<"matrix">> \o Numbers4
  <2>1. Len(kinds) = 5
    BY DEF OfStack, Numbers4
  <2>2. Len(kinds) \in Nat /\ Len(kinds) + 1 >= 6 /\ 6 \in Nat /\ 2 \in Nat
        /\ 2 \in Nat /\ 2 <= 2
    BY <2>1
  <2>3. Gateway("get_r_t_power_s") = Takes(6, kinds, 2)
    BY DEF Gateway, StackCommands, MatrixCommands, DepthCommands, NumberCommands, FieldCommands
  <2>4. Passed("get_r_t_power_s") = Passes(kinds, 2)
    BY DEF Passed, FromLayerStack, FromDepthScript, FromSweepScripts
  <2> HIDE DEF kinds
  <2>5. Passage(Takes(6, kinds, 2), Passes(kinds, 2)) = "running"
    BY <2>1, <2>2, SameKinds
  <2>6. QED
    BY <2>3, <2>4, <2>5 DEF Understood
<1>14. Understood("get_r_t_power_p")
  <2> DEFINE kinds == <<"matrix">> \o Numbers4
  <2>1. Len(kinds) = 5
    BY DEF OfStack, Numbers4
  <2>2. Len(kinds) \in Nat /\ Len(kinds) + 1 >= 6 /\ 6 \in Nat /\ 2 \in Nat
        /\ 2 \in Nat /\ 2 <= 2
    BY <2>1
  <2>3. Gateway("get_r_t_power_p") = Takes(6, kinds, 2)
    BY DEF Gateway, StackCommands, MatrixCommands, DepthCommands, NumberCommands, FieldCommands
  <2>4. Passed("get_r_t_power_p") = Passes(kinds, 2)
    BY DEF Passed, FromLayerStack, FromDepthScript, FromSweepScripts
  <2> HIDE DEF kinds
  <2>5. Passage(Takes(6, kinds, 2), Passes(kinds, 2)) = "running"
    BY <2>1, <2>2, SameKinds
  <2>6. QED
    BY <2>3, <2>4, <2>5 DEF Understood
<1>15. Understood("get_unpolarized_r_t_power")
  <2> DEFINE kinds == <<"matrix", "matrix">> \o Numbers4
  <2>1. Len(kinds) = 6
    BY DEF OfStack, Numbers4
  <2>2. Len(kinds) \in Nat /\ Len(kinds) + 1 >= 7 /\ 7 \in Nat /\ 2 \in Nat
        /\ 1 \in Nat /\ 1 <= 2
    BY <2>1
  <2>3. Gateway("get_unpolarized_r_t_power") = Takes(7, kinds, 2)
    BY DEF Gateway, StackCommands, MatrixCommands, DepthCommands, NumberCommands, FieldCommands
  <2>4. Passed("get_unpolarized_r_t_power") = Passes(kinds, 1)
    BY DEF Passed, FromLayerStack, FromDepthScript, FromSweepScripts
  <2> HIDE DEF kinds
  <2>5. Passage(Takes(7, kinds, 2), Passes(kinds, 1)) = "running"
    BY <2>1, <2>2, SameKinds
  <2>6. QED
    BY <2>3, <2>4, <2>5 DEF Understood
<1>16. Understood("apply_spr_effect")
  BY DEF Understood, Passage, Rejects, Understands, Takes, Passes, OfStack,
     Gateway, StackCommands, MatrixCommands, DepthCommands, NumberCommands, FieldCommands,
     Passed, FromLayerStack, FromDepthScript, FromSweepScripts
<1>17. Understood("get_poynting_vector_p")
  <2> DEFINE kinds == <<"number", "number">> \o Numbers4
  <2>1. Len(kinds) = 6
    BY DEF OfStack, Numbers4
  <2>2. Len(kinds) \in Nat /\ Len(kinds) + 1 >= 7 /\ 7 \in Nat /\ 1 \in Nat
        /\ 1 \in Nat /\ 1 <= 1
    BY <2>1
  <2>3. Gateway("get_poynting_vector_p") = Takes(7, kinds, 1)
    BY DEF Gateway, StackCommands, MatrixCommands, DepthCommands, NumberCommands, FieldCommands
  <2>4. Passed("get_poynting_vector_p") = Passes(kinds, 1)
    BY DEF Passed, FromLayerStack, FromDepthScript, FromSweepScripts
  <2> HIDE DEF kinds
  <2>5. Passage(Takes(7, kinds, 1), Passes(kinds, 1)) = "running"
    BY <2>1, <2>2, SameKinds
  <2>6. QED
    BY <2>3, <2>4, <2>5 DEF Understood
<1>18. Understood("get_absorbed_energy_density_p")
  <2> DEFINE kinds == <<"number", "number", "number", "angles", "stack", "number">>
  <2>1. Len(kinds) = 6
    BY DEF OfStack, Numbers4
  <2>2. Len(kinds) \in Nat /\ Len(kinds) + 1 >= 7 /\ 7 \in Nat /\ 1 \in Nat
        /\ 1 \in Nat /\ 1 <= 1
    BY <2>1
  <2>3. Gateway("get_absorbed_energy_density_p") = Takes(7, kinds, 1)
    BY DEF Gateway, StackCommands, MatrixCommands, DepthCommands, NumberCommands, FieldCommands
  <2>4. Passed("get_absorbed_energy_density_p") = Passes(kinds, 1)
    BY DEF Passed, FromLayerStack, FromDepthScript, FromSweepScripts
  <2> HIDE DEF kinds
  <2>5. Passage(Takes(7, kinds, 1), Passes(kinds, 1)) = "running"
    BY <2>1, <2>2, SameKinds
  <2>6. QED
    BY <2>3, <2>4, <2>5 DEF Understood
<1>19. Understood("ellipsometric_psi_delta")
  BY DEF Understood, Passage, Rejects, Understands, Takes, Passes, OfStack,
     Gateway, StackCommands, MatrixCommands, DepthCommands, NumberCommands, FieldCommands,
     Passed, FromLayerStack, FromDepthScript, FromSweepScripts
<1>20. QED
  BY <1>1, <1>2, <1>3, <1>4, <1>5, <1>6, <1>7, <1>8, <1>9, <1>10, <1>11, <1>12, <1>13, <1>14,
     <1>15, <1>16, <1>17, <1>18, <1>19 DEF Command

LEMMA StatusStays == Basic => AfterCall(Head(todo).do) = "running"
BY GatewayUnderstands DEF Understood, AfterCall

\* What an operation does to the variables of the program: it sets its own, unless
\* it fails, and no other.
LEMMA WorkValues ==
  ASSUME Basic, Works
  PROVE  /\ \A v \in Variable : v # Head(todo).to => value'[v] = value[v]
         /\ failed' \in {failed, failed \cup {i}}
         /\ status' = "running" \/ DoStray \/ i \in failed'
         /\ status' = "running" /\ i \notin failed' /\ Head(todo).to \in Variable
              => value'[Head(todo).to] = Result(Head(todo))
<1> DEFINE op == Head(todo)
<1>1. /\ todo # <<>> /\ todo \in Seq(OpSet) /\ op \in OpSet
      /\ value \in [Variable -> SUBSET Origin]
  BY WorkFacts, TailFacts DEF Basic, TypeOK
<1>2. /\ op.do \in {"create", "add_layer"} => op.to = "built"
      /\ op.do = "get_layer" => op.to = "layers"
      /\ op.do = "interp_nk_quadratic" => op.to = "nk"
      /\ op.do \in {"getHandle", "destroy", "store", "write"} => op.to \notin Variable
      /\ op.do = "create" => op.from = {}
  BY <1>1 DEF OpSet, Variable
<1>3. AfterCall(op.do) = "running"
  BY StatusStays
<1> HIDE DEF op
<1>4. ASSUME NEW w, NEW from, Assign(w, from)
      PROVE  /\ \A v \in Variable : v # w => value'[v] = value[v]
             /\ w \in Variable => value'[w] = from
  BY <1>1, <1>4 DEF Assign
<1>5. CASE DoCreate
  <2>1. op.to = "built" /\ op.from = {} /\ op.do \notin TakesSample
    BY <1>2, <1>5 DEF DoCreate, Doing, op, TakesSample
  <2>2. Result(op) = {}
    BY <2>1 DEF Result, From
  <2>3. \/ Assign("built", {}) /\ Succeeds
        \/ Assign("built", {Unset}) /\ Fails
    BY <1>5 DEF DoCreate
  <2>4. QED
    BY <1>3, <1>4, <2>1, <2>2, <2>3 DEF Succeeds, Fails, Advance, op
<1>6. CASE DoFill
  <2>1. op.to = "built"
    BY <1>2, <1>6 DEF DoFill, Doing, op
  <2>2. \/ Assign("built", Result(op)) /\ Succeeds
        \/ Assign("built", From({"built"}) \cup {Unset}) /\ Fails
    BY <1>6 DEF DoFill, op
  <2>3. QED
    BY <1>3, <1>4, <2>1, <2>2 DEF Succeeds, Fails, Advance, op
<1>7. CASE DoGetLayers \/ DoStackCall \/ DoArrayCall \/ DoNumbers \/ DoInterpolate
  <2>1. \/ Assign(op.to, Result(op)) /\ Succeeds
        \/ UNCHANGED value /\ Fails
    BY <1>2, <1>7 DEF DoGetLayers, DoStackCall, DoArrayCall, DoNumbers, DoInterpolate, Doing, op
  <2>2. QED
    BY <1>3, <1>4, <2>1 DEF Succeeds, Fails, Advance, op
<1>8. CASE DoGetHandle \/ DoFree \/ DoStore \/ DoWrite
  <2>1. op.to \notin Variable /\ UNCHANGED value /\ (Succeeds \/ Fails)
    BY <1>2, <1>8 DEF DoGetHandle, DoFree, DoStore, DoWrite, Doing, op
  <2>2. QED
    BY <1>3, <2>1 DEF Succeeds, Fails, Advance, op
<1>9. CASE DoStray
  BY <1>9 DEF DoStray
<1>10. QED
  BY <1>5, <1>6, <1>7, <1>8, <1>9 DEF Works

\* The invariant of the data.  An operation reads a variable that no earlier
\* operation of the part left to do will write.
Exposed(t, k, v) == v \in t[k].from /\ \A j \in 1 .. k - 1 : t[j].to # v

\* The variable holds what its pass of the sample gave, and no more.
Fresh(v, n) ==
  value[v] \subseteq Now(n) /\ (v \in Strong /\ i \in 1 .. Samples => value[v] # {})

\* No call failed in this sample or before the sweep.
Clean == 0 \notin failed /\ i \notin failed

Planned ==
  /\ SamePass(todo)
  /\ i = 0 => \A k \in 1 .. Len(todo) : InBefore(example, lang, todo[k])
  /\ i \in 1 .. Samples => \A k \in 1 .. Len(todo) : InSample(example, lang, todo[k])
  /\ i > Samples => \A k \in 1 .. Len(todo) : InAfter(todo[k])
Current ==
  Clean => \A k \in 1 .. Len(todo), v \in Variable :
             Exposed(todo, k, v) => Fresh(v, todo[k].n)
Shared ==
  0 \notin failed => \A v \in Kept(example, lang) : value[v] = {} \/ (i = 0 /\ Assigns(todo, v))

Data == status = "running" => Planned /\ Current /\ Shared

LEMMA KeptVariables ==
  \A e, l : Kept(e, l) \subseteq Outer(e) /\ Kept(e, l) \subseteq Variable \ Strong
BY DEF Kept, Outer, Variable, Strong

\* The operation finds what it reads fresh, and so is what it computes.
LEMMA ReadsFresh ==
  ASSUME Basic, Data, status = "running", todo # <<>>, Clean
  PROVE  /\ \A v \in Head(todo).from : Fresh(v, Head(todo).n)
         /\ From(Head(todo).from) \subseteq Now(Head(todo).n)
         /\ Result(Head(todo)) \subseteq Now(Head(todo).n)
         /\ Head(todo).to \in Strong /\ i \in 1 .. Samples => Result(Head(todo)) # {}
<1> DEFINE op == Head(todo)
<1>1. todo \in Seq(OpSet) /\ op \in OpSet /\ op = todo[1] /\ 1 \in 1 .. Len(todo)
  BY TailFacts DEF Basic
<1>2. op.from \subseteq Variable
  BY <1>1 DEF OpSet
<1>3. op.to \in Strong => op.do \in TakesSample \/ op.from \cap Strong # {}
  BY <1>1 DEF OpSet
<1>4. \A v \in op.from : Exposed(todo, 1, v)
  BY <1>1 DEF Exposed
<1> HIDE DEF op
<1>5. \A v \in op.from : Fresh(v, op.n)
  BY <1>1, <1>2, <1>4 DEF Data, Current
<1>6. From(op.from) \subseteq Now(op.n)
  BY <1>5 DEF From, Fresh
<1>7. Result(op) \subseteq Now(op.n)
  BY <1>6 DEF Result
<1>8. ASSUME op.to \in Strong, i \in 1 .. Samples PROVE Result(op) # {}
  <2>1. CASE op.do \in TakesSample
    BY <1>8, <2>1 DEF Result, Now
  <2>2. CASE op.from \cap Strong # {}
    <3>1. PICK v \in op.from : v \in Strong
      BY <2>2
    <3>2. value[v] # {}
      BY <1>5, <1>8, <3>1 DEF Fresh
    <3>3. QED
      BY <3>1, <3>2 DEF Result, From
  <2>3. QED
    BY <1>3, <1>8, <2>1, <2>2
<1>9. QED
  BY <1>5, <1>6, <1>7, <1>8 DEF op

\* A C program is led astray only after a call that failed in the same sample or
\* before the sweep.
LEMMA StrayAfterFault ==
  ASSUME Basic, Data, DoStray
  PROVE  ~Clean
<1> SUFFICES ASSUME Clean PROVE FALSE
  OBVIOUS
<1> DEFINE op == Head(todo)
           v == ReliesOn(Head(todo).do)
<1>1. /\ status = "running" /\ todo # <<>> /\ op.do \in Unchecked /\ lang = "c"
      /\ Unset \in value[v]
  BY DEF DoStray, Doing
<1>2. /\ todo \in Seq(OpSet) /\ op = todo[1] /\ 1 \in 1 .. Len(todo)
      /\ i \in 0 .. Samples + 1
  BY <1>1, TailFacts DEF Basic
<1>3. Planned /\ Shared
  BY <1>1 DEF Data
<1>4. v \in op.from \cup Kept(example, lang) /\ (i = 0 => v \in op.from)
  <2>1. CASE i = 0
    BY <1>1, <1>2, <1>3, <2>1 DEF Planned, InBefore
  <2>2. CASE i \in 1 .. Samples
    BY <1>1, <1>2, <1>3, <2>2 DEF Planned, InSample
  <2>3. CASE i > Samples
    <3>1. InAfter(op)
      BY <1>2, <1>3, <2>3 DEF Planned
    <3>2. QED
      BY <1>1, <3>1 DEF InAfter, Unchecked
  <2>4. QED
    BY <1>2, <2>1, <2>2, <2>3, SizeAssumption
<1>5. Unset \notin Now(op.n)
  BY <1>2, SizeAssumption DEF Now, Unset
<1> HIDE DEF op, v
<1>6. CASE v \in op.from
  <2>1. Fresh(v, op.n)
    BY <1>1, <1>6, ReadsFresh DEF op
  <2>2. QED
    BY <1>1, <1>5, <2>1 DEF Fresh
<1>7. CASE v \in Kept(example, lang) /\ i # 0
  <2>1. value[v] = {}
    BY <1>3, <1>7 DEF Shared, Clean
  <2>2. QED
    BY <1>1, <2>1
<1>8. QED
  BY <1>4, <1>6, <1>7

LEMMA DataInit ==
  ASSUME example \in Example, lang \in Language, todo = Script(example, lang).before, i = 0
  PROVE  Data
<1>1. Flows(example, lang, Prog) /\ todo = Prog.before
  BY FlowingPrograms DEF Prog
<1>2. Planned
  BY <1>1, SizeAssumption DEF Planned, Flows, InPasses, Places
<1>3. \A k \in 1 .. Len(todo), v \in Variable : ~Exposed(todo, k, v)
  BY <1>1 DEF Flows, Sources, Sourced, Exposed
<1>4. Shared
  BY <1>1 DEF Shared, Flows, Delivers
<1>5. QED
  BY <1>2, <1>3, <1>4 DEF Data, Current

\* The data after an operation.
LEMMA DataWork ==
  ASSUME Basic, Data, Works, status' = "running"
  PROVE  Data'
<1> DEFINE op == Head(todo)
           u == Tail(todo)
<1>1. /\ status = "running" /\ todo # <<>> /\ UNCHANGED <<example, lang, i>>
      /\ todo' = u
  BY WorkFacts DEF process
<1>2. /\ todo \in Seq(OpSet) /\ u \in Seq(OpSet) /\ Len(todo) \in Nat \ {0}
      /\ Len(u) = Len(todo) - 1 /\ op = todo[1] /\ op \in OpSet
      /\ \A k \in 1 .. Len(todo) - 1 : u[k] = todo[k + 1]
      /\ i \in 0 .. Samples + 1 /\ value \in [Variable -> SUBSET Origin]
  BY <1>1, TailFacts DEF Basic, TypeOK
<1>3. /\ \A v \in Variable : v # op.to => value'[v] = value[v]
      /\ failed' \in {failed, failed \cup {i}}
      /\ i \notin failed' /\ op.to \in Variable => value'[op.to] = Result(op)
  BY WorkValues
<1>4. Clean => /\ Result(op) \subseteq Now(op.n)
               /\ op.to \in Strong /\ i \in 1 .. Samples => Result(op) # {}
  BY <1>1, ReadsFresh
<1>5. Planned /\ Current /\ Shared
  BY <1>1 DEF Data
<1>6. /\ i = 0 => InBefore(example, lang, op)
      /\ i \in 1 .. Samples => InSample(example, lang, op)
      /\ i > Samples => InAfter(op)
  BY <1>2, <1>5 DEF Planned
<1>7. InAfter(op) => op.to \notin Variable
  BY <1>2 DEF InAfter, OpSet, Variable
<1> HIDE DEF op, u
<1>8. Planned'
  <2>1. SamePass(u)
    <3>1. SUFFICES ASSUME NEW j \in 1 .. Len(u), NEW k \in 1 .. Len(u), j < k,
                          u[j].to \in u[k].from,
                          \A m \in j + 1 .. k - 1 : u[m].to # u[j].to
                   PROVE  u[j].n = u[k].n
      BY DEF SamePass
    <3>2. /\ j + 1 \in 1 .. Len(todo) /\ k + 1 \in 1 .. Len(todo) /\ j + 1 < k + 1
          /\ u[j] = todo[j + 1] /\ u[k] = todo[k + 1]
      BY <1>2, <3>1
    <3>3. ASSUME NEW m \in (j + 1) + 1 .. (k + 1) - 1 PROVE todo[m].to # todo[j + 1].to
      <4>1. m - 1 \in j + 1 .. k - 1 /\ u[m - 1] = todo[(m - 1) + 1] /\ (m - 1) + 1 = m
        BY <1>2, <3>2
      <4>2. QED
        BY <3>1, <3>2, <4>1
    <3>4. SamePass(todo)
      BY <1>5 DEF Planned
    <3>5. QED
      BY <3>1, <3>2, <3>3, <3>4 DEF SamePass
  <2>2. /\ i = 0 => \A k \in 1 .. Len(u) : InBefore(example, lang, u[k])
        /\ i \in 1 .. Samples => \A k \in 1 .. Len(u) : InSample(example, lang, u[k])
        /\ i > Samples => \A k \in 1 .. Len(u) : InAfter(u[k])
    BY <1>2, <1>5 DEF Planned
  <2>3. QED
    BY <1>1, <2>1, <2>2 DEF Planned
<1>9. Current'
  <2>1. SUFFICES ASSUME Clean', NEW k \in 1 .. Len(u), NEW v \in Variable,
                        v \in u[k].from, \A j \in 1 .. k - 1 : u[j].to # v
                 PROVE  /\ value'[v] \subseteq Now(u[k].n)
                        /\ v \in Strong /\ i \in 1 .. Samples => value'[v] # {}
    BY <1>1 DEF Current, Exposed, Fresh, Now
  <2>2. Clean /\ i \notin failed'
    BY <1>1, <1>3, <2>1 DEF Clean
  <2>3. k + 1 \in 1 .. Len(todo) /\ u[k] = todo[k + 1]
    BY <1>2
  <2>4. CASE v = op.to
    <3>1. op.n = u[k].n
      <4>1. SamePass(todo) /\ 1 \in 1 .. Len(todo) /\ 1 < k + 1
        BY <1>2, <1>5 DEF Planned
      <4>2. ASSUME NEW m \in 1 + 1 .. (k + 1) - 1 PROVE todo[m].to # todo[1].to
        <5>1. m - 1 \in 1 .. k - 1 /\ m - 1 \in 1 .. Len(todo) - 1 /\ (m - 1) + 1 = m
          BY <1>2
        <5>2. u[m - 1] = todo[(m - 1) + 1]
          BY <1>2, <5>1
        <5>3. QED
          BY <1>2, <2>1, <2>4, <5>1, <5>2
      <4>3. QED
        BY <1>2, <2>1, <2>3, <2>4, <4>1, <4>2 DEF SamePass
    <3>2. value'[v] = Result(op)
      BY <1>3, <2>2, <2>4
    <3>3. QED
      BY <1>4, <2>2, <2>4, <3>1, <3>2
  <2>5. CASE v # op.to
    <3>1. ASSUME NEW j \in 1 .. (k + 1) - 1 PROVE todo[j].to # v
      <4>1. CASE j = 1
        BY <1>2, <2>5, <4>1
      <4>2. CASE j # 1
        <5>1. j - 1 \in 1 .. k - 1 /\ u[j - 1] = todo[(j - 1) + 1] /\ (j - 1) + 1 = j
          BY <1>2, <2>3, <4>2
        <5>2. QED
          BY <2>1, <5>1
      <4>3. QED
        BY <4>1, <4>2
    <3>2. Exposed(todo, k + 1, v)
      BY <2>1, <2>3, <3>1 DEF Exposed
    <3>3. Fresh(v, u[k].n)
      BY <1>5, <2>2, <2>3, <3>2 DEF Current
    <3>4. value'[v] = value[v]
      BY <1>3, <2>5
    <3>5. QED
      BY <3>3, <3>4 DEF Fresh
  <2>6. QED
    BY <2>4, <2>5
<1>10. Shared'
  <2>1. SUFFICES ASSUME 0 \notin failed', NEW v \in Kept(example, lang)
                 PROVE  value'[v] = {} \/ (i = 0 /\ Assigns(u, v))
    BY <1>1 DEF Shared
  <2>2. 0 \notin failed /\ v \in Variable
    BY <1>3, <2>1, KeptVariables
  <2>3. value[v] = {} \/ (i = 0 /\ Assigns(todo, v))
    BY <1>5, <2>1, <2>2 DEF Shared
  <2>4. CASE v # op.to
    <3>1. ASSUME Assigns(todo, v) PROVE Assigns(u, v)
      <4>1. PICK k \in 1 .. Len(todo) : todo[k].to = v
        BY <3>1 DEF Assigns
      <4>2. k # 1
        BY <1>2, <2>4, <4>1
      <4>3. k - 1 \in 1 .. Len(u) /\ u[k - 1] = todo[(k - 1) + 1] /\ (k - 1) + 1 = k
        BY <1>2, <4>1, <4>2
      <4>4. QED
        BY <4>1, <4>3 DEF Assigns
    <3>2. QED
      BY <1>3, <2>2, <2>3, <2>4, <3>1
  <2>5. CASE v = op.to
    <3>1. i = 0
      <4>1. i \in 1 .. Samples => op.to \notin Kept(example, lang)
        BY <1>6 DEF InSample
      <4>2. i > Samples => op.to \notin Variable
        BY <1>6, <1>7
      <4>3. QED
        BY <1>2, <2>1, <2>2, <2>5, <4>1, <4>2, SizeAssumption
    <3>2. Clean /\ Now(op.n) = {} /\ i \notin failed'
      BY <2>1, <2>2, <3>1 DEF Clean, Now
    <3>3. value'[v] = {}
      BY <1>3, <1>4, <2>2, <2>5, <3>2
    <3>4. QED
      BY <3>3
  <2>6. QED
    BY <2>4, <2>5
<1>11. QED
  BY <1>8, <1>9, <1>10 DEF Data

\* The data at the beginning of a part.
LEMMA DataPart ==
  ASSUME Basic, Data, NextPart, status' = "running"
  PROVE  Data'
<1>1. /\ status = "running" /\ todo = <<>> /\ UNCHANGED <<example, lang, failed>>
      /\ i \in 0 .. Samples /\ i' = i + 1 /\ todo' = Part(i + 1) /\ value' = Locals
      /\ example \in Example /\ lang \in Language
      /\ value \in [Variable -> SUBSET Origin]
  BY SizeAssumption DEF NextPart, Basic, TypeOK, process
<1>2. Flows(example, lang, Prog)
  BY <1>1, FlowingPrograms DEF Prog
<1>3. \/ i' \in 1 .. Samples /\ todo' = Prog.sample
      \/ i' > Samples /\ todo' = Prog.after
  BY <1>1, SizeAssumption DEF Part, Prog
<1>4. i' # 0 /\ i' \in Int
  BY <1>1
<1>5. Planned'
  BY <1>1, <1>2, <1>3, <1>4, SizeAssumption DEF Planned, Flows, InPasses, Places
<1>6. 0 \notin failed => \A v \in Kept(example, lang) : value'[v] = {}
  <2>1. SUFFICES ASSUME 0 \notin failed, NEW v \in Kept(example, lang) PROVE value'[v] = {}
    OBVIOUS
  <2>2. v \in Outer(example) /\ v \in Variable
    BY KeptVariables
  <2>3. value[v] = {}
    BY <1>1, <2>1 DEF Data, Shared, Assigns
  <2>4. QED
    BY <1>1, <2>2, <2>3 DEF Locals
<1>7. Shared'
  BY <1>1, <1>6 DEF Shared
<1>8. Current'
  <2>1. SUFFICES ASSUME Clean', NEW k \in 1 .. Len(todo'), NEW v \in Variable,
                        v \in todo'[k].from, \A j \in 1 .. k - 1 : todo'[j].to # v
                 PROVE  value'[v] = {} /\ v \notin Strong
    BY DEF Current, Exposed, Fresh
  <2>2. v \in Kept(example, lang)
    BY <1>2, <1>3, <2>1 DEF Flows, Sources, Sourced
  <2>3. QED
    BY <1>1, <1>6, <2>1, <2>2, KeptVariables DEF Clean
<1>9. QED
  BY <1>5, <1>7, <1>8 DEF Data

LEMMA DataStep == Basic /\ Data /\ [Next]_vars => Data'
<1> SUFFICES ASSUME Basic, Data, [Next]_vars, status' = "running" PROVE Data'
  BY DEF Data
<1>1. CASE NextPart
  BY <1>1, DataPart
<1>2. CASE RunScript
  <2>1. /\ example' \in Example /\ lang' \in Language /\ i' = 0
        /\ todo' = Script(example', lang').before
    BY <1>2 DEF RunScript, Basic, TypeOK
  <2>2. Flows(example', lang', Prog') /\ todo' = Prog'.before
    BY <2>1, FlowingPrograms DEF Prog
  <2>3. Planned'
    BY <2>1, <2>2, SizeAssumption DEF Planned, Flows, InPasses, Places
  <2>4. (\A k \in 1 .. Len(todo), v \in Variable : ~Exposed(todo, k, v))'
    BY <2>2 DEF Flows, Sources, Sourced, Exposed
  <2>5. Shared'
    BY <2>1, <2>2 DEF Shared, Flows, Delivers
  <2>6. QED
    BY <2>3, <2>4, <2>5 DEF Data, Current
<1>3. CASE Ended \/ UNCHANGED vars
  <2>1. UNCHANGED vars
    BY <1>3 DEF Ended
  <2>2. QED
    BY <2>1 DEF vars, process, owner, output, Data, Planned, Current, Shared, Clean, Fresh, Now
<1>4. CASE Works
  BY <1>4, DataWork
<1>5. QED
  BY <1>1, <1>2, <1>3, <1>4, NextSplits
--------------------------------------------------------------------------------
(***************************************************************************)
(* Rows, files and plots.                                                  *)
(***************************************************************************)
\* A result that no failed call could spoil is there, or still to come.
RowsOwn ==
  \A s \in 1 .. Samples, pass \in Computed(example) :
    0 \notin failed /\ s \notin failed =>
      \/ Own(s, pass)
      \/ s > i
      \/ s = i /\ status = "running" /\ Stores(todo, pass)

\* A program that looks at the status stops at its first failed call, and no program
\* stops but for a call that failed in the same sample or before the sweep.
Faults ==
  /\ lang # "c" => failed \subseteq {i} /\ (status \in {"running", "done"} => failed = {})
  /\ status \in {"aborted", "undefined"} => ~Clean

\* What is delivered, and what is left to deliver after the sweep.
Delivered == Written \cup shown
Delivery ==
  /\ IF plugins THEN files = {} ELSE shown = {}
  /\ i <= Samples => Delivered = {} /\ said = {}
  /\ lang # "c" \/ failed = {} => said \subseteq Written
  /\ Samples + 1 \notin failed /\ i > Samples /\ status = "running" =>
       \A curves \in Nat :
         curves \in Delivered \/ Writes(todo, curves) <=> curves \in Curves(example, lang)
  /\ Samples + 1 \notin failed /\ status = "done" =>
       \A curves \in Nat : curves \in Delivered <=> curves \in Curves(example, lang)

Outcome == RowsOwn /\ Faults /\ Delivery

LEMMA OutcomeInit == Init => Outcome
<1> SUFFICES ASSUME Init PROVE Outcome
  OBVIOUS
<1>1. RowsOwn
  BY SizeAssumption DEF Init, RowsOwn
<1>2. Faults
  BY DEF Init, Faults
<1>3. Delivery
  BY SizeAssumption DEF Init, Delivery, Delivered, Written
<1>4. QED
  BY <1>1, <1>2, <1>3 DEF Outcome

\* How an operation ends: the program goes on, or a call failed.
LEMMA WorkEnds ==
  ASSUME Basic, Data, Works
  PROVE  /\ failed' \in {failed, failed \cup {i}}
         /\ status' = "running" \/ i \in failed' \/ (failed' = failed /\ ~Clean)
         /\ lang # "c" => \/ status' = "running" /\ failed' = failed
                          \/ status' = "aborted" /\ failed' = failed \cup {i}
<1>1. /\ failed' \in {failed, failed \cup {i}}
      /\ status' = "running" \/ DoStray \/ i \in failed'
  BY WorkValues
<1>2. DoStray => failed' = failed /\ ~Clean /\ lang = "c"
  BY StrayAfterFault DEF DoStray
<1>3. lang # "c" => \/ status' = "running" /\ failed' = failed
                    \/ status' = "aborted" /\ failed' = failed \cup {i}
  BY <1>2, StatusStays DEF Works, DoCreate, DoFill, DoGetLayers, DoGetHandle, DoFree,
     DoStackCall,
     DoArrayCall, DoNumbers, DoInterpolate, DoStore, DoWrite, Succeeds, Fails, Advance, ChecksStatus
<1>4. QED
  BY <1>1, <1>2, <1>3

\* Only a store changes the rows, and it stores what its own pass gave.
LEMMA WorkRows ==
  ASSUME Basic, Data, Works, NEW s \in 1 .. Samples, NEW pass \in Pass,
         0 \notin failed', s \notin failed', Own(s, pass) \/ s = i
  PROVE  \/ Own(s, pass)'
         \/ /\ s = i /\ rows'[s][pass] = rows[s][pass]
            /\ Head(todo).do # "store" \/ Head(todo).n # pass
<1> DEFINE op == Head(todo)
<1>1. /\ status = "running" /\ todo # <<>> /\ UNCHANGED i
      /\ op \in OpSet /\ i \in 0 .. Samples + 1
      /\ rows \in [1 .. Samples -> [Pass -> SUBSET Origin]]
  BY WorkFacts, TailFacts DEF Basic, TypeOK
<1>2. CASE DoStore
  <2>1. op.do = "store" /\ op.n \in Pass /\ "power" \in op.from
    BY <1>1, <1>2 DEF DoStore, Doing, OpSet
  <2>2. rows' = [rows EXCEPT ![i] = [rows[i] EXCEPT ![op.n] = From(op.from)]]
    BY <1>2 DEF DoStore
  <2>3. i = s => From(op.from) = {<<i, op.n>>}
    <3>1. SUFFICES ASSUME i = s PROVE From(op.from) = {<<i, op.n>>}
      OBVIOUS
    <3>2. Clean
      BY <1>2, <3>1, WorkValues DEF Clean
    <3>3. From(op.from) \subseteq Now(op.n) /\ Fresh("power", op.n)
      BY <1>1, <2>1, <3>2, ReadsFresh
    <3>4. From(op.from) # {}
      BY <2>1, <3>1, <3>3 DEF Fresh, From, Strong
    <3>5. QED
      BY <3>1, <3>3, <3>4 DEF Now
  <2> HIDE DEF op
  <2>4. CASE s # i
    BY <1>1, <2>2, <2>4 DEF Own
  <2>5. CASE s = i /\ op.n = pass
    <3>1. rows'[s][pass] = From(op.from)
      BY <1>1, <2>2, <2>5
    <3>2. QED
      BY <2>3, <2>5, <3>1 DEF Own
  <2>6. CASE s = i /\ op.n # pass
    <3>1. rows'[s][pass] = rows[s][pass]
      BY <1>1, <2>1, <2>2, <2>6
    <3>2. QED
      BY <2>6, <3>1 DEF Own, op
  <2>7. QED
    BY <2>4, <2>5, <2>6
<1>3. CASE ~DoStore
  <2>1. UNCHANGED rows
    BY <1>3 DEF Works, DoCreate, DoFill, DoGetLayers, DoGetHandle, DoFree, DoStackCall,
       DoArrayCall,
       DoNumbers, DoInterpolate, DoStray, DoWrite, output
  <2>2. op.do # "store"
    BY <1>3 DEF Works, DoCreate, DoFill, DoGetLayers, DoGetHandle, DoFree, DoStackCall,
       DoArrayCall,
       DoNumbers, DoInterpolate, DoStray, DoWrite, Doing, StackCall, ArrayCall, NumberCall,
          Unchecked
  <2>3. QED
    BY <2>1, <2>2 DEF Own
<1>4. QED
  BY <1>2, <1>3

LEMMA RowsWork ==
  ASSUME Basic, Data, RowsOwn, Works
  PROVE  RowsOwn'
<1>1. /\ status = "running" /\ todo # <<>> /\ UNCHANGED <<example, i>>
      /\ status' = "running" => todo' = Tail(todo)
      /\ todo \in Seq(OpSet) /\ i \in 0 .. Samples + 1
  BY WorkFacts DEF process, Basic
<1>2. SUFFICES ASSUME NEW s \in 1 .. Samples, NEW pass \in Computed(example),
                      0 \notin failed', s \notin failed', ~(s > i)
               PROVE  Own(s, pass)' \/ (s = i /\ status' = "running" /\ Stores(Tail(todo), pass))
  BY <1>1 DEF RowsOwn
<1>3. /\ failed' \in {failed, failed \cup {i}}
      /\ status' = "running" \/ i \in failed' \/ (failed' = failed /\ ~Clean)
  BY WorkEnds
<1>4. Own(s, pass) \/ (s = i /\ Stores(todo, pass))
  BY <1>2, <1>3 DEF RowsOwn
<1>5. pass \in Pass
  BY DEF Computed, Pass
<1>6. \/ Own(s, pass)'
      \/ /\ s = i /\ rows'[s][pass] = rows[s][pass]
         /\ Head(todo).do # "store" \/ Head(todo).n # pass
  BY <1>2, <1>4, <1>5, WorkRows
<1>7. CASE s = i /\ Stores(todo, pass) /\ (Head(todo).do # "store" \/ Head(todo).n # pass)
  <2>1. status' = "running"
    BY <1>2, <1>3, <1>7 DEF Clean
  <2>2. PICK k \in 1 .. Len(todo) : todo[k].do = "store" /\ todo[k].n = pass
    BY <1>7 DEF Stores
  <2>3. /\ Head(todo) = todo[1] /\ Len(Tail(todo)) = Len(todo) - 1 /\ Len(todo) \in Nat
        /\ \A j \in 1 .. Len(todo) - 1 : Tail(todo)[j] = todo[j + 1]
    BY <1>1, TailFacts
  <2>4. k # 1
    BY <1>7, <2>2, <2>3
  <2>5. k - 1 \in 1 .. Len(Tail(todo)) /\ Tail(todo)[k - 1] = todo[(k - 1) + 1] /\ (k - 1) + 1 = k
    BY <2>2, <2>3, <2>4
  <2>6. Stores(Tail(todo), pass)
    BY <2>2, <2>5 DEF Stores
  <2>7. QED
    BY <1>7, <2>1, <2>6
<1>8. CASE Own(s, pass) /\ s = i /\ rows'[s][pass] = rows[s][pass]
  BY <1>8 DEF Own
<1>9. QED
  BY <1>4, <1>6, <1>7, <1>8

\* After the last operation of a sample its rows are there.
LEMMA RowsPart ==
  ASSUME Basic, RowsOwn, NextPart
  PROVE  RowsOwn'
<1>1. /\ status = "running" /\ todo = <<>> /\ UNCHANGED <<example, lang, failed, rows>>
      /\ i \in 0 .. Samples + 1 /\ i' = i + 1
      /\ i <= Samples => todo' = Part(i + 1) /\ status' = "running"
      /\ example \in Example /\ lang \in Language
  BY SizeAssumption DEF NextPart, Basic, TypeOK, process, output
<1>2. SUFFICES ASSUME NEW s \in 1 .. Samples, NEW pass \in Computed(example),
                      0 \notin failed, s \notin failed, ~(s > i + 1), ~Own(s, pass)
               PROVE  s = i + 1 /\ status' = "running" /\ Stores(todo', pass)
  BY <1>1 DEF RowsOwn, Own
<1>3. ~Stores(<<>>, pass)
  BY DEF Stores
<1>4. s > i
  BY <1>1, <1>2, <1>3 DEF RowsOwn
<1>5. s = i + 1 /\ i <= Samples /\ i + 1 \in 1 .. Samples
  BY <1>1, <1>2, <1>4, SizeAssumption
<1>6. todo' = Script(example, lang).sample
  BY <1>1, <1>5 DEF Part
<1>7. Stores(todo', pass)
  BY <1>1, <1>6, FlowingPrograms DEF Flows, Delivers
<1>8. QED
  BY <1>1, <1>5, <1>7

\* Only a write delivers, or says so, and only after the sweep.
LEMMA WorkDelivers ==
  ASSUME Basic, Data, Works
  PROVE  \/ /\ UNCHANGED <<files, shown, said>> /\ Head(todo).do # "write"
         \/ /\ i > Samples /\ Head(todo).do = "write" /\ Head(todo).n \in Nat
            /\ \/ ~plugins /\ UNCHANGED shown
               \/ plugins /\ UNCHANGED files
            /\ \/ Delivered' = Delivered \cup {Head(todo).n}
               \/ Delivered' = Delivered /\ i \in failed'
            /\ Written \subseteq Written'
            /\ \/ said' = said
               \/ said' = said \cup {Head(todo).n} /\ Head(todo).n \in Written'
               \/ said' = said \cup {Head(todo).n} /\ lang = "c" /\ i \in failed'
<1> DEFINE curves == Head(todo).n
<1>1. /\ status = "running" /\ todo # <<>> /\ todo \in Seq(OpSet) /\ Head(todo) \in OpSet
      /\ Head(todo) = todo[1] /\ 1 \in 1 .. Len(todo) /\ i \in 0 .. Samples + 1
  BY WorkFacts, TailFacts DEF Basic
<1>2. CASE DoWrite
  <2>1. Head(todo).do = "write" /\ curves \in Nat
    BY <1>1, <1>2 DEF DoWrite, Doing, OpSet
  <2>2. i > Samples
    <3>1. i # 0 /\ i \notin 1 .. Samples
      BY <1>1, <2>1 DEF Data, Planned, InBefore, InSample
    <3>2. QED
      BY <1>1, <3>1, SizeAssumption
  <2>3. \/ /\ ~plugins /\ said' = said \cup {curves} /\ UNCHANGED shown
           /\ files' = files \cup {[curves |-> curves, commas |-> Commas(lang, curves)]}
        \/ /\ ~plugins /\ UNCHANGED <<files, shown>> /\ i \in failed'
           /\ said' = said \/ (said' = said \cup {curves} /\ lang = "c")
        \/ plugins /\ shown' = shown \cup {curves} /\ UNCHANGED <<files, said>>
        \/ plugins /\ i \in failed' /\ UNCHANGED <<files, shown, said>>
    BY <1>2 DEF DoWrite, Fails, Plots, ChecksStatus
  <2> HIDE DEF curves
  <2>4. CASE /\ ~plugins /\ said' = said \cup {curves} /\ UNCHANGED shown
             /\ files' = files \cup {[curves |-> curves, commas |-> Commas(lang, curves)]}
    <3> DEFINE file == [curves |-> curves, commas |-> Commas(lang, curves)]
    <3>1. files' = files \cup {file} /\ file.curves = curves
      BY <2>4
    <3> HIDE DEF file
    <3>2. Written' = Written \cup {curves}
      BY <3>1 DEF Written
    <3>3. Delivered' = Delivered \cup {curves}
      BY <2>4, <3>2 DEF Delivered
    <3>4. QED
      BY <2>1, <2>2, <2>4, <3>2, <3>3 DEF curves
  <2>5. CASE /\ ~plugins /\ UNCHANGED <<files, shown>> /\ i \in failed'
             /\ said' = said \/ (said' = said \cup {curves} /\ lang = "c")
    BY <2>1, <2>2, <2>5 DEF Delivered, Written, curves
  <2>6. CASE plugins /\ shown' = shown \cup {curves} /\ UNCHANGED <<files, said>>
    BY <2>1, <2>2, <2>6 DEF Delivered, Written, curves
  <2>7. CASE plugins /\ i \in failed' /\ UNCHANGED <<files, shown, said>>
    BY <2>1, <2>2, <2>7 DEF Delivered, Written, curves
  <2>8. QED
    BY <2>3, <2>4, <2>5, <2>6, <2>7
<1>3. CASE ~DoWrite
  BY <1>3 DEF Works, DoCreate, DoFill, DoGetLayers, DoGetHandle, DoFree, DoStackCall,
     DoArrayCall,
     DoNumbers, DoInterpolate, DoStray, DoStore, Doing, StackCall, ArrayCall, NumberCall,
        Unchecked,
     output
<1>4. QED
  BY <1>2, <1>3

LEMMA WritesTail ==
  ASSUME NEW t \in Seq(OpSet), t # <<>>, NEW curves
  PROVE  Writes(t, curves) <=>
           (Head(t).do = "write" /\ Head(t).n = curves) \/ Writes(Tail(t), curves)
<1>1. /\ Len(t) \in Nat \ {0} /\ Head(t) = t[1] /\ Len(Tail(t)) = Len(t) - 1
      /\ \A k \in 1 .. Len(t) - 1 : Tail(t)[k] = t[k + 1]
  BY TailFacts
<1>2. ASSUME Writes(t, curves)
      PROVE  (Head(t).do = "write" /\ Head(t).n = curves) \/ Writes(Tail(t), curves)
  <2>1. PICK k \in 1 .. Len(t) : t[k].do = "write" /\ t[k].n = curves
    BY <1>2 DEF Writes
  <2>2. CASE k = 1
    BY <1>1, <2>1, <2>2
  <2>3. CASE k # 1
    <3>1. k - 1 \in 1 .. Len(Tail(t)) /\ Tail(t)[k - 1] = t[(k - 1) + 1] /\ (k - 1) + 1 = k
      BY <1>1, <2>1, <2>3
    <3>2. QED
      BY <2>1, <3>1 DEF Writes
  <2>4. QED
    BY <2>2, <2>3
<1>3. ASSUME Writes(Tail(t), curves) PROVE Writes(t, curves)
  <2>1. PICK k \in 1 .. Len(Tail(t)) : Tail(t)[k].do = "write" /\ Tail(t)[k].n = curves
    BY <1>3 DEF Writes
  <2>2. k + 1 \in 1 .. Len(t) /\ t[k + 1] = Tail(t)[k]
    BY <1>1, <2>1
  <2>3. QED
    BY <2>1, <2>2 DEF Writes
<1>4. ASSUME Head(t).do = "write", Head(t).n = curves PROVE Writes(t, curves)
  BY <1>1, <1>4 DEF Writes
<1>5. QED
  BY <1>2, <1>3, <1>4

LEMMA DeliveryWork ==
  ASSUME Basic, Data, Delivery, Works
  PROVE  Delivery'
<1>1. /\ status = "running" /\ todo # <<>> /\ UNCHANGED <<example, lang, plugins, i>>
      /\ status' \in {"running", "aborted", "undefined"}
      /\ status' = "running" => todo' = Tail(todo)
      /\ todo \in Seq(OpSet) /\ i \in 0 .. Samples + 1
  BY WorkFacts DEF process, Basic
<1>2. /\ failed' \in {failed, failed \cup {i}}
      /\ failed \subseteq failed'
      /\ failed' = {} => failed = {} /\ i \notin failed'
  BY WorkEnds
<1>3. CASE UNCHANGED <<files, shown, said>> /\ Head(todo).do # "write"
  <2>1. UNCHANGED <<Written, Delivered>>
    BY <1>3 DEF Written, Delivered
  <2>2. \A curves : Writes(todo, curves) <=> Writes(Tail(todo), curves)
    BY <1>1, <1>3, WritesTail
  <2>3. QED
    BY <1>1, <1>2, <1>3, <2>1, <2>2, SizeAssumption DEF Delivery
<1>4. ASSUME /\ i > Samples /\ Head(todo).do = "write" /\ Head(todo).n \in Nat
             /\ \/ ~plugins /\ UNCHANGED shown
                \/ plugins /\ UNCHANGED files
             /\ \/ Delivered' = Delivered \cup {Head(todo).n}
                \/ Delivered' = Delivered /\ i \in failed'
             /\ Written \subseteq Written'
             /\ \/ said' = said
                \/ said' = said \cup {Head(todo).n} /\ Head(todo).n \in Written'
                \/ said' = said \cup {Head(todo).n} /\ lang = "c" /\ i \in failed'
      PROVE  Delivery'
  <2>1. (IF plugins THEN files = {} ELSE shown = {})'
    BY <1>1, <1>4 DEF Delivery
  <2>2. ~(i <= Samples)
    BY <1>1, <1>4, SizeAssumption
  <2>3. lang # "c" \/ failed' = {} => said' \subseteq Written'
    BY <1>2, <1>4 DEF Delivery
  <2>4. ASSUME Samples + 1 \notin failed', status' = "running"
        PROVE  \A curves \in Nat :
                 curves \in Delivered' \/ Writes(Tail(todo), curves)
                   <=> curves \in Curves(example, lang)
    <3>1. Delivered' = Delivered \cup {Head(todo).n} /\ Samples + 1 \notin failed
      <4>1. i = Samples + 1
        BY <1>1, <2>2, SizeAssumption
      <4>2. QED
        BY <1>2, <1>4, <2>4, <4>1
    <3>2. \A curves \in Nat :
            curves \in Delivered \/ Writes(todo, curves) <=> curves \in Curves(example, lang)
      BY <1>1, <1>4, <3>1 DEF Delivery
    <3>3. \A curves : Writes(todo, curves) <=>
                        Head(todo).n = curves \/ Writes(Tail(todo), curves)
      BY <1>1, <1>4, WritesTail
    <3>4. QED
      BY <3>1, <3>2, <3>3
  <2>5. QED
    BY <1>1, <2>1, <2>2, <2>3, <2>4 DEF Delivery
<1>5. QED
  BY <1>3, <1>4, WorkDelivers

\* Before the last part nothing is delivered; after it, what is due.
LEMMA DeliveryPart ==
  ASSUME Basic, Delivery, NextPart
  PROVE  Delivery'
<1>1. /\ status = "running" /\ todo = <<>> /\ UNCHANGED <<example, lang, plugins, failed>>
      /\ UNCHANGED <<files, shown, said>>
      /\ i \in 0 .. Samples + 1 /\ i' = i + 1
      /\ IF i <= Samples THEN todo' = Part(i + 1) /\ status' = "running" ELSE status' = "done"
      /\ example \in Example /\ lang \in Language
  BY SizeAssumption DEF NextPart, Basic, TypeOK, process, output
<1>2. UNCHANGED <<Written, Delivered>>
  BY <1>1 DEF Written, Delivered
<1>3. CASE i <= Samples
  <2>1. Delivered = {} /\ said = {}
    BY <1>3 DEF Delivery
  <2>2. ASSUME i' > Samples
        PROVE  \A curves \in Nat : Writes(todo', curves) <=> curves \in Curves(example, lang)
    <3>1. todo' = Script(example, lang).after
      BY <1>1, <1>3, <2>2, SizeAssumption DEF Part
    <3>2. QED
      BY <1>1, <3>1, FlowingPrograms DEF Flows, Delivers
  <2>3. QED
    BY <1>1, <1>2, <1>3, <2>1, <2>2 DEF Delivery
<1>4. CASE ~(i <= Samples)
  <2>1. i > Samples /\ ~(i' <= Samples) /\ status' = "done"
    BY <1>1, <1>4, SizeAssumption
  <2>2. \A curves : ~Writes(todo, curves)
    BY <1>1 DEF Writes
  <2>3. Samples + 1 \notin failed =>
          \A curves \in Nat : curves \in Delivered <=> curves \in Curves(example, lang)
    BY <1>1, <2>1, <2>2 DEF Delivery
  <2>4. QED
    BY <1>1, <1>2, <2>1, <2>3 DEF Delivery
<1>5. QED
  BY <1>3, <1>4

LEMMA OutcomeStep == Basic /\ Data /\ Outcome /\ [Next]_vars => Outcome'
<1> SUFFICES ASSUME Basic, Data, Outcome, [Next]_vars PROVE Outcome'
  OBVIOUS
<1>1. CASE NextPart
  <2>1. Faults'
    BY <1>1 DEF NextPart, Outcome, Faults, Clean, process
  <2>2. QED
    BY <1>1, <2>1, RowsPart, DeliveryPart DEF Outcome
<1>2. CASE RunScript
  <2>1. /\ i' = 0 /\ status' = "running" /\ failed' = {} /\ files' = {} /\ shown' = {}
        /\ said' = {}
    BY <1>2 DEF RunScript
  <2>2. RowsOwn' /\ Faults' /\ Delivery'
    BY <2>1, SizeAssumption DEF RowsOwn, Faults, Clean, Delivery, Delivered, Written
  <2>3. QED
    BY <2>2 DEF Outcome
<1>3. CASE Ended \/ UNCHANGED vars
  <2>1. UNCHANGED vars
    BY <1>3 DEF Ended
  <2>2. QED
    BY <2>1 DEF vars, process, owner, output, Outcome, RowsOwn, Own, Faults, Clean,
       Delivery, Delivered, Written
<1>4. CASE Works
  <2>1. Faults'
    <3>1. status = "running" /\ UNCHANGED <<lang, i>>
      BY <1>4, WorkFacts DEF process
    <3>2. /\ failed' \in {failed, failed \cup {i}}
          /\ status' = "running" \/ i \in failed' \/ (failed' = failed /\ ~Clean)
          /\ lang # "c" => \/ status' = "running" /\ failed' = failed
                           \/ status' = "aborted" /\ failed' = failed \cup {i}
      BY <1>4, WorkEnds
    <3>3. QED
      BY <3>1, <3>2 DEF Outcome, Faults, Clean
  <2>2. RowsOwn'
    BY <1>4, RowsWork DEF Outcome
  <2>3. Delivery'
    BY <1>4, DeliveryWork DEF Outcome
  <2>4. QED
    BY <2>1, <2>2, <2>3 DEF Outcome
<1>5. QED
  BY <1>1, <1>2, <1>3, <1>4, NextSplits

LEMMA OutcomeInvariant == Spec => [](Basic /\ Data /\ Outcome)
<1>1. Init => Basic /\ Data /\ Outcome
  BY BasicInit, DataInit, OutcomeInit DEF Init
<1>2. Basic /\ Data /\ Outcome /\ [Next]_vars => (Basic /\ Data /\ Outcome)'
  BY BasicStep, DataStep, OutcomeStep
<1>3. QED
  BY <1>1, <1>2, PTL DEF Spec

\* A failure spoils the rows of its own sample only, unless it struck before the
\* sweep.
THEOREM FaultsStayInSample == Spec => []FaultStaysInSample
<1>1. Basic /\ Data /\ Outcome => FaultStaysInSample
  BY DEF Outcome, RowsOwn, FaultStaysInSample, Basic, TypeOK
<1>2. QED
  BY <1>1, OutcomeInvariant, PTL

\* A program that says it wrote a file has written it, and its rows are their own.
THEOREM FilesAreTrustworthy == Spec => []FileIsTrustworthy
<1>1. Basic /\ Data /\ Outcome => FileIsTrustworthy
  <2>1. SUFFICES ASSUME Basic, Outcome, said # {}, lang # "c" \/ failed = {}
                 PROVE  /\ said \subseteq Written
                        /\ \A s \in 1 .. Samples, pass \in Computed(example) : Own(s, pass)
    BY DEF FileIsTrustworthy
  <2>2. i > Samples /\ i \in Int
    <3>1. i \in Int /\ Samples \in Int
      BY <2>1, SizeAssumption DEF Basic, TypeOK
    <3>2. ~(i <= Samples)
      BY <2>1 DEF Outcome, Delivery
    <3>3. QED
      BY <3>1, <3>2
  <2>3. failed \subseteq {i}
    BY <2>1 DEF Outcome, Faults
  <2>4. ASSUME NEW s \in 1 .. Samples, NEW pass \in Computed(example) PROVE Own(s, pass)
    <3>1. s < i /\ 0 \notin failed /\ s \notin failed
      BY <2>2, <2>3, SizeAssumption
    <3>2. QED
      BY <2>1, <2>2, <3>1 DEF Outcome, RowsOwn
  <2>5. QED
    BY <2>1, <2>4 DEF Outcome, Delivery
<1>2. QED
  BY <1>1, OutcomeInvariant, PTL

\* A program stops early, or leaves what the languages define, only after a call
\* that failed in the same sample or before the sweep.
THEOREM StopsAfterFault == Spec => []StopsOnlyOnFault
<1>1. Basic /\ Data /\ Outcome => StopsOnlyOnFault
  BY DEF Outcome, Faults, Clean, StopsOnlyOnFault
<1>2. QED
  BY <1>1, OutcomeInvariant, PTL

\* A program that ran to its end has delivered every result, once, unless delivering
\* failed.
THEOREM ResultsAreDelivered == Spec => []ResultsDelivered
<1>1. Basic /\ Data /\ Outcome => ResultsDelivered
  <2>1. SUFFICES ASSUME Basic, Outcome
                 PROVE  /\ status = "done" /\ Samples + 1 \notin failed => Written \cup shown = Due
                        /\ Written = {} \/ shown = {}
    BY DEF ResultsDelivered
  <2>2. Written = {} \/ shown = {}
    BY <2>1 DEF Outcome, Delivery, Written
  <2>3. ASSUME status = "done", Samples + 1 \notin failed PROVE Written \cup shown = Due
    <3>1. Due = Curves(example, lang) /\ Due \subseteq Nat
      BY DEF Due, Curves
    <3>2. Written \cup shown \subseteq Nat
      BY <2>1 DEF Basic, TypeOK, Written
    <3>3. \A curves \in Nat : curves \in Written \cup shown <=> curves \in Curves(example, lang)
      BY <2>1, <2>3 DEF Outcome, Delivery, Delivered
    <3>4. QED
      BY <3>1, <3>2, <3>3
  <2>4. QED
    BY <2>2, <2>3
<1>2. QED
  BY <1>1, OutcomeInvariant, PTL
--------------------------------------------------------------------------------
(***************************************************************************)
(* The contents of the CSV files, failures or not.                         *)
(***************************************************************************)
\* Every file has the separators of its language's writer, and nothing is delivered,
\* said to be, or left to deliver but what the program is there to deliver.
Contents ==
  /\ \A f \in files : f.commas = Commas(lang, f.curves)
  /\ Delivered \cup said \subseteq Curves(example, lang)
  /\ status = "running" /\ i > Samples =>
       \A curves \in Nat : Writes(todo, curves) => curves \in Curves(example, lang)

\* An operation writes at most one file, by its language's writer.
LEMMA WorkFiles ==
  ASSUME Works
  PROVE  \/ files' = files
         \/ files' = files \cup {[curves |-> Head(todo).n,
                                  commas |-> Commas(lang, Head(todo).n)]}
BY DEF Works, DoCreate, DoFill, DoGetLayers, DoGetHandle, DoFree, DoStackCall, DoArrayCall,
       DoNumbers, DoInterpolate, DoStray, DoStore, DoWrite, output

LEMMA ContentsWork ==
  ASSUME Basic, Data, Contents, Works
  PROVE  Contents'
<1>1. /\ status = "running" /\ todo # <<>> /\ UNCHANGED <<example, lang, i>>
      /\ status' = "running" => todo' = Tail(todo)
      /\ todo \in Seq(OpSet)
  BY WorkFacts DEF process, Basic
<1>2. \A curves : Writes(Tail(todo), curves) => Writes(todo, curves)
  BY <1>1, WritesTail
<1>3. (\A f \in files : f.commas = Commas(lang, f.curves))'
  <2>1. CASE files' = files
    BY <1>1, <2>1 DEF Contents
  <2> DEFINE file == [curves |-> Head(todo).n, commas |-> Commas(lang, Head(todo).n)]
  <2>2. CASE files' = files \cup {file}
    <3>1. file.commas = Commas(lang, file.curves)
      OBVIOUS
    <3> HIDE DEF file
    <3>2. QED
      BY <1>1, <2>2, <3>1 DEF Contents
  <2>3. QED
    BY <2>1, <2>2, WorkFiles
<1>4. (Delivered \cup said \subseteq Curves(example, lang))'
  <2>1. CASE UNCHANGED <<files, shown, said>>
    BY <1>1, <2>1 DEF Contents, Delivered, Written
  <2>2. ASSUME /\ i > Samples /\ Head(todo).do = "write" /\ Head(todo).n \in Nat
               /\ \/ Delivered' = Delivered \cup {Head(todo).n}
                  \/ Delivered' = Delivered
               /\ said' \in {said, said \cup {Head(todo).n}}
        PROVE  (Delivered \cup said \subseteq Curves(example, lang))'
    <3>1. Writes(todo, Head(todo).n)
      BY <1>1, <2>2, WritesTail
    <3>2. Head(todo).n \in Curves(example, lang)
      BY <1>1, <2>2, <3>1 DEF Contents
    <3>3. QED
      BY <1>1, <2>2, <3>2 DEF Contents
  <2>3. QED
    BY <2>1, <2>2, WorkDelivers
<1>5. QED
  BY <1>1, <1>2, <1>3, <1>4 DEF Contents

LEMMA ContentsPart ==
  ASSUME Basic, Contents, NextPart
  PROVE  Contents'
<1>1. /\ status = "running" /\ UNCHANGED <<example, lang, files, shown, said>>
      /\ i \in 0 .. Samples + 1 /\ i' = i + 1
      /\ IF i <= Samples THEN todo' = Part(i + 1) /\ status' = "running" ELSE status' = "done"
      /\ example \in Example /\ lang \in Language
  BY SizeAssumption DEF NextPart, Basic, TypeOK, process, output
<1>2. ASSUME status' = "running", i' > Samples
      PROVE  \A curves \in Nat : Writes(todo', curves) => curves \in Curves(example, lang)
  <2>1. todo' = Script(example, lang).after
    BY <1>1, <1>2, SizeAssumption DEF Part
  <2>2. QED
    BY <1>1, <2>1, FlowingPrograms DEF Flows, Delivers
<1>3. UNCHANGED Delivered
  BY <1>1 DEF Delivered, Written
<1>4. QED
  BY <1>1, <1>2, <1>3 DEF Contents

LEMMA ContentsInvariant == Spec => [](Basic /\ Data /\ Outcome /\ Contents)
<1>1. Init => Contents
  BY SizeAssumption DEF Init, Contents, Delivered, Written
<1>2. Basic /\ Data /\ Contents /\ [Next]_vars => Contents'
  <2> SUFFICES ASSUME Basic, Data, Contents, [Next]_vars PROVE Contents'
    OBVIOUS
  <2>1. CASE RunScript
    <3>1. i' = 0 /\ files' = {} /\ shown' = {} /\ said' = {}
      BY <2>1 DEF RunScript
    <3>2. QED
      BY <3>1, SizeAssumption DEF Contents, Delivered, Written
  <2>2. CASE UNCHANGED vars
    BY <2>2 DEF vars, process, output, Contents, Delivered, Written
  <2>3. CASE Ended
    BY <2>2, <2>3 DEF Ended
  <2>4. QED
    BY <2>1, <2>2, <2>3, ContentsWork, ContentsPart, NextSplits
<1>3. QED
  BY <1>1, <1>2, OutcomeInvariant, PTL DEF Spec

\* Whatever fails, a program delivers, and says it delivers, nothing that is not due.
THEOREM NothingElseIsDelivered == Spec => [](Written \cup shown \cup said \subseteq Due)
<1>1. Contents => Written \cup shown \cup said \subseteq Due
  BY DEF Contents, Delivered, Due, Curves
<1>2. QED
  BY <1>1, ContentsInvariant, PTL

\* The files of every example in C, C# and MATLAB have as many separators in each row
\* as in the header; in Fortran those of Example 3, and only those, never do, so that
\* the finding RowsMatchHeader has no other case.
THEOREM HeadersMatch ==
  Spec => [](RowsMatchHeader <=> lang # "fortran" \/ example # "transmission" \/ files = {})
<1>1. Basic /\ Contents =>
        (RowsMatchHeader <=> lang # "fortran" \/ example # "transmission" \/ files = {})
  <2> SUFFICES ASSUME Basic, Contents
               PROVE  RowsMatchHeader <=>
                        lang # "fortran" \/ example # "transmission" \/ files = {}
    OBVIOUS
  <2>1. lang \in Language
    BY DEF Basic, TypeOK
  <2>2. ASSUME NEW f \in files
        PROVE  f.commas.row = f.commas.header <=> lang # "fortran" \/ f.curves # 1
    <3>1. f.commas = Commas(lang, f.curves) /\ f.curves \in Nat
      BY <2>2 DEF Contents, Basic, TypeOK
    <3>2. QED
      BY <2>1, <3>1 DEF Commas, CommasC, CommasCSharp, CommasFortran, CommasMatlab, Language
  <2>3. ASSUME NEW f \in files
        PROVE  f.curves = 1 <=> example = "transmission"
    <3>1. f.curves \in Curves(example, lang)
      BY <2>3 DEF Contents, Delivered, Written
    <3>2. QED
      BY <3>1 DEF Curves
  <2>4. QED
    BY <2>2, <2>3 DEF RowsMatchHeader
<1>2. QED
  BY <1>1, ContentsInvariant, PTL
--------------------------------------------------------------------------------
(***************************************************************************)
(* The report the programs implement.  A sample's rows are settled when    *)
(* the program leaves it, RowsOwn says which of them may be wrong then,    *)
(* Faults when a program may stop, and Delivery and Contents what it has   *)
(* delivered when it ends.                                                 *)
(***************************************************************************)
\* An operation changes no row of another sample, and delivers only if it succeeds.
LEMMA WorkReports ==
  ASSUME Basic, Data, Works
  PROVE  /\ \A s \in 1 .. Samples : s # i => rows'[s] = rows[s]
         /\ Delivered' # Delivered => failed' = failed /\ status' = "running"
<1>1. rows \in [1 .. Samples -> [Pass -> SUBSET Origin]]
  BY DEF Basic, TypeOK
<1>2. CASE DoStore
  BY <1>1, <1>2 DEF DoStore, Delivered, Written
<1>3. CASE DoWrite
  <2>1. UNCHANGED rows
    BY <1>3 DEF DoWrite
  <2>2. UNCHANGED <<files, shown>> \/ Succeeds
    BY <1>3 DEF DoWrite
  <2>3. QED
    BY <2>1, <2>2, StatusStays DEF Succeeds, Advance, Delivered, Written
<1>4. CASE ~DoStore /\ ~DoWrite
  <2>1. UNCHANGED output
    BY <1>4 DEF Works, DoCreate, DoFill, DoGetLayers, DoGetHandle, DoFree, DoStackCall,
       DoArrayCall, DoNumbers, DoInterpolate, DoStray
  <2>2. QED
    BY <2>1 DEF output, Delivered, Written
<1>5. QED
  BY <1>2, <1>3, <1>4

LEMMA RightStays ==
  ASSUME Basic, Data, Works
  PROVE  Right' = Right
<1>1. UNCHANGED <<example, i>> /\ i \in Int
  BY WorkFacts DEF process, Basic, TypeOK
<1>2. ASSUME NEW s \in 1 .. Samples, s < i
      PROVE  (\A pass \in Computed(example) : Own(s, pass))' <=>
               \A pass \in Computed(example) : Own(s, pass)
  BY <1>1, <1>2, WorkReports DEF Own, Computed
<1>3. QED
  BY <1>1, <1>2 DEF Right

LEMMA DueCurves == Due = Curves(example, lang) /\ Due \in {{1}, {2}, {2, 3}} /\ Due \subseteq Nat
BY DEF Due, Curves

LEMMA ReportInit == Init => Report!Init
<1> SUFFICES ASSUME Init PROVE Report!Init
  OBVIOUS
<1>1. i = 0 /\ status = "running" /\ failed = {} /\ files = {} /\ shown = {}
  BY DEF Init
<1>2. Right = {} /\ Written \cup shown = {}
  BY <1>1, SizeAssumption DEF Right, Written
<1>3. QED
  BY <1>1, <1>2, DueCurves DEF Report!Init

\* The step to the next sample, or to the end.
LEMMA ReportPart ==
  ASSUME Basic, Outcome, Contents, NextPart
  PROVE  Report!Pass \/ Report!Finish
<1>1. /\ status = "running" /\ todo = <<>>
      /\ UNCHANGED <<example, lang, failed, rows, files, shown>>
      /\ i \in 0 .. Samples + 1 /\ i' = i + 1 /\ Samples \in Nat
      /\ IF i <= Samples THEN status' = "running" ELSE status' = "done"
  BY SizeAssumption DEF NextPart, Basic, TypeOK, process, output
<1>2. UNCHANGED Due /\ UNCHANGED Delivered
  BY <1>1 DEF Due, Delivered, Written
<1>3. Right' = {s \in 1 .. Samples : s < i + 1 /\ \A pass \in Computed(example) : Own(s, pass)}
  BY <1>1 DEF Right, Own
<1>4. CASE i = 0
  <2>1. Right' = {} /\ Right = {}
    BY <1>1, <1>3, <1>4 DEF Right
  <2>2. Report!Pass
    BY <1>1, <1>2, <1>4, <2>1 DEF Report!Pass, Delivered
  <2>3. QED
    BY <2>2
<1>5. CASE i \in 1 .. Samples /\ \A pass \in Computed(example) : Own(i, pass)
  <2>1. Right' = Right \cup {i}
    BY <1>1, <1>3, <1>5 DEF Right
  <2>2. Report!Pass
    BY <1>1, <1>2, <1>5, <2>1 DEF Report!Pass, Delivered
  <2>3. QED
    BY <2>2
<1>6. CASE i \in 1 .. Samples /\ ~\A pass \in Computed(example) : Own(i, pass)
  <2>1. Right' = Right
    BY <1>1, <1>3, <1>6 DEF Right
  <2>2. PICK pass \in Computed(example) : ~Own(i, pass)
    BY <1>6
  <2>3. ~Stores(todo, pass)
    BY <1>1 DEF Stores
  <2>4. 0 \in failed \/ i \in failed
    BY <1>6, <2>2, <2>3 DEF Outcome, RowsOwn
  <2>5. Report!Pass
    BY <1>1, <1>2, <1>6, <2>1, <2>4 DEF Report!Pass, Report!Excused, Delivered
  <2>6. QED
    BY <2>5
<1>7. CASE i = Samples + 1
  <2>1. Right' = Right
    BY <1>1, <1>3, <1>7 DEF Right
  <2>2. Delivered = Due \/ i \in failed
    <3>1. SUFFICES ASSUME i \notin failed PROVE Delivered = Due
      OBVIOUS
    <3>2. \A curves : ~Writes(todo, curves)
      BY <1>1 DEF Writes
    <3>3. i > Samples
      BY <1>1, <1>7
    <3>4. \A curves \in Nat : curves \in Delivered <=> curves \in Due
      BY <1>1, <1>7, <3>1, <3>2, <3>3, DueCurves DEF Outcome, Delivery
    <3>5. Delivered \subseteq Nat
      BY DueCurves DEF Contents
    <3>6. QED
      BY <3>4, <3>5, DueCurves
  <2>3. Report!Finish
    BY <1>1, <1>2, <1>7, <2>1, <2>2 DEF Report!Finish, Delivered
  <2>4. QED
    BY <2>3
<1>8. QED
  BY <1>1, <1>4, <1>5, <1>6, <1>7

\* An operation delivers a result, fails, stops the program, or does nothing the
\* report knows of.
LEMMA ReportWork ==
  ASSUME Basic, Data, Outcome, Contents, Contents', Works
  PROVE  Report!Overlook \/ Report!Stop \/ Report!Deliver \/ UNCHANGED Report!vars
<1>1. /\ status = "running" /\ UNCHANGED <<example, lang, i>>
      /\ status' \in {"running", "aborted", "undefined"}
  BY WorkFacts DEF process
<1>2. UNCHANGED Due /\ UNCHANGED Right
  BY <1>1, RightStays DEF Due
<1>3. /\ failed' \in {failed, failed \cup {i}}
      /\ status' = "running" \/ failed' \cap {0, i} # {}
      /\ lang # "c" => status' = "aborted" \/ failed' = failed
  BY WorkEnds DEF Clean
<1>4. CASE Delivered' # Delivered
  <2>1. UNCHANGED failed /\ status' = "running"
    BY <1>4, WorkReports
  <2>2. i > Samples /\ Delivered' = Delivered \cup {Head(todo).n}
    BY <1>4, WorkDelivers DEF Delivered, Written
  <2>3. Head(todo).n \in Due \ Delivered
    <3>1. Delivered' \subseteq Due'
      BY DueCurves DEF Contents, Due, Curves
    <3>2. QED
      BY <1>2, <1>4, <2>2, <3>1
  <2>4. Report!Deliver
    BY <1>1, <1>2, <2>1, <2>2, <2>3 DEF Report!Deliver, Delivered
  <2>5. QED
    BY <2>4
<1>5. CASE UNCHANGED Delivered /\ status' = "running"
  <2>1. CASE UNCHANGED failed
    BY <1>1, <1>2, <1>5, <2>1 DEF Report!vars, Delivered
  <2>2. CASE failed' = failed \cup {i} /\ lang = "c"
    BY <1>1, <1>2, <1>5, <2>2 DEF Report!Overlook, Delivered
  <2>3. QED
    BY <1>3, <1>5, <2>1, <2>2
<1>6. CASE UNCHANGED Delivered /\ status' # "running"
  BY <1>1, <1>2, <1>3, <1>6 DEF Report!Stop, Delivered
<1>7. QED
  BY <1>4, <1>5, <1>6

LEMMA ReportStep ==
  ASSUME Basic, Data, Outcome, Contents, Contents', [Next]_vars
  PROVE  [Report!Next]_(Report!vars)
<1>1. CASE NextPart
  BY <1>1, ReportPart DEF Report!Next
<1>2. CASE RunScript
  <2>1. /\ status # "running" /\ lang # "c" /\ lang' = lang
        /\ status' = "running" /\ i' = 0 /\ failed' = {} /\ files' = {} /\ shown' = {}
    BY <1>2 DEF RunScript
  <2>2. Right' = {} /\ (Written \cup shown)' = {}
    BY <2>1, SizeAssumption DEF Right, Written
  <2>3. Due' \in {{1}, {2}, {2, 3}}
    BY DEF Due
  <2>4. Report!Restart
    BY <2>1, <2>2, <2>3 DEF Report!Restart, Basic, TypeOK
  <2>5. QED
    BY <2>4 DEF Report!Next
<1>3. CASE Ended \/ UNCHANGED vars
  <2>1. UNCHANGED vars
    BY <1>3 DEF Ended
  <2>2. QED
    BY <2>1 DEF vars, process, output, Report!vars, Due, Right, Own, Written
<1>4. CASE Works
  BY <1>4, ReportWork DEF Report!Next
<1>5. QED
  BY <1>1, <1>2, <1>3, <1>4, NextSplits

\* Each of the twenty programs, for any samples, failures and scripts, goes through
\* its samples once and in order, leaves no row another value than its own but where a
\* failed call excuses it, and delivers what is due and nothing else after the sweep.
THEOREM Refinement == Spec => ImplementsReport
<1>1. Init => Report!Init
  BY ReportInit
<1>2. /\ Basic /\ Data /\ Outcome /\ Contents
      /\ (Basic /\ Data /\ Outcome /\ Contents)' /\ [Next]_vars
      => [Report!Next]_(Report!vars)
  BY ReportStep
<1>3. QED
  BY <1>1, <1>2, ContentsInvariant, PTL DEF Spec, ImplementsReport, Report!Spec
--------------------------------------------------------------------------------
(***************************************************************************)
(* The programs end, and what they delivered stays as it is.               *)
(***************************************************************************)
\* What is left to do: the operations of this part, and an allowance for each part
\* to come.
Left == IF status = "running" THEN Len(todo) + Longest * (Samples + 2 - i) ELSE 0

LEMMA LeftRange == Basic => Left \in Nat /\ (Left = 0 <=> status # "running")
<1> SUFFICES ASSUME Basic PROVE Left \in Nat /\ (Left = 0 <=> status # "running")
  OBVIOUS
<1>1. Len(todo) \in Nat /\ Samples \in Nat
  BY SizeAssumption DEF Basic
<1>2. CASE status = "running"
  <2>1. i \in 0 .. Samples + 1
    BY <1>2 DEF Basic
  <2>2. QED
    BY <1>1, <1>2, <2>1 DEF Left, Longest
<1>3. CASE status # "running"
  BY <1>3 DEF Left
<1>4. QED
  BY <1>2, <1>3

LEMMA LeftDecreases ==
  ASSUME Basic, status = "running", [Next]_vars, ~UNCHANGED vars
  PROVE  Left' < Left
<1>1. Len(todo) \in Nat /\ Samples \in Nat /\ i \in 0 .. Samples + 1
  BY SizeAssumption DEF Basic
<1>2. Left = Len(todo) + Longest * (Samples + 2 - i) /\ Left > 0
  BY <1>1 DEF Left, Longest
<1>3. CASE status' # "running"
  BY <1>2, <1>3 DEF Left
<1>4. CASE NextPart /\ status' = "running"
  <2>1. /\ Len(todo) = 0 /\ todo' = Part(i + 1) /\ i' = i + 1
        /\ Samples' = Samples
    BY <1>1, <1>4 DEF NextPart
  <2>2. Len(Part(i + 1)) \in Nat /\ Len(Part(i + 1)) < Longest
    <3>1. example \in Example /\ lang \in Language
      BY DEF Basic, TypeOK
    <3>2. Short(Script(example, lang)) /\ Part(i + 1) \in Parts(Script(example, lang))
      BY <3>1, ShortPrograms DEF Part, Parts
    <3>3. QED
      BY <3>1, <3>2, PartTyped DEF Short
  <2>3. QED
    BY <1>1, <1>2, <1>4, <2>1, <2>2 DEF Left, Longest
<1>5. CASE Works /\ status' = "running"
  <2>1. todo' = Tail(todo) /\ UNCHANGED i /\ todo # <<>>
    BY <1>5, WorkFacts
  <2>2. Len(Tail(todo)) = Len(todo) - 1
    BY <2>1, TailFacts DEF Basic
  <2>3. QED
    BY <1>1, <1>2, <1>5, <2>1, <2>2 DEF Left, Longest
<1>6. ~RunScript /\ ~Ended
  BY DEF RunScript, Ended
<1>7. QED
  BY <1>3, <1>4, <1>5, <1>6, NextSplits

\* Every program ends, whatever fails on the way and in whatever language: each of its
\* steps lowers a number that is zero only when it has ended.
THEOREM ProgramsEnd ==
  Spec => /\ [](Left \in Nat /\ (Left = 0 <=> status # "running"))
          /\ [][status = "running" => Left' < Left]_vars
<1>1. Basic /\ [Next]_vars => [status = "running" => Left' < Left]_vars
  BY LeftDecreases
<1>2. QED
  BY <1>1, LeftRange, OutcomeInvariant, PTL DEF Spec

\* No row of a sample that is over is changed again in the same program, also by a
\* part or pass of it that goes wrong.
THEOREM RowsAreSettled ==
  Spec => [][runs' = runs => \A s \in 1 .. Samples : s < i => rows'[s] = rows[s]]_vars
<1> DEFINE Settled == \A s \in 1 .. Samples : s < i => rows'[s] = rows[s]
<1>1. Basic /\ Data /\ [Next]_vars => [runs' = runs => Settled]_vars
  <2> SUFFICES ASSUME Basic, Data, Next, runs' = runs PROVE Settled
    OBVIOUS
  <2>1. CASE NextPart \/ Ended
    BY <2>1 DEF NextPart, Ended, vars, output
  <2>2. CASE RunScript
    BY <2>2 DEF RunScript, Basic, TypeOK
  <2>3. CASE Works
    BY <2>3, WorkReports DEF Basic, TypeOK
  <2>4. QED
    BY <2>1, <2>2, <2>3, NextSplits
<1>2. QED
  BY <1>1, OutcomeInvariant, PTL DEF Spec

\* What a program delivers, as files or as plots, is right but in the rows a failed
\* call excuses, also in C, where failures go unnoticed and nothing is said of a plot.
THEOREM DeliveredRowsAreRight ==
  Spec => [](Written \cup shown # {} =>
               \A s \in 1 .. Samples, pass \in Computed(example) :
                 ~Own(s, pass) => failed \cap {0, s} # {})
<1>1. Basic /\ Outcome /\ Written \cup shown # {} =>
        \A s \in 1 .. Samples, pass \in Computed(example) :
          ~Own(s, pass) => failed \cap {0, s} # {}
  <2> SUFFICES ASSUME Basic, Outcome, Delivered # {},
                      NEW s \in 1 .. Samples, NEW pass \in Computed(example),
                      ~Own(s, pass)
               PROVE  failed \cap {0, s} # {}
    BY DEF Delivered
  <2>1. i \in Int /\ Samples \in Nat /\ ~(i <= Samples)
    BY SizeAssumption DEF Basic, TypeOK, Outcome, Delivery
  <2>2. s < i
    BY <2>1
  <2>3. QED
    BY <2>1, <2>2 DEF Outcome, RowsOwn
<1>2. QED
  BY <1>1, OutcomeInvariant, PTL

\* How a program may stop early.
HowItStops ==
  /\ status = "undefined" => lang = "c"
  /\ status = "aborted" => lang # "c"

LEMMA WorkStops ==
  ASSUME Basic, Data, Works
  PROVE  HowItStops'
<1>1. lang' = lang /\ status' \in {"running", "aborted", "undefined"}
  BY WorkFacts DEF process
<1>2. CASE lang # "c"
  BY <1>1, <1>2, WorkEnds DEF HowItStops
<1>3. CASE lang = "c"
  <2>1. status' # "aborted"
    BY <1>3, StatusStays, WorkFacts DEF Works, DoCreate, DoFill, DoGetLayers,
       DoGetHandle, DoFree, DoStackCall, DoArrayCall, DoNumbers, DoInterpolate, DoStray,
       DoStore, DoWrite, Succeeds, Fails, Advance, ChecksStatus
  <2>2. QED
    BY <1>1, <1>3, <2>1 DEF HowItStops
<1>4. QED
  BY <1>2, <1>3

\* Only the C programs can leave what their language defines, and they never end with an
\* error; in C#, Fortran and MATLAB a program ends with one exactly when a call failed.
THEOREM OnlyCStrays ==
  Spec => [](HowItStops /\ (lang # "c" => (failed # {} <=> status = "aborted")))
<1>1. Init => HowItStops
  BY DEF Init, HowItStops
<1>2. Basic /\ Data /\ HowItStops /\ [Next]_vars => HowItStops'
  <2> SUFFICES ASSUME Basic, Data, HowItStops, [Next]_vars PROVE HowItStops'
    OBVIOUS
  <2>1. CASE NextPart
    BY <2>1 DEF NextPart, HowItStops
  <2>2. CASE RunScript
    BY <2>2 DEF RunScript, HowItStops
  <2>3. CASE Ended \/ UNCHANGED vars
    BY <2>3 DEF Ended, vars, process, HowItStops
  <2>4. CASE Works
    BY <2>4, WorkStops
  <2>5. QED
    BY <2>1, <2>2, <2>3, <2>4, NextSplits
<1>3. Basic /\ Outcome /\ HowItStops =>
        HowItStops /\ (lang # "c" => (failed # {} <=> status = "aborted"))
  BY DEF Basic, TypeOK, Outcome, Faults, Clean, HowItStops
<1>4. QED
  BY <1>1, <1>2, <1>3, OutcomeInvariant, PTL DEF Spec
--------------------------------------------------------------------------------
(***************************************************************************)
(* The conversions of the MATLAB gateway.                                  *)
(***************************************************************************)
\* A matrix that came out of the gateway goes back in as it was, and the scripts
\* find each of its elements in its place, though MATLAB stores it by columns.
THEOREM MatricesSurvive ==
  ASSUME NEW S, NEW m \in [Rows -> [Rows -> S]]
  PROVE  /\ MatrixFromMx(MatrixToMx(m)) = m
         /\ \A r, c \in Rows : ScriptElement(MatrixToMx(m), r + 1, c + 1) = m[r][c]
<1>1. ASSUME NEW r \in Rows, NEW c \in Rows
      PROVE  r + c * 2 \in 0 .. 3 /\ (r + c * 2) % 2 = r /\ (r + c * 2) \div 2 = c
  BY DEF Rows
<1>2. ASSUME NEW r \in Rows, NEW c \in Rows
      PROVE  MatrixToMx(m)[r + c * 2] = m[r][c]
  BY <1>1 DEF MatrixToMx
<1>3. MatrixFromMx(MatrixToMx(m)) = [r \in Rows |-> [c \in Rows |-> m[r][c]]]
  BY <1>2 DEF MatrixFromMx
<1>4. ASSUME NEW r \in Rows, NEW c \in Rows
      PROVE  ScriptElement(MatrixToMx(m), r + 1, c + 1) = m[r][c]
  <2>1. ((c + 1) - 1) * 2 + ((r + 1) - 1) = r + c * 2
    BY DEF Rows
  <2>2. QED
    BY <1>2, <2>1 DEF ScriptElement
<1>5. QED
  BY <1>3, <1>4

\* A complex number survives, also one without an imaginary part.
LEMMA ComplexSurvives ==
  ASSUME NEW S, NEW z \in S \X S
  PROVE  ComplexFromMx(ComplexToMx(z)) = z
BY DEF ComplexFromMx, ComplexToMx

\* The angles of a stack survive the gateway, or, if they are more than its local
\* array holds, end in an error; none are cut off.
THEOREM AnglesSurvive ==
  ASSUME NEW S, NEW angles \in Seq(S \X S), NEW cap \in Nat
  PROVE  AnglesFromMx(AnglesToMx(angles), cap) = IF Len(angles) > cap THEN "error" ELSE angles
<1> DEFINE mx == AnglesToMx(angles)
<1>1. Len(angles) \in Nat /\ \A k \in 1 .. Len(angles) : angles[k] \in S \X S
  OBVIOUS
<1>2. Len(mx) = Len(angles)
  BY <1>1 DEF AnglesToMx
<1>3. ASSUME NEW k \in 1 .. Len(angles)
      PROVE  ComplexFromMx(mx[k]) = angles[k]
  <2>1. mx[k] = ComplexToMx(angles[k])
    BY DEF AnglesToMx
  <2>2. QED
    BY <1>1, <2>1, ComplexSurvives
<1>4. [k \in 1 .. Len(angles) |-> angles[k]] = angles
  BY <1>1
<1> HIDE DEF mx
<1>5. AnglesFromMx(mx, cap) = IF Len(angles) > cap THEN "error" ELSE angles
  BY <1>2, <1>3, <1>4 DEF AnglesFromMx
<1>6. QED
  BY <1>5 DEF mx
================================================================================
