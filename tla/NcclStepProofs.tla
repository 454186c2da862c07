---------------------------- MODULE NcclStepProofs ---------------------------
(***************************************************************************)
(* What the collectives of Nccl promise their callers, for any number of   *)
(* processes, any program and any calls: processes of one communicator     *)
(* that wait in a collective wait in the same call of their program, and   *)
(* every answer is right.                                                  *)
(*                                                                         *)
(* The first argument is that a process cannot overtake another at a call  *)
(* that makes it wait for the others.  The inductive invariant is a story  *)
(* of what the processes have done since they all met last: the calls made *)
(* since then, the size of the communicator after each of them, and how    *)
(* far in it every process is.  Whether a call waits for the others        *)
(* follows from the call and the size before it, so it is the same for     *)
(* every process; none has gone past such a call.                          *)
(*                                                                         *)
(* The second builds on the first: as NCCL only ever sees one call of all  *)
(* its ranks, the contributions it is given are those of the call each of  *)
(* them asked for, in the order of the ranks.  The invariant says this of  *)
(* every process that waits, and of what NCCL hands back; that a process   *)
(* is the rank of its number; and that a clique which was tried and is not *)
(* up has met a failure.                                                   *)
(***************************************************************************)
EXTENDS NcclProofs

(* The size a process has, or will have once it has joined. *)
Size(p) == IF pc[p] \in {"joining", "joined"} THEN post[p].call.world ELSE clique[p].world

(* The process waits for all others, to join a communicator or in a collective. *)
Held(p) ==
  \/ pc[p] = "joining" /\ post[p].call.world > 1
  \/ pc[p] = "waiting" /\ clique[p].world > 1

(* The size after the call c, which found the size w. *)
After(w, c) ==
  IF c.kind = "finalize" THEN 0
  ELSE IF c.kind = "init_rank" /\ c.world > 0 THEN c.world ELSE w

(* Whether the call c has to wait for all processes when it finds the size w. *)
Blocks(c, w) ==
  \/ c.kind = "init_rank" /\ c.world > 1
  \/ c.kind \in {"host", "scalar"} /\ w > 1 /\ ~BadRoot(c, w)
  \/ c.kind = "buffer" /\ w > 1 /\ ~Refused(c, w)

-----------------------------------------------------------------------------
(* The story: n calls since the processes met last, log[0] the one they met *)
(* in; ws[i] is the size after the i-th, at[p] the last that p has made.    *)

Line(n, log, ws) == n \in Nat /\ \A i \in 1 .. n : ws[i] = After(ws[i - 1], log[i])

Ahead(n, log, at) ==
  /\ at \in [Process -> 0 .. n]
  /\ \A p \in Process : /\ Len(todo[p]) = n - at[p]
                        /\ \A i \in 1 .. n - at[p] : todo[p][i] = log[at[p] + i]

(* A story that begins as another does. *)
Extends(n, log1, ws1, log, ws) == \A i \in 0 .. n : log1[i] = log[i] /\ ws1[i] = ws[i]

(* Where p stands at the place k of the story. *)
Stands(p, log, ws, k) ==
  /\ Size(p) = ws[k]
  /\ pc[p] # "idle" => post[p].call = log[k]
  /\ Held(p) <=> k > 0 /\ Blocks(log[k], ws[k - 1])
  /\ \A i \in 1 .. k - 1 : ~Blocks(log[i], ws[i - 1])

Story(n, log, ws, at) ==
  /\ Line(n, log, ws)
  /\ Ahead(n, log, at)
  /\ \A p \in Process : Stands(p, log, ws, at[p])

Sound == faults = 0 /\ ~misplaced

StepInv == Inv /\ (Sound => \E n, log, ws, at : Story(n, log, ws, at))

-----------------------------------------------------------------------------
(* What the story says *)

LEMMA HeldTogether ==
  ASSUME NEW n, NEW log, NEW ws, NEW at, Story(n, log, ws, at),
         NEW p \in Process, NEW q \in Process, Held(p), Held(q)
  PROVE  at[p] = at[q]
<1>1. /\ n \in Nat /\ at[p] \in 0 .. n /\ at[q] \in 0 .. n
      /\ Stands(p, log, ws, at[p]) /\ Stands(q, log, ws, at[q])
  BY DEF Story, Line, Ahead
<1>2. ASSUME NEW j \in 0 .. n, NEW k \in 0 .. n, j < k, j > 0, Blocks(log[j], ws[j - 1]),
             \A i \in 1 .. k - 1 : ~Blocks(log[i], ws[i - 1])
      PROVE  FALSE
  <2>1. j \in 1 .. k - 1
    BY <1>1, <1>2
  <2> QED BY <1>2, <2>1, Zenon
<1>3. at[p] > 0 /\ Blocks(log[at[p]], ws[at[p] - 1]) /\ at[q] > 0 /\ Blocks(log[at[q]], ws[at[q] - 1])
  BY <1>1 DEF Stands
<1>4. /\ \A i \in 1 .. at[p] - 1 : ~Blocks(log[i], ws[i - 1])
      /\ \A i \in 1 .. at[q] - 1 : ~Blocks(log[i], ws[i - 1])
  BY <1>1 DEF Stands
<1>5. ~(at[p] < at[q]) /\ ~(at[q] < at[p])
  BY <1>1, <1>2, <1>3, <1>4, Zenon
<1> QED BY <1>1, <1>5

LEMMA StoryInStep ==
  ASSUME NEW n, NEW log, NEW ws, NEW at, Story(n, log, ws, at),
         NEW p \in Process, NEW q \in Process, Held(p), Held(q)
  PROVE  Len(todo[p]) = Len(todo[q]) /\ post[p].call = post[q].call
<1>1. at[p] = at[q]
  BY HeldTogether
<1>2. Len(todo[p]) = n - at[p] /\ Len(todo[q]) = n - at[q]
  BY DEF Story, Ahead
<1>3. pc[p] # "idle" /\ pc[q] # "idle"
  BY DEF Held
<1>4. post[p].call = log[at[p]] /\ post[q].call = log[at[q]]
  BY <1>3 DEF Story, Stands
<1> QED BY <1>1, <1>2, <1>4

(* Processes that all stand at one place of the story, none of them held,   *)
(* start a new one there.                                                   *)
LEMMA StoryAnew ==
  ASSUME NEW n, NEW log, NEW ws, NEW at, Line(n, log, ws), Ahead(n, log, at)', NEW k \in 0 .. n,
         \A p \in Process : at[p] = k /\ ~Held(p)' /\ Size(p)' = ws[k],
         \A p \in Process : pc'[p] # "idle" => post'[p].call = log[k]
  PROVE  \E m, log1, ws1, at1 : Story(m, log1, ws1, at1)'
<1> DEFINE m == n - k
           log1 == [i \in 0 .. m |-> log[k + i]]
           ws1 == [i \in 0 .. m |-> ws[k + i]]
           at1 == [p \in Process |-> 0]
<1>1. n \in Nat /\ k \in Nat /\ m \in Nat /\ k + m = n
  BY DEF Line
<1>2. /\ \A i \in 0 .. m : log1[i] = log[k + i] /\ ws1[i] = ws[k + i]
      /\ \A p \in Process : at1[p] = 0
      /\ at1 \in [Process -> 0 .. m]
  BY <1>1
<1>3. /\ \A i \in 1 .. n : ws[i] = After(ws[i - 1], log[i])
  BY DEF Line
<1>4. ASSUME NEW i \in 1 .. m
      PROVE  ws1[i] = After(ws1[i - 1], log1[i])
  <2>1. i \in 0 .. m /\ i - 1 \in 0 .. m /\ k + i \in 1 .. n /\ k + (i - 1) = (k + i) - 1
    BY <1>1
  <2> HIDE DEF m, log1, ws1
  <2> QED BY <1>2, <1>3, <2>1
<1>5. ASSUME NEW p \in Process
      PROVE  /\ Len(todo'[p]) = m - at1[p]
             /\ \A i \in 1 .. m - at1[p] : todo'[p][i] = log1[at1[p] + i]
  <2>1. Len(todo'[p]) = n - k /\ \A i \in 1 .. n - k : todo'[p][i] = log[k + i]
    BY DEF Ahead
  <2>2. m - at1[p] = m
    BY <1>1, <1>2
  <2>3. \A i \in 1 .. m : i \in 0 .. m /\ at1[p] + i = i
    BY <1>1, <1>2
  <2> HIDE DEF log1, at1
  <2> QED BY <1>2, <2>1, <2>2, <2>3
<1>6. ASSUME NEW p \in Process
      PROVE  Stands(p, log1, ws1, at1[p])'
  <2>1. log1[0] = log[k] /\ ws1[0] = ws[k] /\ at1[p] = 0
    <3>1. 0 \in 0 .. m /\ k + 0 = k
      BY <1>1
    <3> HIDE DEF m, log1, ws1, at1
    <3> QED BY <1>2, <3>1
  <2> HIDE DEF log1, ws1, at1
  <2> QED BY <2>1 DEF Stands
<1>7. Line(m, log1, ws1) /\ Ahead(m, log1, at1)'
  <2> HIDE DEF m, log1, ws1, at1
  <2> QED BY <1>1, <1>2, <1>4, <1>5 DEF Line, Ahead
<1>8. Story(m, log1, ws1, at1)'
  <2> HIDE DEF m, log1, ws1, at1
  <2> QED BY <1>6, <1>7 DEF Story, Line
<1> HIDE DEF m, log1, ws1, at1
<1> QED BY <1>8

(* Who does nothing stands where it stood, also in a longer story. *)
LEMMA StandsStill ==
  ASSUME NEW n \in Nat, NEW log, NEW ws, NEW log1, NEW ws1, NEW q \in Process, NEW k \in 0 .. n,
         Stands(q, log, ws, k),
         clique'[q] = clique[q], pc'[q] = pc[q], post'[q] = post[q],
         Extends(n, log1, ws1, log, ws)
  PROVE  Stands(q, log1, ws1, k)'
<1>1. Size(q)' = Size(q) /\ (Held(q)' <=> Held(q))
  BY DEF Size, Held
<1>2. log1[k] = log[k] /\ ws1[k] = ws[k] /\ (k > 0 => ws1[k - 1] = ws[k - 1])
  <2>1. k \in 0 .. n /\ (k > 0 => k - 1 \in 0 .. n)
    OBVIOUS
  <2> QED BY <2>1 DEF Extends
<1>3. ASSUME NEW i \in 1 .. k - 1
      PROVE  ~Blocks(log1[i], ws1[i - 1])
  <2>1. i \in 0 .. n /\ i - 1 \in 0 .. n
    OBVIOUS
  <2>2. log1[i] = log[i] /\ ws1[i - 1] = ws[i - 1]
    BY <2>1 DEF Extends
  <2>3. ~Blocks(log[i], ws[i - 1])
    BY DEF Stands
  <2> QED BY <2>2, <2>3
<1>4. CASE k > 0
  BY <1>1, <1>2, <1>3, <1>4 DEF Stands
<1>5. CASE ~(k > 0)
  BY <1>1, <1>2, <1>3, <1>5 DEF Stands
<1> QED BY <1>4, <1>5

(* A step in which every process stays where it stands. *)
LEMMA StoryStays ==
  ASSUME NEW n, NEW log, NEW ws, NEW at, Story(n, log, ws, at), UNCHANGED todo,
         \A q \in Process : Stands(q, log, ws, at[q])'
  PROVE  Story(n, log, ws, at)'
<1>1. Line(n, log, ws) /\ Ahead(n, log, at)
  BY DEF Story
<1>2. Ahead(n, log, at)'
  BY <1>1 DEF Ahead
<1> QED BY <1>1, <1>2 DEF Story, Line

(* The next call of p is the next of the story, which may have to be made   *)
(* longer for it.                                                           *)
LEMMA StoryGoesOn ==
  ASSUME RestInv, NEW n, NEW log, NEW ws, NEW at, Line(n, log, ws), Ahead(n, log, at),
         NEW p \in Process, NEW c \in Upcoming(p), Take(p, c)
  PROVE  \E m, log1, ws1 :
           /\ Line(m, log1, ws1) /\ Ahead(m, log1, [at EXCEPT ![p] = at[p] + 1])'
           /\ m >= n /\ at[p] + 1 <= m /\ log1[at[p] + 1] = c
           /\ Extends(n, log1, ws1, log, ws)
<1> DEFINE k == at[p]
           at1 == [at EXCEPT ![p] = k + 1]
<1>1. /\ n \in Nat /\ at \in [Process -> 0 .. n]
      /\ \A i \in 1 .. n : ws[i] = After(ws[i - 1], log[i])
      /\ \A q \in Process : /\ Len(todo[q]) = n - at[q]
                            /\ \A i \in 1 .. n - at[q] : todo[q][i] = log[at[q] + i]
  BY DEF Line, Ahead
<1>2. todo = [q \in Process |-> todo[q]] /\ \A q \in Process : todo[q] \in Seq(Calls)
  BY DEF RestInv, TodoInv
<1>3. k \in 0 .. n /\ at1[p] = k + 1 /\ \A q \in Process \ {p} : at1[q] = at[q]
  BY <1>1
<1>4. CASE todo[p] # <<>>
  <2>1. c = Head(todo[p]) /\ todo' = [todo EXCEPT ![p] = Tail(todo[p])]
    BY <1>4 DEF Take, Upcoming
  <2>2. todo'[p] = Tail(todo[p]) /\ \A q \in Process \ {p} : todo'[q] = todo[q]
    BY <1>2, <2>1
  <2>3. Len(todo[p]) = n - k /\ Len(todo[p]) > 0 /\ todo[p] \in Seq(Calls)
    BY <1>1, <1>2, <1>4
  <2>4. k + 1 <= n /\ 1 \in 1 .. n - k
    BY <1>1, <1>3, <2>3
  <2>5. log[k + 1] = c
    <3>1. todo[p][1] = log[k + 1]
      BY <1>1, <2>4
    <3> QED BY <2>1, <2>3, <3>1
  <2>6. ASSUME NEW q \in Process
        PROVE  /\ Len(todo'[q]) = n - at1[q]
               /\ \A i \in 1 .. n - at1[q] : todo'[q][i] = log[at1[q] + i]
    <3>1. CASE q = p
      <4>1. Len(Tail(todo[p])) = n - (k + 1)
            /\ \A i \in 1 .. n - (k + 1) : Tail(todo[p])[i] = todo[p][i + 1]
        <5> HIDE DEF k, at1
        <5>1. \A i \in 1 .. n - (k + 1) : i \in 1 .. Len(todo[p]) - 1
          BY <1>1, <1>3, <2>3
        <5> QED BY <1>1, <1>3, <2>3, <5>1
      <4>2. ASSUME NEW i \in 1 .. n - (k + 1)
            PROVE  todo[p][i + 1] = log[(k + 1) + i]
        <5>0. \A j \in 1 .. n - k : todo[p][j] = log[k + j]
          BY <1>1
        <5> HIDE DEF k, at1
        <5>1. n \in Nat /\ k \in 0 .. n
          BY <1>1, <1>3
        <5>2. i + 1 \in 1 .. n - k /\ k + (i + 1) = (k + 1) + i
          BY <5>1
        <5> QED BY <5>0, <5>2
      <4> HIDE DEF k, at1
      <4>3. todo'[q] = Tail(todo[p]) /\ at1[q] = k + 1
        BY <1>3, <2>2, <3>1, Zenon
      <4>4. \A i \in 1 .. n - (k + 1) : Tail(todo[p])[i] = log[(k + 1) + i]
        BY <4>1, <4>2, Zenon
      <4> QED BY <4>1, <4>3, <4>4, Zenon
    <3>2. CASE q # p
      <4>1. todo'[q] = todo[q] /\ at1[q] = at[q]
        BY <1>3, <2>2, <3>2
      <4> HIDE DEF at1
      <4> QED BY <1>1, <4>1
    <3> QED BY <3>1, <3>2
  <2>7. at1 \in [Process -> 0 .. n]
    BY <1>1, <2>4
  <2>8. Ahead(n, log, at1)'
    <3> HIDE DEF at1
    <3> QED BY <2>6, <2>7 DEF Ahead
  <2> HIDE DEF k
  <2>9. Line(n, log, ws) /\ n >= n /\ Extends(n, log, ws, log, ws)
    BY <1>1 DEF Extends
  <2> QED BY <2>4, <2>5, <2>8, <2>9 DEF k
<1>5. CASE todo[p] = <<>>
  <2> DEFINE log1 == [i \in 0 .. n + 1 |-> IF i = n + 1 THEN c ELSE log[i]]
             ws1 == [i \in 0 .. n + 1 |-> IF i = n + 1 THEN After(ws[n], c) ELSE ws[i]]
  <2>1. todo' = [q \in Process |-> IF q = p THEN <<>> ELSE Append(todo[q], c)]
    BY <1>5 DEF Take
  <2>2. k = n
    <3>1. Len(todo[p]) = 0
      BY <1>5
    <3> QED BY <1>1, <1>3, <3>1
  <2>3. /\ \A i \in 0 .. n : log1[i] = log[i] /\ ws1[i] = ws[i]
        /\ log1[n + 1] = c /\ ws1[n + 1] = After(ws[n], c)
    BY <1>1
  <2>4. ASSUME NEW i \in 1 .. n + 1
        PROVE  ws1[i] = After(ws1[i - 1], log1[i])
    <3> HIDE DEF log1, ws1
    <3>1. CASE i = n + 1
      <4>1. i - 1 = n /\ n \in 0 .. n
        BY <1>1, <3>1
      <4> QED BY <2>3, <3>1, <4>1
    <3>2. CASE i # n + 1
      <4>1. i \in 1 .. n /\ i \in 0 .. n /\ i - 1 \in 0 .. n
        BY <1>1, <3>2
      <4> QED BY <1>1, <2>3, <4>1
    <3> QED BY <3>1, <3>2
  <2>5. c \in Calls
    BY UpcomingCall DEF RestInv
  <2>6. ASSUME NEW q \in Process
        PROVE  /\ Len(todo'[q]) = (n + 1) - at1[q]
               /\ \A i \in 1 .. (n + 1) - at1[q] : todo'[q][i] = log1[at1[q] + i]
    <3>1. CASE q = p
      <4>1. todo'[q] = <<>> /\ at1[q] = n + 1
        BY <1>3, <2>1, <2>2, <3>1
      <4> HIDE DEF log1, at1
      <4> QED BY <1>1, <4>1
    <3>2. CASE q # p
      <4>1. todo'[q] = Append(todo[q], c) /\ at1[q] = at[q] /\ at[q] \in 0 .. n
            /\ todo[q] \in Seq(Calls) /\ Len(todo[q]) = n - at[q]
        BY <1>1, <1>2, <1>3, <2>1, <3>2
      <4>2. Len(todo'[q]) = (n + 1) - at1[q]
        BY <1>1, <2>5, <4>1
      <4>3. ASSUME NEW i \in 1 .. (n + 1) - at1[q]
            PROVE  todo'[q][i] = log1[at1[q] + i]
        <5> HIDE DEF log1, at1
        <5>1. CASE i = Len(todo[q]) + 1
          <6>1. at1[q] + i = n + 1 /\ Append(todo[q], c)[i] = c
            BY <1>1, <2>5, <4>1, <5>1
          <6> QED BY <2>3, <4>1, <6>1
        <5>2. CASE i # Len(todo[q]) + 1
          <6>1. i \in 1 .. n - at[q] /\ at1[q] + i \in 0 .. n /\ i \in 1 .. Len(todo[q])
            BY <1>1, <4>1, <5>2
          <6>2. todo'[q][i] = todo[q][i]
            BY <2>5, <4>1, <6>1
          <6>3. todo[q][i] = log[at[q] + i]
            BY <1>1, <6>1
          <6> QED BY <2>3, <4>1, <6>1, <6>2, <6>3
        <5> QED BY <5>1, <5>2
      <4> HIDE DEF log1, at1
      <4> QED BY <4>2, <4>3
    <3> QED BY <3>1, <3>2
  <2>7. at1 \in [Process -> 0 .. n + 1]
    BY <1>1, <1>3
  <2>8. n + 1 \in Nat /\ n + 1 >= n /\ k + 1 <= n + 1
    BY <1>1, <2>2
  <2>9. Line(n + 1, log1, ws1)
    <3> HIDE DEF log1, ws1
    <3> QED BY <2>4, <2>8 DEF Line
  <2>10. Ahead(n + 1, log1, at1)'
    <3> HIDE DEF log1, at1
    <3> QED BY <2>6, <2>7 DEF Ahead
  <2>11. log1[k + 1] = c
    <3> HIDE DEF log1
    <3> QED BY <2>2, <2>3
  <2>12. Extends(n, log1, ws1, log, ws)
    BY <2>3, Zenon DEF Extends
  <2> HIDE DEF log1, ws1
  <2> QED BY <2>8, <2>9, <2>10, <2>11, <2>12
<1> QED BY <1>4, <1>5

(* A process that makes its next call stands at the next place, when the    *)
(* call does with it what the story says.                                   *)
LEMMA StandsNext ==
  ASSUME NEW n \in Nat, NEW log, NEW ws, NEW log1, NEW ws1, NEW m \in Nat,
         NEW p \in Process, NEW k \in 0 .. n, NEW c,
         Stands(p, log, ws, k), ~Held(p), Line(m, log1, ws1), k + 1 <= m, log1[k + 1] = c,
         Extends(n, log1, ws1, log, ws),
         Size(p)' = After(Size(p), c), Held(p)' <=> Blocks(c, Size(p)),
         pc'[p] # "idle" => post'[p].call = c
  PROVE  Stands(p, log1, ws1, k + 1)'
<1>1. k + 1 \in 1 .. m /\ (k + 1) - 1 = k /\ k + 1 > 0
  OBVIOUS
<1>2. ws1[k] = ws[k] /\ log1[k] = log[k] /\ Size(p) = ws[k]
  BY DEF Stands, Extends
<1>3. ws1[k + 1] = After(ws1[k], log1[k + 1])
  BY <1>1 DEF Line
<1>4. Size(p)' = ws1[k + 1]
  BY <1>2, <1>3
<1>5. Held(p)' <=> Blocks(log1[k + 1], ws1[(k + 1) - 1])
  BY <1>1, <1>2
<1>6. ASSUME NEW i \in 1 .. (k + 1) - 1
      PROVE  ~Blocks(log1[i], ws1[i - 1])
  <2>1. i \in 0 .. n /\ i - 1 \in 0 .. n
    OBVIOUS
  <2>2. log1[i] = log[i] /\ ws1[i - 1] = ws[i - 1]
    BY <2>1 DEF Extends
  <2>3. CASE i = k
    <3>1. ~Blocks(log[k], ws[k - 1])
      BY <2>3 DEF Stands
    <3> QED BY <2>2, <2>3, <3>1
  <2>4. CASE i # k
    <3>1. i \in 1 .. k - 1
      BY <2>4
    <3>2. ~Blocks(log[i], ws[i - 1])
      BY <3>1 DEF Stands
    <3> QED BY <2>2, <3>2
  <2> QED BY <2>3, <2>4
<1> QED BY <1>1, <1>4, <1>5, <1>6 DEF Stands

-----------------------------------------------------------------------------
(* What a call does, as long as nothing fails and no buffer is misplaced    *)

Others(p) == \A q \in Process \ {p} : clique'[q] = clique[q] /\ pc'[q] = pc[q] /\ post'[q] = post[q]

(* The call c does with p what the story says of it. *)
Does(p, c) ==
  /\ Size(p)' = After(Size(p), c)
  /\ Held(p)' <=> Blocks(c, Size(p))
  /\ pc'[p] # "idle" => post'[p].call = c
  /\ Others(p)

(* A call that returns at once leaves the size in the clique. *)
LEMMA ReturnDoes ==
  ASSUME CallInv, NEW p \in Process, NEW c, NEW list, NEW ok, NEW got, Return(p, c, list, ok, got)
  PROVE  /\ pc'[p] = "idle" /\ Size(p)' = clique'[p].world /\ ~Held(p)'
         /\ \A q \in Process \ {p} : pc'[q] = pc[q] /\ post'[q] = post[q]
<1>1. pc' = [pc EXCEPT ![p] = "idle"] /\ post' = [post EXCEPT ![p] = Unsent]
  BY DEF Return
<1>2. pc \in [Process -> States] /\ post = [q \in Process |-> post[q]]
  BY DEF CallInv
<1>3. pc'[p] = "idle" /\ \A q \in Process \ {p} : pc'[q] = pc[q] /\ post'[q] = post[q]
  BY <1>1, <1>2
<1> QED BY <1>3 DEF Size, Held

LEMMA IssueDoes ==
  ASSUME CallInv, NEW p \in Process, NEW c, NEW list, NEW bufs, Issue(p, c, list, bufs)
  PROVE  /\ post'[p].call = c /\ Size(p)' = clique'[p].world /\ (Held(p)' <=> clique'[p].world > 1)
         /\ \A q \in Process \ {p} : pc'[q] = pc[q] /\ post'[q] = post[q]
<1>1. /\ pc' = [pc EXCEPT ![p] = "waiting"]
      /\ post' = [post EXCEPT ![p] = [call |-> c, list |-> list, bufs |-> bufs]]
  BY DEF Issue
<1>2. pc \in [Process -> States] /\ post = [q \in Process |-> post[q]]
  BY DEF CallInv
<1>3. /\ pc'[p] = "waiting" /\ post'[p] = [call |-> c, list |-> list, bufs |-> bufs]
      /\ \A q \in Process \ {p} : pc'[q] = pc[q] /\ post'[q] = post[q]
  BY <1>1, <1>2
<1> QED BY <1>3 DEF Size, Held

(* A process of a communicator of several has its clique up, on one device. *)
LEMMA RankUp ==
  ASSUME CliqueInv, NEW p \in Process, clique[p].world > 1
  PROVE  /\ clique[p].attempted /\ clique[p].ready /\ Len(clique[p].devices) = 1
         /\ clique[p].world \in Nat /\ nccl_comm_size(clique[p]) = clique[p].world
<1>1. Whole(Owned(p)) /\ clique[p] \in Cliques /\ Owned(p).c = clique[p]
  BY DEF CliqueInv, Owned
<1>2. clique[p].world \in Nat /\ clique[p].world > 0
  BY <1>1 DEF Cliques
<1>3. clique[p].ready
  BY <1>1, <1>2 DEF Whole
<1>4. clique[p].attempted /\ Len(clique[p].devices) = 1
  BY <1>1, <1>2, <1>3 DEF Whole, nccl_local_rank_count
<1> QED BY <1>2, <1>3, <1>4 DEF nccl_comm_size

(* ensure() leaves the size alone, and all of a clique that was tried. *)
LEMMA EnsureSize ==
  ASSUME NEW s, Whole(s), NEW e \in ensure(s)
  PROVE  e.s.c.world = s.c.world /\ (s.c.attempted => e.s = s)
<1>1. CASE s.c.attempted
  <2>1. e = [s |-> s, bad |-> 0]
    BY <1>1 DEF ensure
  <2> QED BY <2>1
<1>2. CASE ~s.c.attempted
  <2> DEFINE tried == [c |-> [s.c EXCEPT !.attempted = TRUE], l |-> s.l]
             all == [i \in 1 .. Gpus |-> i - 1]
             up == Opened(tried, all, Gpus)
  <2>1. s.c \in Cliques /\ s.c.world = 0
    BY <1>2 DEF Whole, Balanced
  <2>2. tried.c.world = 0 /\ tried.c \in [attempted : BOOLEAN, ready : BOOLEAN, world : Nat,
          rank : Nat, devices : Seq(Device), comms : Nat, streams : Nat]
    BY <2>1 DEF Cliques
  <2> HIDE DEF tried
  <2>3. \A n : release(Opened(tried, all, n)).c.world = 0
    BY DEF release, Closed
  <2>4. [up.c EXCEPT !.ready = TRUE].world = 0
    BY <2>2 DEF Opened
  <2>5. \/ e = [s |-> tried, bad |-> 1]
        \/ \E n \in Device : e = [s |-> release(Opened(tried, all, n)), bad |-> 1]
        \/ e = [s |-> [c |-> [up.c EXCEPT !.ready = TRUE], l |-> up.l], bad |-> 0]
    BY <1>2 DEF ensure, tried
  <2> DEFINE ready == [up.c EXCEPT !.ready = TRUE]
  <2>6. ready.world = 0
    BY <2>4, Zenon
  <2>7. \A n \in Device : e = [s |-> release(Opened(tried, all, n)), bad |-> 1]
                           => e.s.c = release(Opened(tried, all, n)).c
    OBVIOUS
  <2> HIDE DEF all, up, ready
  <2>8. e.s.c.world = 0
    <3>1. CASE e = [s |-> tried, bad |-> 1]
      BY <2>2, <3>1
    <3>2. CASE \E n \in Device : e = [s |-> release(Opened(tried, all, n)), bad |-> 1]
      BY <2>3, <2>7, <3>2, Zenon
    <3>3. CASE e = [s |-> [c |-> ready, l |-> up.l], bad |-> 0]
      <4>1. e.s.c = ready
        BY <3>3
      <4> QED BY <2>6, <4>1
    <3> QED BY <2>5, <3>1, <3>2, <3>3 DEF ready
  <2> QED BY <1>2, <2>1, <2>8
<1> QED BY <1>1, <1>2

LEMMA NothingFails ==
  ASSUME faults = 0, NEW n \in {0, 1}, Fails(n), Sound'
  PROVE  n = 0
BY DEF Fails, Sound

LEMMA InitRankDoes ==
  ASSUME Inv, Sound, Sound', NEW p \in Process, NEW c \in Calls, pc[p] = "idle", nccl_init_rank(p, c)
  PROVE  Does(p, c)
<1>1. CallInv /\ CliqueInv /\ faults = 0 /\ c.kind = "init_rank" /\ c.world \in Int
  BY CallsAssumption DEF Inv, Sound, nccl_init_rank, AllCalls
<1>2. Size(p) = clique[p].world
  BY DEF Size
<1>3. CASE c.world <= 0 /\ UNCHANGED clique /\ Return(p, c, <<>>, FALSE, <<>>)
  <2>1. /\ pc'[p] = "idle" /\ Size(p)' = clique'[p].world /\ ~Held(p)'
        /\ \A q \in Process \ {p} : pc'[q] = pc[q] /\ post'[q] = post[q]
    BY <1>1, <1>3, ReturnDoes
  <2>2. After(Size(p), c) = clique[p].world /\ ~Blocks(c, Size(p))
    BY <1>1, <1>2, <1>3 DEF After, Blocks
  <2> QED BY <1>3, <2>1, <2>2 DEF Does, Others
<1>4. CASE /\ c.world > 0
           /\ Own(p, [c |-> Closed(TRUE), l |-> reset(Owned(p)).l])
           /\ \/ Fails(1)
              \/ \E d \in Device :
                /\ pc' = [pc EXCEPT ![p] = "joining"]
                /\ post' = [post EXCEPT ![p] = [call |-> c, list |-> <<d>>, bufs |-> <<>>]]
  <2>1. ~Fails(1)
    BY <1>1, NothingFails
  <2>2. PICK d \in Device :
          /\ pc' = [pc EXCEPT ![p] = "joining"]
          /\ post' = [post EXCEPT ![p] = [call |-> c, list |-> <<d>>, bufs |-> <<>>]]
    BY <1>4, <2>1
  <2>3. pc \in [Process -> States] /\ post = [q \in Process |-> post[q]]
    BY <1>1 DEF CallInv
  <2>4. /\ pc'[p] = "joining" /\ post'[p].call = c
        /\ \A q \in Process \ {p} : pc'[q] = pc[q] /\ post'[q] = post[q]
    BY <2>2, <2>3
  <2>5. \A q \in Process \ {p} : clique'[q] = clique[q]
    BY <1>1, <1>4 DEF Own, CliqueInv
  <2>6. Size(p)' = c.world /\ (Held(p)' <=> c.world > 1)
    BY <2>4 DEF Size, Held
  <2>7. After(Size(p), c) = c.world /\ (Blocks(c, Size(p)) <=> c.world > 1)
    BY <1>1, <1>4 DEF After, Blocks
  <2> QED BY <2>4, <2>5, <2>6, <2>7 DEF Does, Others
<1> QED BY <1>3, <1>4 DEF nccl_init_rank

LEMMA FinalizeDoes ==
  ASSUME Inv, NEW p \in Process, NEW c \in Calls, nccl_finalize(p, c)
  PROVE  Does(p, c)
<1>1. CallInv /\ CliqueInv /\ c.kind = "finalize"
  BY DEF Inv, nccl_finalize
<1>2. /\ pc'[p] = "idle" /\ Size(p)' = clique'[p].world /\ ~Held(p)'
      /\ \A q \in Process \ {p} : pc'[q] = pc[q] /\ post'[q] = post[q]
  BY <1>1, ReturnDoes DEF nccl_finalize
<1>3. clique' = [clique EXCEPT ![p] = NoClique] /\ clique \in [Process -> Cliques]
  BY <1>1 DEF nccl_finalize, Own, reset, CliqueInv
<1>4. clique'[p].world = 0 /\ \A q \in Process \ {p} : clique'[q] = clique[q]
  BY <1>3 DEF NoClique, Closed
<1>5. After(Size(p), c) = 0 /\ ~Blocks(c, Size(p))
  BY <1>1 DEF After, Blocks
<1> QED BY <1>2, <1>4, <1>5 DEF Does, Others

(* A collective leaves the size as it is. *)
LEMMA CollectiveDoes ==
  ASSUME CallInv, NEW p \in Process, NEW c, c.kind \in Forms, pc[p] = "idle",
         clique'[p].world = clique[p].world, \A q \in Process \ {p} : clique'[q] = clique[q],
         \/ /\ clique[p].world > 1 => ~Blocks(c, clique[p].world)
            /\ \E list, ok, got : Return(p, c, list, ok, got)
         \/ /\ clique[p].world > 1 => Blocks(c, clique[p].world)
            /\ \E list, bufs : Issue(p, c, list, bufs)
  PROVE  Does(p, c)
<1>1. Size(p) = clique[p].world /\ After(Size(p), c) = clique[p].world
  BY DEF Size, After, Forms
<1>2. ~(clique[p].world > 1) => ~Blocks(c, clique[p].world)
  BY DEF Blocks, Forms
<1>3. CASE /\ clique[p].world > 1 => ~Blocks(c, clique[p].world)
           /\ \E list, ok, got : Return(p, c, list, ok, got)
  <2>1. /\ pc'[p] = "idle" /\ Size(p)' = clique'[p].world /\ ~Held(p)'
        /\ \A q \in Process \ {p} : pc'[q] = pc[q] /\ post'[q] = post[q]
    BY <1>3, ReturnDoes
  <2> QED BY <1>1, <1>2, <1>3, <2>1 DEF Does, Others
<1>4. CASE /\ clique[p].world > 1 => Blocks(c, clique[p].world)
           /\ \E list, bufs : Issue(p, c, list, bufs)
  <2>1. /\ post'[p].call = c /\ Size(p)' = clique'[p].world /\ (Held(p)' <=> clique'[p].world > 1)
        /\ \A q \in Process \ {p} : pc'[q] = pc[q] /\ post'[q] = post[q]
    BY <1>4, IssueDoes
  <2> QED BY <1>1, <1>2, <1>4, <2>1 DEF Does, Others
<1> QED BY <1>3, <1>4

(* What ensure() does to the clique of p. *)
LEMMA EnsureDoes ==
  ASSUME CliqueInv, NEW p \in Process, NEW e \in ensure(Owned(p)), Own(p, e.s)
  PROVE  /\ clique'[p] = e.s.c /\ clique'[p].world = clique[p].world
         /\ \A q \in Process \ {p} : clique'[q] = clique[q]
         /\ e.bad \in {0, 1}
         /\ clique[p].world > 1 => e.s.c = clique[p]
<1>1. Whole(Owned(p)) /\ Owned(p).c = clique[p]
  BY DEF CliqueInv, Owned
<1>2. Whole(e.s) /\ e.bad \in {0, 1}
  BY <1>1, EnsureWhole
<1>3. clique'[p] = e.s.c /\ \A q \in Process \ {p} : clique'[q] = clique[q]
  BY <1>2, OwnKeeps
<1>4. e.s.c.world = clique[p].world /\ (clique[p].attempted => e.s = Owned(p))
  BY <1>1, EnsureSize
<1>5. clique[p].world > 1 => clique[p].attempted
  BY RankUp
<1> QED BY <1>1, <1>2, <1>3, <1>4, <1>5

LEMMA HostDoes ==
  ASSUME Inv, Sound, Sound', NEW p \in Process, NEW c \in Calls, pc[p] = "idle", HostCollective(p, c)
  PROVE  Does(p, c)
<1> DEFINE size == nccl_comm_size(clique[p])
           w == clique[p].world
<1>1. CallInv /\ CliqueInv /\ faults = 0 /\ c.kind \in {"host", "scalar"} /\ c.kind \in Forms
  BY DEF Inv, Sound, HostCollective, Forms
<1>2. w > 1 => size = w /\ clique[p].ready
  BY <1>1, RankUp
<1>3. w > 1 => (Blocks(c, w) <=> ~BadRoot(c, w))
  BY <1>1 DEF Blocks
<1>4. CASE /\ BadRoot(c, size) \/ ~(size > 1)
           /\ UNCHANGED clique
           /\ \E list, ok, got : Return(p, c, list, ok, got)
  <2>1. w > 1 => ~Blocks(c, w)
    BY <1>2, <1>3, <1>4
  <2> HIDE DEF size
  <2> QED BY <1>1, <1>4, <2>1, CollectiveDoes
<1>5. ASSUME ~BadRoot(c, size), NEW e \in ensure(Owned(p)), Own(p, e.s),
             \/ ~e.s.c.ready /\ \E list, ok, got : Return(p, c, list, ok, got)
             \/ Fails(1)
             \/ \E list, bufs : Issue(p, c, list, bufs)
      PROVE  Does(p, c)
  <2>1. /\ clique'[p] = e.s.c /\ clique'[p].world = clique[p].world
        /\ \A q \in Process \ {p} : clique'[q] = clique[q]
        /\ clique[p].world > 1 => e.s.c = clique[p]
    BY <1>1, <1>5, EnsureDoes
  <2>2. ~Fails(1)
    BY <1>1, NothingFails
  <2>3. w > 1 => Blocks(c, w)
    BY <1>2, <1>3, <1>5
  <2>4. CASE ~e.s.c.ready /\ \E list, ok, got : Return(p, c, list, ok, got)
    <3>1. ~(clique[p].world > 1)
      BY <1>2, <2>1, <2>4
    <3> QED BY <1>1, <2>1, <2>4, <3>1, CollectiveDoes
  <2>5. CASE \E list, bufs : Issue(p, c, list, bufs)
    BY <1>1, <2>1, <2>3, <2>5, CollectiveDoes
  <2> QED BY <1>5, <2>2, <2>4, <2>5
<1>6. \/ /\ BadRoot(c, size) \/ ~(size > 1)
         /\ UNCHANGED clique
         /\ \E list, ok, got : Return(p, c, list, ok, got)
      \/ /\ ~BadRoot(c, size)
         /\ \E e \in ensure(Owned(p)) :
              /\ Own(p, e.s)
              /\ \/ ~e.s.c.ready /\ \E list, ok, got : Return(p, c, list, ok, got)
                 \/ Fails(1)
                 \/ \E list, bufs : Issue(p, c, list, bufs)
  <2>1. \/ UNCHANGED clique /\ Degrade(p, c) /\ BadRoot(c, size)
        \/ UNCHANGED clique /\ Return(p, c, <<>>, TRUE, Block(p, 1)) /\ size <= 1
        \/ /\ ~BadRoot(c, size)
           /\ \E e \in ensure(Owned(p)) :
                /\ Own(p, e.s)
                /\ \/ ~e.s.c.ready /\ Degrade(p, c)
                   \/ Fails(1)
                   \/ Issue(p, c, <<>>, [i \in 1 .. e.s.c.comms |-> Block(p, 1)])
    BY DEF HostCollective
  <2>2. Degrade(p, c) => \E list, ok, got : Return(p, c, list, ok, got)
    BY DEF Degrade
  <2>3. size <= 1 => ~(size > 1)
    <3>1. size \in Nat
      BY <1>1, GpusAssumption DEF CliqueInv, Cliques, nccl_comm_size
    <3> HIDE DEF size
    <3> QED BY <3>1
  <2> HIDE DEF size
  <2> QED BY <2>1, <2>2, <2>3, Zenon
<1> QED BY <1>4, <1>5, <1>6

LEMMA BufferDoes ==
  ASSUME Inv, Sound, Sound', NEW p \in Process, NEW c \in Calls, pc[p] = "idle", BufferCollective(p, c)
  PROVE  Does(p, c)
<1> DEFINE w == clique[p].world
<1>1. CallInv /\ CliqueInv /\ faults = 0 /\ c.kind = "buffer" /\ c.kind \in Forms
  BY DEF Inv, Sound, BufferCollective, Forms
<1>2. PICK list, recv \in Lists :
        /\ misplaced' = (misplaced \/ (w > 1 /\ {list, recv} # {clique[p].devices}))
        /\ \/ /\ list = <<>> \/ (c.op = "allreduce" /\ Alone(p, list))
              /\ UNCHANGED clique
              /\ Return(p, c, list, list # <<>>, Given(p, list))
           \/ \E e \in ensure(Owned(p)) :
                Own(p, e.s) /\ Fails(e.bad) /\ Served(p, c, list, recv, e.s.c)
  BY DEF BufferCollective
<1>3. w > 1 => list = clique[p].devices /\ recv = clique[p].devices
  <2>1. ~misplaced' /\ ~misplaced
    BY DEF Sound
  <2> QED BY <1>2, <2>1
<1>4. w > 1 => /\ clique[p].ready /\ Len(list) = 1 /\ w \in Nat
               /\ nccl_comm_size(clique[p]) = w /\ ~Alone(p, list) /\ list # <<>>
  <2> SUFFICES ASSUME w > 1
               PROVE  /\ clique[p].ready /\ Len(list) = 1 /\ w \in Nat
                      /\ nccl_comm_size(clique[p]) = w /\ ~Alone(p, list) /\ list # <<>>
    OBVIOUS
  <2>1. /\ clique[p].ready /\ Len(list) = 1 /\ w \in Nat /\ nccl_comm_size(clique[p]) = w
    BY <1>1, <1>3, RankUp
  <2>2. ~Alone(p, list)
    BY <2>1 DEF Alone
  <2>3. list # <<>>
    <3>1. ASSUME list = <<>>
          PROVE  FALSE
      <4>1. Len(list) = 0
        BY <3>1
      <4> QED BY <2>1, <4>1
    <3> QED BY <3>1
  <2> QED BY <2>1, <2>2, <2>3
<1>5. w > 1 => (Blocks(c, w) <=> ~Refused(c, w))
  BY <1>1 DEF Blocks
<1>6. CASE /\ list = <<>> \/ (c.op = "allreduce" /\ Alone(p, list))
           /\ UNCHANGED clique
           /\ Return(p, c, list, list # <<>>, Given(p, list))
  <2>1. ~(w > 1)
    BY <1>4, <1>6
  <2> QED BY <1>1, <1>6, <2>1, CollectiveDoes
<1>7. ASSUME NEW e \in ensure(Owned(p)), Own(p, e.s), Served(p, c, list, recv, e.s.c)
      PROVE  Does(p, c)
  <2>1. /\ clique'[p] = e.s.c /\ clique'[p].world = clique[p].world
        /\ \A q \in Process \ {p} : clique'[q] = clique[q]
        /\ clique[p].world > 1 => e.s.c = clique[p]
    BY <1>1, <1>7, EnsureDoes
  <2>2. \/ \E l, ok, got : Return(p, c, l, ok, got)
        \/ \E l, bufs : Issue(p, c, l, bufs)
    BY <1>7 DEF Served
  <2>3. CASE ~(w > 1)
    BY <1>1, <2>1, <2>2, <2>3, CollectiveDoes
  <2>4. CASE w > 1
    <3>1. Fits(e.s.c, list) /\ Fits(e.s.c, recv)
      BY <1>3, <1>4, <2>1, <2>4 DEF Fits
    <3>2. collective_world(e.s.c, list, TRUE) = w
      BY <1>4, <2>1, <2>4 DEF collective_world
    <3>3. \/ Refused(c, w) /\ \E l, ok, got : Return(p, c, l, ok, got)
          \/ ~Refused(c, w) /\ \E l, bufs : Issue(p, c, l, bufs)
      BY <1>4, <1>7, <2>4, <3>1, <3>2 DEF Served
    <3> QED BY <1>1, <1>5, <2>1, <2>4, <3>3, CollectiveDoes
  <2> QED BY <2>3, <2>4
<1> QED BY <1>2, <1>6, <1>7

-----------------------------------------------------------------------------
(* What failed, or was misplaced, stays so *)

LEMMA FailsKept ==
  ASSUME faults \in 0 .. MaxFaults, NEW n \in {0, 1}, Fails(n) \/ UNCHANGED faults, faults' = 0
  PROVE  faults = 0
BY BoundsAssumption DEF Fails

LEMMA CallSound ==
  ASSUME Inv, Sound', NEW p \in Process, NEW c \in Calls,
         nccl_init_rank(p, c) \/ nccl_finalize(p, c) \/ HostCollective(p, c) \/ BufferCollective(p, c)
  PROVE  Sound
<1>1. faults \in 0 .. MaxFaults /\ faults' = 0 /\ ~misplaced' /\ CliqueInv
  BY DEF Inv, RestInv, Sound
<1>2. ~misplaced
  BY <1>1, Zenon DEF nccl_init_rank, nccl_finalize, HostCollective, BufferCollective
<1>3. \/ UNCHANGED faults \/ Fails(1) \/ Fails(0)
  <2>1. CASE nccl_init_rank(p, c) \/ nccl_finalize(p, c)
    BY <2>1, Zenon DEF nccl_init_rank, nccl_finalize
  <2>2. CASE HostCollective(p, c) \/ BufferCollective(p, c)
    <3>1. UNCHANGED faults \/ Fails(1) \/ \E e \in ensure(Owned(p)) : Fails(e.bad)
      BY <2>2, Zenon DEF HostCollective, BufferCollective
    <3>2. Whole(Owned(p))
      BY <1>1 DEF CliqueInv
    <3>3. \A e \in ensure(Owned(p)) : e.bad \in {0, 1}
      BY <3>2, EnsureWhole
    <3> QED BY <3>1, <3>3
  <2> QED BY <2>1, <2>2
<1>4. faults = 0
  BY <1>1, <1>3, FailsKept
<1> QED BY <1>2, <1>4 DEF Sound

LEMMA WayOnSound ==
  ASSUME Inv, Sound', NEW p \in Process, GoesOn(p)
  PROVE  Sound
<1>1. faults \in 0 .. MaxFaults /\ faults' = 0 /\ ~misplaced'
  BY DEF Inv, RestInv, Sound
<1>2. ~misplaced
  BY <1>1, Zenon DEF GoesOn, Rendezvous, Joined, Exchange, Finish
<1>3. UNCHANGED faults \/ \E n \in {0, 1} : Fails(1 - n)
  BY Zenon DEF GoesOn, Rendezvous, Joined, Exchange, Finish
<1>4. \A n \in {0, 1} : 1 - n \in {0, 1}
  OBVIOUS
<1>5. faults = 0
  BY <1>1, <1>3, <1>4, FailsKept
<1> QED BY <1>2, <1>5 DEF Sound

(* A step in which something fails is not one of the story. *)
LEMMA FailureEnds ==
  ASSUME Inv, NEW p \in Process, JoinFails(p) \/ CollectiveFails(p)
  PROVE  ~Sound'
<1>1. faults \in Nat /\ Fails(1)
  <2>1. faults \in 0 .. MaxFaults /\ MaxFaults \in Nat
    BY BoundsAssumption DEF Inv, RestInv
  <2>2. Fails(1)
    BY Zenon DEF JoinFails, CollectiveFails
  <2> QED BY <2>1, <2>2
<1>2. faults' = faults + 1
  BY <1>1 DEF Fails
<1> QED BY <1>1, <1>2 DEF Sound

-----------------------------------------------------------------------------
(* The steps *)

LEMMA StartsStory ==
  ASSUME Inv, Sound, Sound', NEW n, NEW log, NEW ws, NEW at, Story(n, log, ws, at),
         NEW p \in Process, NEW c \in Upcoming(p), c \in Calls, Take(p, c), pc[p] = "idle", Does(p, c)
  PROVE  \E m, log1, ws1, at1 : Story(m, log1, ws1, at1)'
<1>1. RestInv /\ Line(n, log, ws) /\ Ahead(n, log, at) /\ n \in Nat /\ at \in [Process -> 0 .. n]
      /\ \A q \in Process : Stands(q, log, ws, at[q])
  BY DEF Inv, Story, Line, Ahead
<1> DEFINE at1 == [at EXCEPT ![p] = at[p] + 1]
<1>2. PICK m, log1, ws1 :
        /\ Line(m, log1, ws1) /\ Ahead(m, log1, at1)'
        /\ m >= n /\ at[p] + 1 <= m /\ log1[at[p] + 1] = c
        /\ Extends(n, log1, ws1, log, ws)
  <2>1. RestInv /\ Line(n, log, ws) /\ Ahead(n, log, at)
    BY <1>1
  <2> QED BY <2>1, StoryGoesOn
<1>3. m \in Nat
  BY <1>2 DEF Line
<1>4. at1[p] = at[p] + 1 /\ at[p] \in 0 .. n /\ \A q \in Process \ {p} : at1[q] = at[q]
  BY <1>1
<1>5. ~Held(p)
  BY DEF Held
<1>6. Stands(p, log1, ws1, at1[p])'
  <2> HIDE DEF at1
  <2>1. /\ Size(p)' = After(Size(p), c) /\ (Held(p)' <=> Blocks(c, Size(p)))
        /\ pc'[p] # "idle" => post'[p].call = c
    BY DEF Does
  <2>2. PICK k \in 0 .. n : k = at[p]
    BY <1>4
  <2>3. Stands(p, log, ws, k) /\ k + 1 <= m /\ log1[k + 1] = c
    BY <1>1, <1>2, <2>2
  <2>4. Line(m, log1, ws1) /\ Extends(n, log1, ws1, log, ws)
    BY <1>2
  <2>5. n \in Nat
    BY <1>1
  <2>6. Stands(p, log1, ws1, k + 1)'
    BY <1>3, <1>5, <2>1, <2>3, <2>4, <2>5, StandsNext, SMTT(60)
  <2>7. at1[p] = k + 1
    BY <1>4, <2>2
  <2> QED BY <2>6, <2>7
<1>7. ASSUME NEW q \in Process \ {p}
      PROVE  Stands(q, log1, ws1, at1[q])'
  <2>1. clique'[q] = clique[q] /\ pc'[q] = pc[q] /\ post'[q] = post[q]
    BY DEF Does, Others
  <2>2. PICK k \in 0 .. n : k = at[q] /\ Stands(q, log, ws, k)
    BY <1>1
  <2>3. q \in Process /\ n \in Nat /\ Extends(n, log1, ws1, log, ws)
    BY <1>1, <1>2
  <2>4. Stands(q, log1, ws1, k)'
    BY <2>1, <2>2, <2>3, StandsStill
  <2> HIDE DEF at1
  <2>5. at1[q] = k
    BY <1>4, <2>2
  <2> QED BY <2>4, <2>5
<1> HIDE DEF at1
<1>8. \A q \in Process : Stands(q, log1, ws1, at1[q])'
  BY <1>6, <1>7
<1>9. Story(m, log1, ws1, at1)'
  BY <1>2, <1>8 DEF Story, Line
<1> QED BY <1>9

(* Who waits for others neither before nor after a step of its own call     *)
(* stands where it stood.                                                   *)
LEMMA StandsOn ==
  ASSUME NEW log, NEW ws, NEW k, NEW q \in Process, Stands(q, log, ws, k),
         Size(q)' = Size(q), Held(q)' <=> Held(q),
         pc'[q] # "idle" => pc[q] # "idle" /\ post'[q].call = post[q].call
  PROVE  Stands(q, log, ws, k)'
BY DEF Stands

LEMMA AloneStory ==
  ASSUME NEW n, NEW log, NEW ws, NEW at, Story(n, log, ws, at), UNCHANGED todo,
         NEW p \in Process, Others(p), Size(p)' = Size(p), ~Held(p), ~Held(p)',
         pc'[p] # "idle" => pc[p] # "idle" /\ post'[p].call = post[p].call
  PROVE  Story(n, log, ws, at)'
<1>1. ASSUME NEW q \in Process
      PROVE  Stands(q, log, ws, at[q])'
  <2>1. Stands(q, log, ws, at[q])
    BY DEF Story
  <2>2. CASE q = p
    BY <2>1, <2>2, StandsOn
  <2>3. CASE q # p
    <3>1. clique'[q] = clique[q] /\ pc'[q] = pc[q] /\ post'[q] = post[q]
      BY <2>3 DEF Others
    <3>2. Size(q)' = Size(q) /\ (Held(q)' <=> Held(q))
      BY <3>1 DEF Size, Held
    <3> QED BY <2>1, <3>1, <3>2, StandsOn
  <2> QED BY <2>2, <2>3
<1> QED BY <1>1, StoryStays

(* A step all processes take together, from one place of the story. *)
LEMMA TogetherStory ==
  ASSUME NEW n, NEW log, NEW ws, NEW at, Story(n, log, ws, at), UNCHANGED todo, NEW p \in Process,
         \A q \in Process : at[q] = at[p] /\ pc[q] # "idle" /\ ~Held(q)' /\ Size(q)' = Size(q)
                            /\ post'[q].call = post[q].call
  PROVE  \E m, log1, ws1, at1 : Story(m, log1, ws1, at1)'
<1>1. Line(n, log, ws) /\ Ahead(n, log, at) /\ at[p] \in 0 .. n
      /\ \A q \in Process : Stands(q, log, ws, at[q])
  BY DEF Story, Ahead
<1>2. Ahead(n, log, at)'
  BY <1>1 DEF Ahead
<1>3. PICK k \in 0 .. n : k = at[p]
  BY <1>1
<1>4. ASSUME NEW q \in Process
      PROVE  at[q] = k /\ ~Held(q)' /\ Size(q)' = ws[k] /\ post'[q].call = log[k]
  <2>1. Stands(q, log, ws, k)
    BY <1>1, <1>3
  <2> QED BY <1>3, <2>1 DEF Stands
<1> QED BY <1>1, <1>2, <1>4, StoryAnew

LEMMA EndsStory ==
  ASSUME Inv, Sound, Sound', NEW n, NEW log, NEW ws, NEW at, Story(n, log, ws, at),
         NEW p \in Process, Joined(p) \/ Finish(p)
  PROVE  Story(n, log, ws, at)'
<1>1. CallInv /\ CliqueInv /\ faults = 0 /\ UNCHANGED todo
  BY DEF Inv, Sound, Joined, Finish
<1>2. /\ pc'[p] = "idle" /\ Size(p)' = clique'[p].world /\ ~Held(p)'
      /\ \A q \in Process \ {p} : pc'[q] = pc[q] /\ post'[q] = post[q]
  BY <1>1, ReturnDoes DEF Joined, Finish
<1>3. ~Held(p)
  BY DEF Held, Joined, Finish
<1>4. (\A q \in Process \ {p} : clique'[q] = clique[q]) /\ clique'[p].world = Size(p)
  <2>1. CASE Finish(p)
    BY <2>1 DEF Finish, Size
  <2>2. CASE Joined(p)
    <3>1. PICK i \in {0, 1} : Own(p, adopt_rank(p, i)) /\ Fails(1 - i)
      BY <2>2 DEF Joined
    <3>2. i = 1
      <4>1. 1 - i \in {0, 1}
        OBVIOUS
      <4>2. 1 - i = 0
        BY <1>1, <3>1, <4>1, NothingFails
      <4> QED BY <4>2
    <3> DEFINE joined == Opened(Owned(p), post[p].list, 1)
    <3>3. adopt_rank(p, i) = Ranked(p, joined)
      BY <3>2 DEF adopt_rank
    <3>4. clique[p] \in Cliques /\ clique \in [Process -> Cliques]
      BY <1>1 DEF CliqueInv
    <3>5. "world" \in DOMAIN joined.c
      BY <3>4 DEF Cliques, Opened, Owned
    <3> HIDE DEF joined
    <3>6. Ranked(p, joined).c.world = post[p].call.world
      BY <3>5 DEF Ranked
    <3>7. clique' = [clique EXCEPT ![p] = Ranked(p, joined).c]
      BY <3>1, <3>3 DEF Own
    <3>8. clique'[p] = Ranked(p, joined).c /\ \A q \in Process \ {p} : clique'[q] = clique[q]
      BY <3>4, <3>7
    <3>9. Size(p) = post[p].call.world
      BY <2>2 DEF Joined, Size
    <3> QED BY <3>6, <3>8, <3>9
  <2> QED BY <2>1, <2>2
<1>5. Others(p)
  BY <1>2, <1>4 DEF Others
<1> QED BY <1>1, <1>2, <1>3, <1>4, <1>5, AloneStory

LEMMA RendezvousStory ==
  ASSUME Inv, NEW n, NEW log, NEW ws, NEW at, Story(n, log, ws, at), NEW p \in Process, Rendezvous(p)
  PROVE  \E m, log1, ws1, at1 : Story(m, log1, ws1, at1)'
<1> DEFINE ranks == IF post[p].call.world > 1 THEN Process ELSE {p}
<1>1. /\ pc[p] = "joining" /\ \A q \in ranks : pc[q] = "joining" /\ Len(todo[q]) = Len(todo[p])
      /\ pc' = [q \in Process |-> IF q \in ranks THEN "joined" ELSE pc[q]]
      /\ UNCHANGED <<clique, todo, post>>
  BY DEF Rendezvous
<1>2. CASE post[p].call.world > 1
  <2>1. ranks = Process
    BY <1>2
  <2>2. ASSUME NEW q \in Process
        PROVE  at[q] = at[p] /\ pc[q] # "idle" /\ ~Held(q)' /\ Size(q)' = Size(q)
               /\ post'[q].call = post[q].call
    <3>1. pc[q] = "joining" /\ pc'[q] = "joined" /\ Len(todo[q]) = Len(todo[p])
      BY <1>1, <2>1
    <3>2. n \in Nat /\ at[q] \in 0 .. n /\ at[p] \in 0 .. n /\ n - at[q] = n - at[p]
      BY <3>1 DEF Story, Line, Ahead
    <3>3. at[q] = at[p]
      BY <3>2
    <3> QED BY <1>1, <3>1, <3>3 DEF Held, Size
  <2> QED BY <1>1, <2>2, TogetherStory
<1>3. CASE ~(post[p].call.world > 1)
  <2>1. ranks = {p}
    BY <1>3
  <2>2. pc'[p] = "joined" /\ \A q \in Process \ {p} : pc'[q] = pc[q]
    BY <1>1, <2>1
  <2>3. Others(p) /\ Size(p)' = Size(p) /\ ~Held(p) /\ ~Held(p)'
    BY <1>1, <1>3, <2>2 DEF Others, Size, Held
  <2>4. Story(n, log, ws, at)'
    BY <1>1, <2>3, AloneStory
  <2> QED BY <2>4
<1> QED BY <1>2, <1>3

LEMMA ExchangeStory ==
  ASSUME Inv, NEW n, NEW log, NEW ws, NEW at, Story(n, log, ws, at), NEW p \in Process, Exchange(p)
  PROVE  \E m, log1, ws1, at1 : Story(m, log1, ws1, at1)'
<1> DEFINE S == Members(p)
<1>1. /\ \A q \in S : pc[q] = "waiting" /\ clique[q].world = clique[p].world
      /\ pc' = [q \in Process |-> IF q \in S THEN "arrived" ELSE pc[q]]
      /\ UNCHANGED <<clique, todo>>
  BY DEF Exchange
<1>2. PICK f : post' = [q \in Process |-> IF q \notin S THEN post[q]
                                         ELSE [post[q] EXCEPT !.bufs = f[q]]]
  <2> DEFINE avg(c) == c.avg /\ NativeAvg /\ c.kind # "scalar"
             rank(q, i) == IF clique[q].world > 1 THEN clique[q].rank + 1 ELSE i
             f == [q \in Process |->
                    [i \in DOMAIN post[q].bufs |->
                       IF \A r \in S : SameCollective(post[r].call, post[q].call)
                       THEN Collected(post[q].call, Issued(p), avg(post[q].call), rank(q, i))
                       ELSE Junk]]
  <2>1. post' = [q \in Process |-> IF q \notin S THEN post[q]
                                  ELSE [post[q] EXCEPT !.bufs = f[q]]]
    BY DEF Exchange
  <2> HIDE DEF f
  <2> QED BY <2>1
<1>3. ASSUME NEW q \in Process, pc[q] # "idle"
      PROVE  post'[q].call = post[q].call
  <2>1. CASE q \in S
    <3>1. InCall(post[q])
      BY <1>3 DEF Inv, CallInv, Posted
    <3>2. PICK c \in Calls : \E list, bufs : post[q] = [call |-> c, list |-> list, bufs |-> bufs]
      BY <3>1 DEF InCall
    <3>3. PICK list, bufs : post[q] = [call |-> c, list |-> list, bufs |-> bufs]
      BY <3>2
    <3> HIDE DEF S
    <3>4. post'[q] = [call |-> c, list |-> list, bufs |-> f[q]]
      BY <1>2, <2>1, <3>3
    <3> QED BY <3>3, <3>4
  <2>2. CASE q \notin S
    <3> HIDE DEF S
    <3> QED BY <1>2, <2>2
  <2> QED BY <2>1, <2>2
<1>4. CASE clique[p].world > 1
  <2>1. S = Process
    BY <1>4 DEF Members
  <2>2. ASSUME NEW q \in Process
        PROVE  at[q] = at[p] /\ pc[q] # "idle" /\ ~Held(q)' /\ Size(q)' = Size(q)
               /\ post'[q].call = post[q].call
    <3>1. pc[q] = "waiting" /\ pc'[q] = "arrived" /\ clique[q].world = clique[p].world
          /\ pc[p] = "waiting"
      BY <1>1, <2>1
    <3>2. Held(q) /\ Held(p)
      BY <1>4, <3>1 DEF Held
    <3>3. at[q] = at[p]
      BY <3>2, HeldTogether
    <3> QED BY <1>1, <1>3, <3>1, <3>3 DEF Held, Size
  <2> QED BY <1>1, <2>2, TogetherStory
<1>5. CASE ~(clique[p].world > 1)
  <2>1. S = {p}
    BY <1>5 DEF Members
  <2>2. pc[p] = "waiting" /\ pc'[p] = "arrived" /\ \A q \in Process \ {p} : pc'[q] = pc[q]
    BY <1>1, <2>1
  <2>3. \A q \in Process \ {p} : post'[q] = post[q]
    <3>1. \A q \in Process \ {p} : q \notin S
      BY <2>1
    <3> HIDE DEF S
    <3> QED BY <1>2, <3>1
  <2>4. Others(p) /\ Size(p)' = Size(p) /\ ~Held(p) /\ ~Held(p)'
    BY <1>1, <1>5, <2>2, <2>3 DEF Others, Size, Held
  <2>5. post'[p].call = post[p].call
    BY <1>3, <2>2
  <2>6. Story(n, log, ws, at)'
    BY <1>1, <2>2, <2>4, <2>5, AloneStory
  <2> QED BY <2>6
<1> QED BY <1>4, <1>5

-----------------------------------------------------------------------------
(* The first theorem *)

LEMMA InitStepInv == Init => StepInv
<1> SUFFICES ASSUME Init
             PROVE  StepInv
  OBVIOUS
<1>1. Inv
  BY InitInv
<1> DEFINE log == [i \in {0} |-> Unsent.call]
           ws == [i \in {0} |-> 0]
           at == [p \in Process |-> 0]
<1>2. Line(0, log, ws)
  BY DEF Line
<1>3. Ahead(0, log, at)
  BY DEF Init, Ahead
<1>4. ASSUME NEW p \in Process
      PROVE  Stands(p, log, ws, at[p])
  <2>1. pc[p] = "idle" /\ clique[p].world = 0 /\ at[p] = 0 /\ ws[0] = 0
    BY DEF Init, NoClique, Closed
  <2> QED BY <2>1 DEF Stands, Size, Held
<1>5. Story(0, log, ws, at)
  BY <1>2, <1>3, <1>4 DEF Story
<1> HIDE DEF log, ws, at
<1> QED BY <1>1, <1>5 DEF StepInv

LEMMA NextStepInv == StepInv /\ [Next]_vars => StepInv'
<1> SUFFICES ASSUME StepInv, [Next]_vars, Sound'
             PROVE  \E n, log, ws, at : Story(n, log, ws, at)'
  BY NextInv DEF StepInv
<1>1. Inv
  BY DEF StepInv
<1>2. ASSUME NEW p \in Process, StartsCall(p)
      PROVE  \E n, log, ws, at : Story(n, log, ws, at)'
  <2>1. PICK c \in Upcoming(p) :
          /\ Take(p, c)
          /\ nccl_init_rank(p, c) \/ nccl_finalize(p, c) \/ HostCollective(p, c) \/ BufferCollective(p, c)
    BY <1>2 DEF StartsCall
  <2>2. c \in Calls /\ pc[p] = "idle"
    BY <1>1, <1>2, UpcomingCall DEF Inv, RestInv, StartsCall
  <2>3. Sound
    BY <1>1, <2>1, <2>2, CallSound
  <2>4. Does(p, c)
    BY <1>1, <2>1, <2>2, <2>3, InitRankDoes, FinalizeDoes, HostDoes, BufferDoes
  <2>5. PICK n, log, ws, at : Story(n, log, ws, at)
    BY <2>3 DEF StepInv
  <2> QED BY <1>1, <2>1, <2>2, <2>3, <2>4, <2>5, StartsStory
<1>3. ASSUME NEW p \in Process, GoesOn(p)
      PROVE  \E n, log, ws, at : Story(n, log, ws, at)'
  <2>1. Sound
    BY <1>1, <1>3, WayOnSound
  <2>2. PICK n, log, ws, at : Story(n, log, ws, at)
    BY <2>1 DEF StepInv
  <2>3. CASE Joined(p) \/ Finish(p)
    BY <1>1, <2>1, <2>2, <2>3, EndsStory
  <2>4. CASE Rendezvous(p)
    BY <1>1, <2>2, <2>4, RendezvousStory
  <2>5. CASE Exchange(p)
    BY <1>1, <2>2, <2>5, ExchangeStory
  <2> QED BY <1>3, <2>3, <2>4, <2>5 DEF GoesOn
<1>4. ASSUME NEW p \in Process, JoinFails(p) \/ CollectiveFails(p)
      PROVE  FALSE
  BY <1>1, <1>4, FailureEnds
<1>5. CASE UNCHANGED vars
  <2>1. Sound /\ UNCHANGED <<todo, clique, pc, post>>
    BY <1>5 DEF vars, Sound
  <2>2. PICK n, log, ws, at : Story(n, log, ws, at)
    BY <2>1 DEF StepInv
  <2>3. ASSUME NEW q \in Process
        PROVE  Stands(q, log, ws, at[q])'
    <3>1. Stands(q, log, ws, at[q])
      BY <2>2 DEF Story
    <3>2. Size(q)' = Size(q) /\ (Held(q)' <=> Held(q))
      BY <2>1 DEF Size, Held
    <3> QED BY <2>1, <3>1, <3>2, StandsOn
  <2>4. Story(n, log, ws, at)'
    BY <2>1, <2>2, <2>3, StoryStays
  <2> QED BY <2>4
<1> QED BY <1>2, <1>3, <1>4, <1>5 DEF Next

(* The inductive invariant: as long as nothing failed, there is a story of  *)
(* the calls that explains where every process stands (every handler of     *)
(* nccl.cpp that issues, refuses or serves a call).                         *)
THEOREM StoryCorrect == Spec => []StepInv
<1> QED BY InitStepInv, NextStepInv, PTL DEF Spec

(***************************************************************************)
(* Processes of one communicator that wait in a collective wait in the     *)
(* same call of their program, for any number of processes and any calls:  *)
(* no rank refuses, skips or serves alone a call that another issues.      *)
(***************************************************************************)
THEOREM WaitsInStep == Spec => []InStep
<1>1. StepInv => InStep
  <2> SUFFICES ASSUME StepInv, Sound, NEW p \in Process, NEW q \in Process,
                      pc[p] = "waiting", pc[q] = "waiting",
                      clique[p].world > 1, clique[q].world > 1
               PROVE  Len(todo[p]) = Len(todo[q]) /\ post[p].call = post[q].call
    BY DEF InStep, Sound
  <2>1. Held(p) /\ Held(q)
    BY DEF Held
  <2>2. PICK n, log, ws, at : Story(n, log, ws, at)
    BY DEF StepInv
  <2> QED BY <2>1, <2>2, StoryInStep
<1> QED BY StoryCorrect, <1>1, PTL

-----------------------------------------------------------------------------
(* Contributions *)

(* The fold over one contribution is that contribution. *)
LEMMA TotalAlone ==
  ASSUME NEW v, v[1] \in Int
  PROVE  Total([r \in 1 .. 1 |-> v]) = v[1]
<1> DEFINE S == 1 .. 1
           f == [r \in S |-> v]
           iter[s \in SUBSET S] ==
             IF s = {} THEN 0
             ELSE LET x == CHOOSE x \in s : TRUE IN f[x][1] + iter[s \ {x}]
<1>1. Total(f) = iter[S]
  BY DEF Total, FoldFunction, FoldFunctionOnSet, MapThenFoldSet
<1> DEFINE Next1(h) == [s \in SUBSET S |->
                         IF s = {} THEN 0
                         ELSE LET x == CHOOSE x \in s : TRUE IN f[x][1] + h[s \ {x}]]
           g == [s \in SUBSET S |-> IF s = {} THEN 0 ELSE v[1]]
<1>2. S = {1} /\ {} \in SUBSET S /\ {1} \in SUBSET S /\ \A s \in SUBSET S : s = {} \/ s = {1}
  <2> HIDE DEF f, iter, Next1, g
  <2>1. S = {1}
    OBVIOUS
  <2> HIDE DEF S
  <2> QED BY <2>1
<1>3. (CHOOSE x \in {1} : TRUE) = 1 /\ {1} \ {1} = {}
  OBVIOUS
<1>4. f[1] = v
  OBVIOUS
<1>5. g = Next1(g)
  <2>1. g[{}] = 0 /\ g[{1}] = v[1]
    BY <1>2
  <2>2. \A s \in SUBSET S : g[s] = Next1(g)[s]
    <3> HIDE DEF f
    <3>1. Next1(g)[{}] = 0
      BY <1>2
    <3>2. Next1(g)[{1}] = f[1][1] + g[{}]
      BY <1>2, <1>3
    <3>3. Next1(g)[{1}] = v[1]
      BY <1>4, <2>1, <3>2
    <3> QED BY <1>2, <2>1, <3>1, <3>3
  <2>3. g = [s \in SUBSET S |-> g[s]] /\ Next1(g) = [s \in SUBSET S |-> Next1(g)[s]]
    OBVIOUS
  <2> HIDE DEF g, Next1
  <2> QED BY <2>2, <2>3
<1>6. iter = Next1(iter)
  <2>1. iter = CHOOSE h : h = Next1(h)
    OBVIOUS
  <2> HIDE DEF g, Next1, iter
  <2>2. \E h : h = Next1(h)
    BY <1>5
  <2> QED BY <2>1, <2>2
<1> HIDE DEF iter, f
<1>7. iter[{}] = 0
  BY <1>2, <1>6
<1>8. iter[{1}] = f[1][1] + iter[{}]
  BY <1>2, <1>3, <1>6
<1>9. iter[S] = v[1]
  BY <1>2, <1>4, <1>7, <1>8
<1> QED BY <1>1, <1>9 DEF f

-----------------------------------------------------------------------------
(* The answer a call deserves *)

(* What AnswersRight says of an answer: whether something has failed, or    *)
(* buffers were misplaced, is known when it is given.                       *)
Right(a, failed, moved) ==
  (a.call.kind \in Forms /\ ~(a.world > 1 /\ (failed \/ moved))) =>
    LET good == GoodArguments(a, Len(Contributions(a.p, a)))
        reduces == a.ok /\ good /\ Correct(a.p, a)
        excused == ~good \/ failed
    IN CASE a.call.kind = "buffer" -> reduces \/ (~a.ok /\ excused)
         [] a.call.kind = "host" -> reduces \/ (~a.ok /\ excused /\ a.got = Block(a.p, 1))
         [] OTHER -> reduces \/ (excused /\ (a.call.avg \/ a.got = Block(a.p, 1)))

(* The ranks a call is about, and what the r-th of them contributes. *)
Ranks(a) ==
  IF a.world > 1 THEN World
  ELSE IF a.call.kind = "buffer" THEN Len(a.list)
  ELSE IF a.world = 1 THEN 1 ELSE Gpus

Part(p, a, r) ==
  << IF a.world > 1 THEN Share(r - 1, 1)
     ELSE IF a.call.kind = "buffer" THEN Share(p, r) ELSE Share(p, 1), 1>>

Parts(p, a) == [r \in 1 .. Ranks(a) |-> Part(p, a, r)]

(* The rank that owns the i-th buffer of p, or the vector it passed. *)
Owner(p, a, i) ==
  IF a.world > 1 THEN p + 1
  ELSE IF a.call.kind = "buffer" THEN i ELSE a.call.root + 1

Asked(a) == a.call.kind = "buffer" => a.list \in Seq(Device)

LEMMA LenUpTo ==
  ASSUME NEW n \in Nat, NEW f, f = [r \in 1 .. n |-> f[r]]
  PROVE  Len(f) = n /\ DOMAIN f = 1 .. n
<1> QED OBVIOUS

LEMMA PartsAre ==
  ASSUME NEW p \in Process, NEW a, Asked(a)
  PROVE  /\ Ranks(a) \in Nat /\ Len(Contributions(p, a)) = Ranks(a)
         /\ DOMAIN Contributions(p, a) = 1 .. Ranks(a)
         /\ Len(Parts(p, a)) = Ranks(a)
         /\ Parts(p, a) = [r \in DOMAIN Contributions(p, a) |-> <<Contributions(p, a)[r], 1>>]
<1> DEFINE f == Contributions(p, a)
           n == Ranks(a)
<1>1. n \in Nat
  BY WorldAssumption, GpusAssumption DEF Ranks, Asked
<1>2. f = [r \in 1 .. n |-> Part(p, a, r)[1]]
  <2>1. CASE a.world > 1
    BY <2>1 DEF Contributions, Part, Ranks
  <2>2. CASE ~(a.world > 1) /\ a.call.kind = "buffer"
    <3>1. DOMAIN a.list = 1 .. Len(a.list)
      BY <2>2 DEF Asked
    <3>2. n = Len(a.list) /\ f = [r \in DOMAIN a.list |-> Share(p, r)]
      BY <2>2 DEF Contributions, Ranks, Shares
    <3>3. \A r : Part(p, a, r)[1] = Share(p, r)
      BY <2>2 DEF Part
    <3> HIDE DEF f, n
    <3> QED BY <3>1, <3>2, <3>3
  <2>3. CASE ~(a.world > 1) /\ a.call.kind # "buffer"
    BY <2>3 DEF Contributions, Part, Ranks
  <2> QED BY <2>1, <2>2, <2>3
<1> HIDE DEF f, n
<1>3. Len(f) = n /\ DOMAIN f = 1 .. n
  <2>1. f = [r \in 1 .. n |-> f[r]]
    BY <1>2
  <2> QED BY <1>1, <2>1, LenUpTo
<1>4. Len(Parts(p, a)) = n
  <2> DEFINE g == Parts(p, a)
  <2>1. g = [r \in 1 .. n |-> g[r]]
    BY DEF Parts, n
  <2> HIDE DEF g
  <2>2. Len(g) = n
    BY <1>1, <2>1, LenUpTo
  <2> QED BY <2>2 DEF g
<1>5. \A r : Part(p, a, r) = <<Part(p, a, r)[1], 1>>
  BY DEF Part
<1>6. Parts(p, a) = [r \in DOMAIN f |-> <<f[r], 1>>]
  BY <1>2, <1>3, <1>5 DEF Parts, n
<1> QED BY <1>1, <1>3, <1>4, <1>6 DEF f, n

(* What a buffer has to hold, in terms of what NCCL or host staging does. *)
LEMMA WantedIs ==
  ASSUME NEW p \in Process, NEW a, Asked(a), GoodArguments(a, Ranks(a)), NEW i
  PROVE  /\ a.call.op = "allreduce" => Wanted(p, a, i) = <<Reduced(Parts(p, a), a.call.avg)>>
         /\ a.call.op = "broadcast" => Wanted(p, a, i) = <<Parts(p, a)[a.call.root + 1]>>
         /\ (a.call.op = "reduce" /\ Owner(p, a, i) = a.call.root + 1) =>
              Wanted(p, a, i) = <<Reduced(Parts(p, a), a.call.avg)>>
         /\ (a.call.op = "reduce" /\ Owner(p, a, i) # a.call.root + 1) =>
              Wanted(p, a, i) = Block(p, i)
         /\ (a.call.op = "allgather" /\ a.call.kind = "scalar") =>
              Wanted(p, a, i) = <<Parts(p, a)[1]>>
         /\ (a.call.op \notin {"allreduce", "broadcast", "reduce"}
               /\ ~(a.call.op = "allgather" /\ a.call.kind = "scalar")) =>
              Wanted(p, a, i) = Parts(p, a)
<1> DEFINE given == Contributions(p, a)
           V == Parts(p, a)
           op == a.call.op
           root == a.call.root
           sum == Total([r \in DOMAIN given |-> <<given[r], 1>>])
           reduced == << <<sum, IF a.call.avg THEN Len(given) ELSE 1>> >>
<1>1. /\ Ranks(a) \in Nat /\ Len(given) = Ranks(a) /\ DOMAIN given = 1 .. Ranks(a)
      /\ Len(V) = Ranks(a) /\ V = [r \in DOMAIN given |-> <<given[r], 1>>]
  BY PartsAre
<1>2. reduced = <<Reduced(V, a.call.avg)>>
  <2> HIDE DEF given, V
  <2> QED BY <1>1 DEF Reduced
<1>3. Ranks(a) > 0 /\ (op \in {"broadcast", "reduce"} => root \in 0 .. Ranks(a) - 1)
  BY DEF GoodArguments
<1>4. V[1] = <<given[1], 1>> /\ (op = "broadcast" => V[root + 1] = <<given[root + 1], 1>>)
  <2> HIDE DEF given, V
  <2>1. 1 \in DOMAIN given /\ (op = "broadcast" => root + 1 \in DOMAIN given)
    BY <1>1, <1>3
  <2> QED BY <1>1, <2>1
<1>5. Wanted(p, a, i) =
        CASE op = "allreduce" -> reduced
          [] op = "broadcast" -> << <<given[root + 1], 1>> >>
          [] op = "reduce" -> IF Owner(p, a, i) = root + 1 THEN reduced ELSE Block(p, i)
          [] op = "allgather" /\ a.call.kind = "scalar" -> << <<given[1], 1>> >>
          [] OTHER -> [r \in DOMAIN given |-> <<given[r], 1>>]
  BY DEF Wanted, Owner
<1> HIDE DEF given, V, sum, reduced
<1> QED BY <1>1, <1>2, <1>4, <1>5 DEF V

(* A rank on its own has the result already. *)
LEMMA AloneWanted ==
  ASSUME NEW p \in Process, NEW a, Asked(a), GoodArguments(a, Ranks(a)), Ranks(a) = 1, ~(a.world > 1)
  PROVE  Wanted(p, a, 1) = Block(p, 1)
<1> DEFINE V == Parts(p, a)
<1>1. V = [r \in 1 .. 1 |-> <<Share(p, 1), 1>>]
  <2>1. \A r \in 1 .. 1 : Part(p, a, r) = <<Share(p, 1), 1>>
    BY DEF Part
  <2> QED BY <2>1 DEF Parts
<1>2. Total(V) = Share(p, 1) /\ V[1] = <<Share(p, 1), 1>> /\ Len(V) = 1 /\ V = << <<Share(p, 1), 1>> >>
  <2>1. Share(p, 1) \in Int
    BY ShareAssumption
  <2>2. Total([r \in 1 .. 1 |-> <<Share(p, 1), 1>>]) = Share(p, 1)
    <3>1. PICK v : v = <<Share(p, 1), 1>>
      OBVIOUS
    <3>2. v[1] = Share(p, 1)
      BY <3>1
    <3>3. Total([r \in 1 .. 1 |-> v]) = v[1]
      BY <2>1, <3>2, TotalAlone
    <3> QED BY <3>1, <3>2, <3>3
  <2>3. Len(V) = 1
    BY PartsAre
  <2> HIDE DEF V
  <2>4. V = << <<Share(p, 1), 1>> >>
    BY <1>1
  <2> QED BY <1>1, <2>2, <2>3, <2>4
<1>3. Block(p, 1) = << <<Share(p, 1), 1>> >>
  BY DEF Block
<1> HIDE DEF V
<1>4. Reduced(V, a.call.avg) = <<Share(p, 1), 1>>
  BY <1>2 DEF Reduced
<1>5. a.call.op \in {"broadcast", "reduce"} => a.call.root = 0
  BY DEF GoodArguments
<1>6. a.call.op = "reduce" => Owner(p, a, 1) = a.call.root + 1
  BY <1>5 DEF Owner
<1> QED BY <1>2, <1>3, <1>4, <1>5, <1>6, WantedIs DEF V

(* Host staging computes what NCCL would have. *)
LEMMA StagedWanted ==
  ASSUME NEW p \in Process, NEW a, Asked(a), GoodArguments(a, Ranks(a)), ~(a.world > 1),
         a.call.kind = "buffer"
  PROVE  HostStaged(p, a.call, a.list) = [i \in DOMAIN a.list |-> Wanted(p, a, i)]
<1> DEFINE V == Parts(p, a)
<1>1. DOMAIN a.list = 1 .. Ranks(a)
  BY DEF Asked, Ranks
<1>2. V = [j \in DOMAIN a.list |-> <<Share(p, j), 1>>]
  <2>1. \A r : Part(p, a, r) = <<Share(p, r), 1>>
    BY DEF Part
  <2> QED BY <1>1, <2>1 DEF Parts
<1>3. ASSUME NEW i \in DOMAIN a.list
      PROVE  Collected(a.call, V, a.call.avg, i) = Wanted(p, a, i)
  <2>1. Owner(p, a, i) = i
    BY DEF Owner
  <2>2. <<V[i]>> = Block(p, i)
    BY <1>2 DEF Block
  <2>3. a.call.kind # "scalar"
    OBVIOUS
  <2> HIDE DEF V
  <2> QED BY <2>1, <2>2, <2>3, WantedIs DEF Collected, V
<1>4. HostStaged(p, a.call, a.list) = [i \in DOMAIN a.list |-> Collected(a.call, V, a.call.avg, i)]
  <2> HIDE DEF V
  <2> QED BY <1>2 DEF HostStaged
<1> HIDE DEF V
<1> QED BY <1>3, <1>4

(* The average NCCL leaves to its caller. *)
LEMMA ScaledIs ==
  ASSUME NEW V, NEW n \in Nat, Len(V) = n
  PROVE  Scaled(<<Reduced(V, FALSE)>>, n) = <<Reduced(V, TRUE)>>
<1> DEFINE t == Total(V)
<1>1. <<Reduced(V, FALSE)>> = << <<t, 1>> >> /\ <<Reduced(V, TRUE)>> = << <<t, n>> >>
  BY DEF Reduced
<1> HIDE DEF t
<1>2. Scaled(<< <<t, 1>> >>, n) = << <<t, n>> >>
  BY DEF Scaled
<1> QED BY <1>1, <1>2

(* The state of a process in a collective: its clique is up, and NCCL will  *)
(* serve the call as it was asked for.                                      *)
Asks(p) == [call |-> post[p].call, world |-> clique[p].world, list |-> post[p].list]

(* The rank of NCCL whose buffer is the i-th of p. *)
RankOf(p, i) == IF clique[p].world > 1 THEN p + 1 ELSE i

Averages(c) == c.avg /\ NativeAvg /\ c.kind # "scalar"

Serves(p, c, list) ==
  LET a == [call |-> c, world |-> clique[p].world, list |-> list] IN
  /\ c \in Calls /\ c.kind \in Forms /\ clique[p].ready
  /\ list = IF c.kind = "buffer" THEN clique[p].devices ELSE <<>>
  /\ c.kind # "buffer" => nccl_comm_size(clique[p]) > 1
  /\ GoodArguments(a, nccl_comm_size(clique[p]))

RankRight(p) ==
  /\ clique[p].world > 1 => clique[p].world = World /\ clique[p].rank = p
  /\ clique[p].world = 1 => clique[p].rank = 0

LEMMA ServesRanks ==
  ASSUME CliqueInv, NEW p \in Process, RankRight(p), NEW c, NEW list, Serves(p, c, list), NEW a,
         a.call = c, a.world = clique[p].world, a.list = list
  PROVE  /\ Asked(a) /\ Ranks(a) = nccl_comm_size(clique[p]) /\ GoodArguments(a, Ranks(a))
         /\ clique[p].world \in Nat
         /\ clique[p].comms = IF clique[p].world > 0 THEN 1 ELSE Gpus
         /\ c.kind = "buffer" => DOMAIN list = 1 .. clique[p].comms
<1> DEFINE q == clique[p]
<1>1. Whole(Owned(p)) /\ q \in Cliques /\ Owned(p).c = q
  BY DEF CliqueInv, Owned
<1>2. /\ q.world \in Nat /\ q.devices \in Seq(Device)
      /\ q.comms = Len(q.devices)
      /\ q.comms = IF q.world > 0 THEN 1 ELSE Gpus
  BY <1>1 DEF Serves, Whole, nccl_local_rank_count, Cliques
<1>3. Asked(a) /\ Ranks(a) = nccl_comm_size(q)
  <2>1. Asked(a)
    BY <1>2 DEF Asked, Serves
  <2>2. c.kind = "buffer" => Len(a.list) = q.comms
    BY <1>2 DEF Serves
  <2> HIDE DEF q
  <2>3. q.world > 1 => q.world = World
    BY DEF RankRight, q
  <2>4. a.world = q.world /\ a.call.kind = c.kind
    BY DEF q
  <2>5. q.world \in Nat /\ q.comms = IF q.world > 0 THEN 1 ELSE Gpus
    BY <1>2
  <2>6. CASE q.world = 0
    BY <2>1, <2>2, <2>4, <2>5, <2>6 DEF Ranks, nccl_comm_size
  <2>7. CASE q.world = 1
    BY <2>1, <2>2, <2>4, <2>5, <2>7 DEF Ranks, nccl_comm_size
  <2>8. CASE q.world > 1
    BY <2>1, <2>3, <2>4, <2>5, <2>8 DEF Ranks, nccl_comm_size
  <2> QED BY <2>1, <2>5, <2>6, <2>7, <2>8
<1>4. GoodArguments(a, nccl_comm_size(q))
  BY DEF Serves, GoodArguments
<1>5. c.kind = "buffer" => DOMAIN list = 1 .. q.comms
  <2>1. DOMAIN q.devices = 1 .. q.comms
    <3>1. q.devices \in Seq(Device) /\ q.comms = Len(q.devices)
      BY <1>2
    <3> HIDE DEF q
    <3> QED BY <3>1
  <2>2. c.kind = "buffer" => list = q.devices
    BY DEF Serves
  <2> QED BY <2>1, <2>2
<1> QED BY <1>2, <1>3, <1>4, <1>5

(* What Delivered comes to. *)
DeliveredAs(p, c, out) ==
  /\ c.kind = "buffer" => Delivered(p, c, out) = out
  /\ (c.kind # "buffer" /\ c.op = "reduce") =>
       Delivered(p, c, out) = IF LocalRoot(p, c) \in DOMAIN out THEN out[LocalRoot(p, c)]
                              ELSE Block(p, 1)
  /\ (c.kind = "scalar" /\ c.op = "allgather") => Delivered(p, c, out) = <<out[1][1]>>
  /\ (c.kind = "scalar" /\ c.avg /\ c.op \notin {"reduce", "allgather"}) =>
       Delivered(p, c, out) = Scaled(out[1], nccl_comm_size(clique[p]))
  /\ (c.kind # "buffer" /\ c.op # "reduce"
       /\ ~(c.kind = "scalar" /\ (c.avg \/ c.op = "allgather"))) =>
       Delivered(p, c, out) = out[1]

LEMMA DeliveredIs ==
  ASSUME NEW p, NEW c, Declared(c), NEW out
  PROVE  DeliveredAs(p, c, out)
<1>1. ASSUME c.kind = "buffer"
      PROVE  Delivered(p, c, out) = out
  BY <1>1 DEF Delivered
<1>2. ASSUME c.kind # "buffer", c.op = "reduce"
      PROVE  Delivered(p, c, out) = IF LocalRoot(p, c) \in DOMAIN out THEN out[LocalRoot(p, c)]
                                    ELSE Block(p, 1)
  <2>1. ~(c.kind = "scalar" /\ c.op = "allgather") /\ ~(c.kind = "scalar" /\ c.avg)
    BY <1>2 DEF Declared
  <2> QED BY <1>2, <2>1 DEF Delivered
<1>3. ASSUME c.kind = "scalar", c.op = "allgather"
      PROVE  Delivered(p, c, out) = <<out[1][1]>>
  <2>1. c.kind # "buffer" /\ c.op # "reduce" /\ ~c.avg
    BY <1>3 DEF Declared
  <2> QED BY <1>3, <2>1 DEF Delivered
<1>4. ASSUME c.kind = "scalar", c.avg, c.op \notin {"reduce", "allgather"}
      PROVE  Delivered(p, c, out) = Scaled(out[1], nccl_comm_size(clique[p]))
  BY <1>4 DEF Delivered
<1>5. ASSUME c.kind # "buffer", c.op # "reduce",
             ~(c.kind = "scalar" /\ (c.avg \/ c.op = "allgather"))
      PROVE  Delivered(p, c, out) = out[1]
  BY <1>5 DEF Delivered
<1> QED BY <1>1, <1>2, <1>3, <1>4, <1>5 DEF DeliveredAs

(* What the caller gets is what it asked for. *)
LEMMA DeliveredCorrect ==
  ASSUME CliqueInv, NEW p \in Process, RankRight(p), NEW c, NEW list, Serves(p, c, list), NEW a,
         a.p = p, a.call = c, a.world = clique[p].world, a.list = list, NEW bufs,
         bufs = [i \in 1 .. clique[p].comms |->
                   Collected(c, Parts(p, a), Averages(c), RankOf(p, i))],
         a.got = Delivered(p, c, Averaged(p, c, bufs))
  PROVE  Correct(p, a)
<1> DEFINE q == clique[p]
           V == Parts(p, a)
           n == nccl_comm_size(q)
           out == Averaged(p, c, bufs)
           l == LocalRoot(p, c)
<1>1. /\ Asked(a) /\ Ranks(a) = n /\ GoodArguments(a, Ranks(a)) /\ q.world \in Nat
      /\ q.comms = IF q.world > 0 THEN 1 ELSE Gpus
      /\ c.kind = "buffer" => DOMAIN list = 1 .. q.comms
  <2> HIDE DEF V, n, out
  <2> QED BY ServesRanks DEF n
<1>2. n \in Nat /\ Len(V) = n
  BY <1>1, PartsAre
<1>3. /\ q.world > 1 => q.world = World /\ q.rank = p
      /\ q.world = 1 => q.rank = 0
      /\ p \in Nat /\ Gpus \in Nat /\ Gpus > 0 /\ c.root \in Int
  BY GpusAssumption, CallsAssumption DEF RankRight, Process, Serves, AllCalls
<1>4. c.op \in {"broadcast", "reduce"} => c.root \in 0 .. n - 1
  BY <1>1 DEF GoodArguments
<1>5. q.world = 0 => n = Gpus
  BY DEF nccl_comm_size
<1>6. q.world > 0 => n = q.world
  BY DEF nccl_comm_size
<1>7. ASSUME NEW i \in 1 .. q.comms, c.op = "reduce"
      PROVE  i = l <=> RankOf(p, i) = c.root + 1
  <2> HIDE DEF n
  <2>1. CASE q.world = 0
    BY <2>1 DEF LocalRoot, RankOf
  <2>2. CASE q.world = 1
    BY <1>1, <1>3, <1>4, <1>6, <1>7, <2>2 DEF LocalRoot, RankOf
  <2>3. CASE q.world > 1
    BY <1>1, <1>3, <1>4, <1>6, <1>7, <2>3 DEF LocalRoot, RankOf
  <2> QED BY <1>1, <2>1, <2>2, <2>3
<1>8. ASSUME NEW i \in 1 .. q.comms
      PROVE  out[i] = Collected(c, V, c.avg /\ c.kind # "scalar", RankOf(p, i))
  <2> DEFINE r == RankOf(p, i)
             some == c.op = "allreduce" \/ (c.op = "reduce" /\ r = c.root + 1)
  <2>1. c.avg \in BOOLEAN /\ NativeAvg \in BOOLEAN
    BY CallsAssumption, NativeAvgAssumption DEF Serves, AllCalls
  <2>2. bufs[i] = Collected(c, V, Averages(c), r)
    OBVIOUS
  <2>3. c.op = "allreduce" \/ (c.op = "reduce" /\ i = l) <=> some
    <3> HIDE DEF l, r
    <3> QED BY <1>7 DEF r
  <2>4. out[i] = IF c.avg /\ ~NativeAvg /\ c.kind # "scalar" /\ some
                 THEN Scaled(bufs[i], n) ELSE bufs[i]
    <3> HIDE DEF some, n
    <3> QED BY <2>3 DEF Averaged, l, n
  <2> HIDE DEF V, n, r, out
  <2>5. \A b \in BOOLEAN : some => Collected(c, V, b, r) = <<Reduced(V, b)>>
    BY DEF Collected
  <2>6. ~some => Collected(c, V, TRUE, r) = Collected(c, V, FALSE, r)
    BY DEF Collected
  <2> HIDE DEF some
  <2>7. PICK x \in BOOLEAN : x = Averages(c)
    BY <2>1 DEF Averages
  <2>8. PICK y \in BOOLEAN : y = (c.avg /\ c.kind # "scalar")
    BY <2>1
  <2>9. bufs[i] = Collected(c, V, x, r)
    BY <2>2, <2>7, Zenon
  <2>10. out[i] = Collected(c, V, y, r)
    <3>1. CASE ~(c.avg /\ ~NativeAvg /\ c.kind # "scalar")
      <4>1. x = y
        BY <2>1, <2>7, <2>8, <3>1 DEF Averages
      <4>2. out[i] = bufs[i]
        BY <2>4, <3>1, Zenon
      <4> QED BY <2>9, <4>1, <4>2, Zenon
    <3>2. CASE c.avg /\ ~NativeAvg /\ c.kind # "scalar"
      <4>1. x = FALSE /\ y = TRUE
        BY <2>1, <2>7, <2>8, <3>2 DEF Averages
      <4>2. CASE some
        <5>1. bufs[i] = <<Reduced(V, FALSE)>>
          BY <2>5, <2>9, <4>1, <4>2, Zenon
        <5>2. out[i] = Scaled(bufs[i], n)
          BY <2>4, <3>2, <4>2, Zenon
        <5>3. out[i] = <<Reduced(V, TRUE)>>
          BY <1>2, <5>1, <5>2, ScaledIs
        <5> QED BY <2>5, <4>1, <4>2, <5>3, Zenon
      <4>3. CASE ~some
        <5>1. out[i] = bufs[i]
          BY <2>4, <4>3, Zenon
        <5> QED BY <2>6, <2>9, <4>1, <4>3, <5>1, Zenon
      <4> QED BY <4>2, <4>3
    <3> QED BY <3>1, <3>2
  <2> QED BY <2>8, <2>10, Zenon DEF V, n, r, out
<1>9. DOMAIN out = 1 .. q.comms
  BY DEF Averaged
<1>10. /\ a.call.avg = c.avg /\ a.call.op = c.op /\ a.call.root = c.root /\ a.call.kind = c.kind
       /\ DeliveredAs(p, c, out)
  BY CallsAssumption, DeliveredIs DEF Serves
<1>11. ASSUME NEW i \in 1 .. q.comms, c.kind = "buffer"
       PROVE  out[i] = Wanted(p, a, i)
  <2>1. Owner(p, a, i) = RankOf(p, i)
    BY <1>10, <1>11 DEF Owner, RankOf
  <2>2. <<V[RankOf(p, i)]>> = Block(p, i)
    <3>1. RankOf(p, i) \in 1 .. Ranks(a)
      <4> HIDE DEF n
      <4>1. CASE q.world > 1
        BY <1>1, <1>3, <1>6, <4>1, WorldAssumption DEF RankOf, Process
      <4>2. CASE ~(q.world > 1)
        BY <1>1, <1>3, <1>5, <1>6, <1>11, <4>2 DEF RankOf
      <4> QED BY <4>1, <4>2
    <3>2. V[RankOf(p, i)] = Part(p, a, RankOf(p, i))
      BY <3>1 DEF Parts
    <3>3. Part(p, a, RankOf(p, i)) = <<Share(p, i), 1>>
      <4>1. CASE q.world > 1
        <5>1. i = 1 /\ (p + 1) - 1 = p
          BY <1>1, <1>3, <1>11, <4>1
        <5> QED BY <4>1, <5>1 DEF RankOf, Part
      <4>2. CASE ~(q.world > 1)
        BY <1>10, <1>11, <4>2 DEF RankOf, Part
      <4> QED BY <4>1, <4>2
    <3> HIDE DEF V
    <3> QED BY <3>2, <3>3 DEF Block
  <2>3. out[i] = Collected(c, V, c.avg, RankOf(p, i))
    <3>1. (c.avg /\ c.kind # "scalar") = c.avg
      BY <1>11, CallsAssumption DEF Serves, AllCalls
    <3> HIDE DEF out, V
    <3> QED BY <1>8, <3>1, Zenon
  <2> HIDE DEF V, out
  <2> QED BY <1>1, <1>10, <1>11, <2>1, <2>2, <2>3, WantedIs DEF Collected, V
<1>12. ASSUME c.kind # "buffer", c.op = "reduce"
       PROVE  Delivered(p, c, out) = Wanted(p, a, 1)
  <2>1. (c.avg /\ c.kind # "scalar") = c.avg
    BY <1>12, CallsAssumption DEF Serves, AllCalls, Declared
  <2>2. n > 1 /\ c.root \in 0 .. n - 1
    BY <1>4, <1>12 DEF Serves
  <2>3. CASE l \in 1 .. q.comms
    <3>1. RankOf(p, l) = c.root + 1
      BY <1>7, <1>12, <2>3
    <3>2. Owner(p, a, 1) = a.call.root + 1
      BY <1>10, <1>12, <3>1 DEF Owner, RankOf
    <3>3. Delivered(p, c, out) = out[l]
      <4> HIDE DEF out
      <4> QED BY <1>9, <1>10, <1>12, <2>3, Zenon DEF DeliveredAs, l
    <3>4. out[l] = Collected(c, V, c.avg, c.root + 1)
      <4> HIDE DEF out, V, l
      <4> QED BY <1>8, <2>1, <2>3, <3>1, Zenon
    <3>5. Collected(c, V, c.avg, c.root + 1) = <<Reduced(V, c.avg)>>
      BY <1>12 DEF Collected
    <3>6. Wanted(p, a, 1) = <<Reduced(V, c.avg)>>
      BY <1>1, <1>10, <1>12, <3>2, WantedIs
    <3> HIDE DEF out, V, l
    <3> QED BY <3>3, <3>4, <3>5, <3>6
  <2>4. CASE l \notin 1 .. q.comms
    <3>1. q.world > 1
      <4>1. q.world = 0 => l = c.root + 1
        BY DEF LocalRoot
      <4> HIDE DEF l, n
      <4> QED BY <1>1, <1>3, <1>5, <1>6, <2>2, <2>4, <4>1
    <3>2. 1 \in 1 .. q.comms
      BY <1>1, <3>1
    <3>3. Owner(p, a, 1) # a.call.root + 1
      <4>1. RankOf(p, 1) # c.root + 1
        BY <1>7, <1>12, <2>4, <3>2
      <4> QED BY <1>10, <3>1, <4>1 DEF Owner, RankOf
    <3>4. Wanted(p, a, 1) = Block(p, 1)
      BY <1>1, <1>10, <1>12, <3>3, WantedIs
    <3>5. Delivered(p, c, out) = Block(p, 1)
      <4> HIDE DEF out
      <4> QED BY <1>9, <1>10, <1>12, <2>4, Zenon DEF DeliveredAs, l
    <3> QED BY <3>4, <3>5
  <2> QED BY <2>3, <2>4
<1>13. ASSUME c.kind # "buffer", c.op # "reduce"
       PROVE  Delivered(p, c, out) = Wanted(p, a, 1)
  <2>1. 1 \in 1 .. q.comms
    BY <1>1, <1>3
  <2>2. out[1] = Collected(c, V, c.avg /\ c.kind # "scalar", RankOf(p, 1))
    <3> HIDE DEF out, V
    <3> QED BY <1>8, <2>1
  <2>3. c.avg \in BOOLEAN /\ (c.kind = "scalar" /\ c.avg => c.op = "allreduce") /\ c.kind \in {"host", "scalar"}
    BY <1>13, CallsAssumption DEF Serves, AllCalls, Declared, Forms
  <2>4. CASE c.kind = "scalar" /\ c.op = "allgather"
    <3>1. Delivered(p, c, out) = <<out[1][1]>>
      <4> HIDE DEF out
      <4> QED BY <1>10, <2>4 DEF DeliveredAs
    <3>2. out[1] = V
      <4> HIDE DEF out, V
      <4> QED BY <2>2, <2>4 DEF Collected
    <3>3. Wanted(p, a, 1) = <<V[1]>>
      BY <1>1, <1>10, <2>4, WantedIs
    <3> HIDE DEF out, V
    <3> QED BY <3>1, <3>2, <3>3
  <2>5. CASE c.kind = "scalar" /\ c.avg
    <3>1. Delivered(p, c, out) = Scaled(out[1], n)
      <4> HIDE DEF out
      <4> QED BY <1>10, <2>3, <2>5, Zenon DEF DeliveredAs, n
    <3>2. out[1] = <<Reduced(V, FALSE)>>
      <4>1. (c.avg /\ c.kind # "scalar") = FALSE
        BY <2>5
      <4>2. out[1] = Collected(c, V, FALSE, RankOf(p, 1))
        <5> HIDE DEF out, V
        <5> QED BY <2>2, <4>1, Zenon
      <4> HIDE DEF out, V
      <4> QED BY <2>3, <2>5, <4>2 DEF Collected
    <3>3. Wanted(p, a, 1) = <<Reduced(V, TRUE)>>
      <4>1. Wanted(p, a, 1) = <<Reduced(V, c.avg)>>
        BY <1>1, <1>10, <2>3, <2>5, WantedIs
      <4>2. c.avg = TRUE
        BY <2>3, <2>5
      <4> QED BY <4>1, <4>2, Zenon
    <3>4. Scaled(<<Reduced(V, FALSE)>>, n) = <<Reduced(V, TRUE)>>
      <4> HIDE DEF V, n
      <4> QED BY <1>2, ScaledIs
    <3> HIDE DEF out, V, n
    <3> QED BY <3>1, <3>2, <3>3, <3>4
  <2>6. CASE ~(c.kind = "scalar" /\ (c.avg \/ c.op = "allgather"))
    <3>1. Delivered(p, c, out) = out[1]
      <4> HIDE DEF out
      <4> QED BY <1>10, <1>13, <2>6 DEF DeliveredAs
    <3>2. out[1] = Collected(c, V, c.avg, RankOf(p, 1))
      <4>1. (c.avg /\ c.kind # "scalar") = c.avg
        BY <2>3, <2>6
      <4> HIDE DEF out, V
      <4> QED BY <2>2, <4>1, Zenon
    <3>3. Wanted(p, a, 1) = Collected(c, V, c.avg, RankOf(p, 1))
      <4> HIDE DEF V
      <4> QED BY <1>1, <1>10, <1>13, <2>6, WantedIs DEF Collected, V
    <3> HIDE DEF out, V
    <3> QED BY <3>1, <3>2, <3>3
  <2> QED BY <2>4, <2>5, <2>6
<1>14. CASE c.kind = "buffer"
  <2>1. a.got = out
    BY <1>10, <1>14 DEF DeliveredAs
  <2>2. out = [i \in 1 .. q.comms |-> out[i]]
    BY DEF Averaged
  <2>3. DOMAIN a.list = 1 .. q.comms
    BY <1>1, <1>14
  <2> HIDE DEF out
  <2>4. a.got = [i \in DOMAIN a.list |-> Wanted(p, a, i)]
    BY <1>11, <1>14, <2>1, <2>2, <2>3
  <2> QED BY <1>14, <2>4 DEF Correct
<1>15. CASE c.kind # "buffer"
  <2>1. a.got = Wanted(p, a, 1)
    <3> HIDE DEF out
    <3> QED BY <1>12, <1>13, <1>15 DEF out
  <2> QED BY <1>15, <2>1 DEF Correct
<1> QED BY <1>14, <1>15

-----------------------------------------------------------------------------
(* Which answers are right *)

LEMMA RefusedRight ==
  ASSUME NEW a, a.p \in Process, Asked(a), NEW failed \in BOOLEAN, NEW moved,
         a.call.kind = "buffer", ~a.ok, ~GoodArguments(a, Ranks(a)) \/ failed
  PROVE  Right(a, failed, moved)
<1>1. Len(Contributions(a.p, a)) = Ranks(a)
  BY PartsAre
<1> QED BY <1>1 DEF Right

LEMMA DegradedRight ==
  ASSUME NEW a, a.p \in Process, Asked(a), NEW failed \in BOOLEAN, NEW moved,
         a.call.kind \in {"host", "scalar"}, a.ok <=> a.call.kind = "scalar",
         a.got = Block(a.p, 1) \/ (a.call.kind = "scalar" /\ a.call.avg),
         ~GoodArguments(a, Ranks(a)) \/ failed
  PROVE  Right(a, failed, moved)
<1>1. Len(Contributions(a.p, a)) = Ranks(a)
  BY PartsAre
<1> QED BY <1>1 DEF Right

LEMMA ReducesRight ==
  ASSUME NEW a, a.p \in Process, Asked(a), NEW failed, NEW moved,
         a.ok, GoodArguments(a, Ranks(a)), Correct(a.p, a)
  PROVE  Right(a, failed, moved)
<1>1. Len(Contributions(a.p, a)) = Ranks(a)
  BY PartsAre
<1> QED BY <1>1, Zenon DEF Right

LEMMA VoidRight ==
  ASSUME NEW a, NEW failed, NEW moved, a.call.kind \notin Forms \/ (a.world > 1 /\ (failed \/ moved))
  PROVE  Right(a, failed, moved)
BY Zenon DEF Right

-----------------------------------------------------------------------------
(* What holds of every process *)

(* A clique that was tried and is not up has met a failure. *)
TriedRight(p) ==
  /\ pc[p] \in {"joining", "joined"} => post[p].call.kind = "init_rank"
  /\ (pc[p] \notin {"joining", "joined"} /\ clique[p].attempted /\ ~clique[p].ready) => faults > 0

(* What a process hands to NCCL, and what NCCL hands back. *)
PostRight(p) ==
  /\ pc[p] \in {"waiting", "arrived"} => Serves(p, post[p].call, post[p].list)
  /\ pc[p] = "waiting" =>
       post[p].bufs = [i \in 1 .. clique[p].comms |->
                         Block(p, IF post[p].call.kind = "buffer" THEN i ELSE 1)]
  /\ (pc[p] = "arrived" /\ (clique[p].world > 1 => Sound)) =>
       post[p].bufs = [i \in 1 .. clique[p].comms |->
                         Collected(post[p].call, Parts(p, Asks(p)), Averages(post[p].call), RankOf(p, i))]

Local(p) == RankRight(p) /\ TriedRight(p) /\ PostRight(p)

(* The inductive invariant. *)
AnswerInv == StepInv /\ AnswersRight /\ \A p \in Process : Local(p)

(* What has failed or was misplaced stays so. *)
Lasting == (faults > 0 => faults' > 0) /\ (Sound' => Sound)

LEMMA OthersRight ==
  ASSUME Lasting, NEW q, Local(q), clique'[q] = clique[q], pc'[q] = pc[q], post'[q] = post[q]
  PROVE  Local(q)'
<1>1. RankRight(q)'
  BY DEF Local, RankRight
<1>2. TriedRight(q)'
  BY DEF Local, TriedRight, Lasting
<1>3. PostRight(q)'
  <2>1. \A c, list : Serves(q, c, list)' <=> Serves(q, c, list)
    BY DEF Serves
  <2>2. Asks(q)' = Asks(q) /\ \A i : RankOf(q, i)' = RankOf(q, i)
    BY DEF Asks, RankOf
  <2> QED BY <2>1, <2>2 DEF Local, PostRight, Lasting
<1> QED BY <1>1, <1>2, <1>3 DEF Local

(* A call that returns leaves the process idle. *)
LEMMA ReturnRight ==
  ASSUME CallInv, NEW p \in Process, NEW c, NEW list, NEW ok, NEW got, Return(p, c, list, ok, got),
         RankRight(p)', (clique'[p].attempted /\ ~clique'[p].ready) => faults' > 0
  PROVE  Local(p)'
<1>1. pc'[p] = "idle"
  BY ReturnDoes
<1> QED BY <1>1 DEF Local, TriedRight, PostRight

LEMMA IssueRight ==
  ASSUME CallInv, NEW p \in Process, NEW c, NEW list, NEW bufs, Issue(p, c, list, bufs),
         RankRight(p)', Serves(p, c, list)',
         bufs = [i \in 1 .. clique'[p].comms |-> Block(p, IF c.kind = "buffer" THEN i ELSE 1)]
  PROVE  Local(p)' /\ Right(answer', (faults > 0)', misplaced')
<1>1. /\ pc' = [pc EXCEPT ![p] = "waiting"]
      /\ post' = [post EXCEPT ![p] = [call |-> c, list |-> list, bufs |-> bufs]]
      /\ answer' = NoAnswer
  BY DEF Issue
<1>2. pc'[p] = "waiting" /\ post'[p] = [call |-> c, list |-> list, bufs |-> bufs]
  BY <1>1 DEF CallInv
<1>3. clique'[p].ready
  BY DEF Serves
<1>4. Local(p)'
  BY <1>2, <1>3 DEF Local, TriedRight, PostRight
<1>5. answer'.call.kind \notin Forms
  BY <1>1 DEF NoAnswer, Forms
<1> QED BY <1>4, <1>5, VoidRight

(* ensure() says so when it tried and failed. *)
LEMMA EnsureSays ==
  ASSUME NEW s, Whole(s), ~s.c.attempted, NEW e \in ensure(s), ~e.s.c.ready
  PROVE  e.bad = 1
<1> DEFINE tried == [c |-> [s.c EXCEPT !.attempted = TRUE], l |-> s.l]
           all == [i \in 1 .. Gpus |-> i - 1]
           up == Opened(tried, all, Gpus)
           ready == [up.c EXCEPT !.ready = TRUE]
<1>1. "ready" \in DOMAIN up.c
  BY DEF Whole, Balanced, Cliques, Opened
<1>2. \/ e = [s |-> tried, bad |-> 1]
      \/ \E n \in Device : e = [s |-> release(Opened(tried, all, n)), bad |-> 1]
      \/ e = [s |-> [c |-> ready, l |-> up.l], bad |-> 0]
  BY DEF ensure
<1> HIDE DEF tried, all, up
<1>3. ready.ready
  BY <1>1
<1> HIDE DEF ready
<1> QED BY <1>2, <1>3

(* What ensure() leaves p with. *)
LEMMA EnsureRight ==
  ASSUME Inv, NEW p \in Process, Local(p), pc[p] = "idle", NEW e \in ensure(Owned(p)), Own(p, e.s),
         Fails(e.bad) \/ Fails(1)
  PROVE  /\ clique'[p] = e.s.c /\ clique'[p].world = clique[p].world
         /\ RankRight(p)'
         /\ ~e.s.c.ready => faults' > 0
         /\ e.bad = 1 => faults' > 0
         /\ faults > 0 => faults' > 0
<1>1. CliqueInv /\ Whole(Owned(p)) /\ Owned(p).c = clique[p] /\ faults \in Nat
      /\ clique[p].world \in Nat
  BY BoundsAssumption DEF Inv, CliqueInv, Owned, RestInv, Cliques
<1>2. /\ clique'[p] = e.s.c /\ clique'[p].world = clique[p].world /\ e.bad \in {0, 1}
  BY <1>1, EnsureDoes
<1>3. clique[p].attempted => e.s.c = clique[p]
  BY <1>1, EnsureSize
<1>4. clique[p].world > 0 => clique[p].attempted
  BY <1>1 DEF Whole
<1>5. RankRight(p)'
  <2>1. CASE clique[p].attempted
    BY <1>2, <1>3, <2>1 DEF Local, RankRight
  <2>2. CASE ~clique[p].attempted
    <3>1. ~(clique'[p].world > 1) /\ clique'[p].world # 1
      BY <1>1, <1>2, <1>4, <2>2
    <3> QED BY <3>1 DEF RankRight
  <2> QED BY <2>1, <2>2
<1>6. faults' \in Nat /\ faults' >= faults /\ (e.bad = 1 => faults' > 0)
  BY <1>1, <1>2 DEF Fails
<1>7. ~e.s.c.ready => faults' > 0
  <2>1. CASE clique[p].attempted
    <3>1. ~e.s.c.ready => faults > 0
      BY <1>3, <2>1 DEF Local, TriedRight
    <3> QED BY <1>1, <1>6, <3>1 DEF Fails
  <2>2. CASE ~clique[p].attempted
    <3>1. ~e.s.c.ready => e.bad = 1
      BY <1>1, <2>2, EnsureSays
    <3> QED BY <1>6, <3>1
  <2> QED BY <2>1, <2>2
<1> QED BY <1>1, <1>2, <1>5, <1>6, <1>7 DEF Fails

LEMMA ReturnAnswers ==
  ASSUME NEW p, NEW c, NEW list, NEW ok, NEW got, Return(p, c, list, ok, got)
  PROVE  /\ answer'.p = p /\ answer'.call = c /\ answer'.world = clique'[p].world
         /\ answer'.list = list /\ answer'.ok = ok /\ answer'.got = got
BY DEF Return

(* The ranks a vector or a scalar is about. *)
LEMMA SizeRanks ==
  ASSUME CliqueInv, NEW p \in Process, RankRight(p), NEW a, a.world = clique[p].world,
         a.call.kind # "buffer"
  PROVE  /\ Asked(a) /\ Ranks(a) = nccl_comm_size(clique[p])
         /\ nccl_comm_size(clique[p]) \in Nat /\ nccl_comm_size(clique[p]) > 0
         /\ a.world > 1 => Ranks(a) > 1
<1> DEFINE w == clique[p].world
<1>1. w \in Nat /\ (w > 1 => w = World) /\ a.world = w /\ Gpus \in Nat /\ Gpus > 0
  BY GpusAssumption DEF CliqueInv, Cliques, RankRight
<1>2. nccl_comm_size(clique[p]) = IF w > 0 THEN w ELSE Gpus
  BY DEF nccl_comm_size
<1> HIDE DEF w
<1>3. Asked(a) /\ Ranks(a) = IF w > 1 THEN World ELSE IF w = 1 THEN 1 ELSE Gpus
  BY <1>1 DEF Asked, Ranks
<1> QED BY <1>1, <1>2, <1>3

LEMMA DegradeRight ==
  ASSUME Inv, NEW p \in Process, RankRight(p), NEW c \in Calls, c.kind \in {"host", "scalar"},
         clique'[p].world = clique[p].world, Degrade(p, c),
         BadRoot(c, nccl_comm_size(clique[p])) \/ faults' > 0
  PROVE  Right(answer', (faults > 0)', misplaced')
<1> DEFINE a == answer'
           failed == faults' > 0
<1>1. CliqueInv /\ c.kind # "buffer" /\ c.avg \in BOOLEAN
  BY CallsAssumption DEF Inv, AllCalls
<1>2. /\ a.p = p /\ a.call = c /\ a.world = clique[p].world
      /\ a.ok = (c.kind = "scalar") /\ a.got = Unreduced(p, c)
  <2>1. Return(p, c, <<>>, c.kind = "scalar", Unreduced(p, c))
    BY DEF Degrade
  <2> HIDE DEF a
  <2> QED BY <2>1, ReturnAnswers DEF a
<1>3. Asked(a) /\ Ranks(a) = nccl_comm_size(clique[p])
  <2> HIDE DEF a
  <2> QED BY <1>1, <1>2, SizeRanks
<1>4. a.got = Block(p, 1) \/ (c.kind = "scalar" /\ c.avg)
  <2> HIDE DEF a
  <2>1. Unreduced(p, c) = Block(p, 1) \/ (c.kind = "scalar" /\ c.avg)
    BY Zenon DEF Unreduced
  <2> QED BY <1>2, <2>1
<1>5. ~GoodArguments(a, Ranks(a)) \/ failed
  <2> HIDE DEF a
  <2> QED BY <1>2, <1>3 DEF BadRoot, GoodArguments
<1>6. failed \in BOOLEAN
  OBVIOUS
<1>7. Right(a, failed, misplaced')
  <2> HIDE DEF a, failed
  <2>1. /\ a.p \in Process /\ a.call.kind \in {"host", "scalar"}
        /\ a.got = Block(a.p, 1) \/ (a.call.kind = "scalar" /\ a.call.avg)
    BY <1>2, <1>4
  <2>2. a.ok <=> a.call.kind = "scalar"
    BY <1>2, Zenon
  <2> QED BY <1>3, <1>5, <1>6, <2>1, <2>2, DegradedRight
<1> QED BY <1>7

LEMMA HostRight ==
  ASSUME Inv, NEW p \in Process, Local(p), NEW c \in Calls, pc[p] = "idle", HostCollective(p, c)
  PROVE  Local(p)' /\ Right(answer', (faults > 0)', misplaced')
<1> DEFINE size == nccl_comm_size(clique[p])
<1>1. /\ CallInv /\ CliqueInv /\ RankRight(p) /\ c.kind \in {"host", "scalar"} /\ c.kind # "buffer"
      /\ c.kind \in Forms /\ (clique[p].attempted /\ ~clique[p].ready => faults > 0)
  BY DEF Inv, Local, TriedRight, HostCollective, Forms
<1>2. ASSUME UNCHANGED <<clique, faults>>, NEW ok, NEW got, Return(p, c, <<>>, ok, got)
      PROVE  Local(p)'
  <2>1. RankRight(p)'
    BY <1>1, <1>2 DEF RankRight
  <2> QED BY <1>1, <1>2, <2>1, ReturnRight
<1>3. CASE BadRoot(c, size) /\ UNCHANGED <<clique, faults>> /\ Degrade(p, c)
  <2>1. Right(answer', (faults > 0)', misplaced')
    BY <1>1, <1>3, DegradeRight
  <2> QED BY <1>2, <1>3, <2>1 DEF Degrade
<1>4. CASE /\ ~BadRoot(c, size) /\ size <= 1 /\ UNCHANGED <<clique, faults>>
           /\ Return(p, c, <<>>, TRUE, Block(p, 1))
  <2> DEFINE a == answer'
  <2>1. /\ a.p = p /\ a.call = c /\ a.world = clique[p].world
        /\ a.ok = TRUE /\ a.got = Block(p, 1)
    BY <1>4, ReturnAnswers
  <2> HIDE DEF a
  <2>2. Asked(a) /\ Ranks(a) = size /\ size \in Nat /\ size > 0 /\ (a.world > 1 => Ranks(a) > 1)
    BY <1>1, <2>1, SizeRanks
  <2> HIDE DEF size
  <2>3. Ranks(a) = 1 /\ ~(a.world > 1)
    BY <1>4, <2>2
  <2>4. GoodArguments(a, Ranks(a))
    BY <1>1, <1>4, <2>1, <2>2 DEF BadRoot, GoodArguments
  <2>5. Wanted(p, a, 1) = Block(p, 1)
    BY <2>2, <2>3, <2>4, AloneWanted
  <2>6. Correct(p, a)
    BY <1>1, <2>1, <2>5 DEF Correct
  <2>7. Right(a, (faults > 0)', misplaced')
    BY <2>1, <2>2, <2>4, <2>6, ReducesRight
  <2> QED BY <1>2, <1>4, <2>7 DEF a
<1>5. ASSUME ~BadRoot(c, size), size > 1, NEW e \in ensure(Owned(p)), Own(p, e.s),
             \/ ~e.s.c.ready /\ Fails(e.bad) /\ Degrade(p, c)
             \/ e.s.c.ready /\ Fails(1) /\ Degrade(p, c)
             \/ /\ e.s.c.ready /\ Fails(e.bad)
                /\ Issue(p, c, <<>>, [i \in 1 .. e.s.c.comms |-> Block(p, 1)])
      PROVE  Local(p)' /\ Right(answer', (faults > 0)', misplaced')
  <2>1. /\ clique'[p] = e.s.c /\ clique'[p].world = clique[p].world /\ RankRight(p)'
        /\ ~e.s.c.ready => faults' > 0
    BY <1>5, EnsureRight
  <2>2. CASE Degrade(p, c) /\ (~e.s.c.ready \/ Fails(1))
    <3>1. faults' > 0
      <4>1. Fails(1) => faults' > 0
        BY BoundsAssumption DEF Fails, Inv, RestInv
      <4> QED BY <2>1, <2>2, <4>1
    <3>2. Right(answer', (faults > 0)', misplaced')
      BY <1>1, <2>1, <2>2, <3>1, DegradeRight
    <3>3. Local(p)'
      BY <1>1, <2>1, <2>2, <3>1, ReturnRight DEF Degrade
    <3> QED BY <3>2, <3>3
  <2>3. CASE e.s.c.ready /\ Issue(p, c, <<>>, [i \in 1 .. e.s.c.comms |-> Block(p, 1)])
    <3>1. nccl_comm_size(clique'[p]) = size
      BY <2>1 DEF nccl_comm_size
    <3>2. size \in Nat
      BY <1>1, GpusAssumption DEF nccl_comm_size, CliqueInv, Cliques
    <3> HIDE DEF size
    <3>3. Serves(p, c, <<>>)'
      BY <1>1, <1>5, <2>1, <2>3, <3>1, <3>2 DEF Serves, BadRoot, GoodArguments
    <3>4. [i \in 1 .. e.s.c.comms |-> Block(p, 1)] =
            [i \in 1 .. clique'[p].comms |-> Block(p, IF c.kind = "buffer" THEN i ELSE 1)]
      BY <1>1, <2>1
    <3> QED BY <1>1, <2>1, <2>3, <3>3, <3>4, IssueRight
  <2> QED BY <1>5, <2>2, <2>3
<1> QED BY <1>3, <1>4, <1>5 DEF HostCollective

-----------------------------------------------------------------------------
(* Collectives on buffers *)

LEMMA GoodBuffer ==
  ASSUME NEW a, a.call \in Calls, a.call.kind = "buffer", NEW n \in Nat, n > 0
  PROVE  GoodArguments(a, n) <=> ~Refused(a.call, n)
<1>1. a.call.room \in Nat
  BY CallsAssumption DEF AllCalls
<1> QED BY <1>1 DEF GoodArguments, Refused, BadRoot

(* The ranks a buffer collective takes itself to be about. *)
LEMMA CollectiveRanks ==
  ASSUME NEW s, Whole(s), NEW a, a.world = s.c.world, a.call.kind = "buffer",
         s.c.world > 1 => s.c.world = World,
         a.list \in Seq(Device), NEW fast \in BOOLEAN, fast => s.c.ready /\ a.list = s.c.devices,
         fast \/ ~(s.c.world > 1)
  PROVE  /\ collective_world(s.c, a.list, fast) = Ranks(a)
         /\ fast => Ranks(a) = nccl_comm_size(s.c) /\ DOMAIN a.list = 1 .. s.c.comms
<1> DEFINE w == s.c.world
           size == nccl_comm_size(s.c)
           len == Len(a.list)
<1>1. w \in Nat /\ Gpus \in Nat /\ Gpus > 0 /\ len \in Nat /\ a.world = w /\ (w > 1 => w = World)
  BY GpusAssumption DEF Whole, Balanced, Cliques
<1>2. size = IF w > 0 THEN w ELSE Gpus
  BY DEF nccl_comm_size
<1>3. fast => len = s.c.comms /\ len = IF w > 0 THEN 1 ELSE Gpus
  BY DEF Whole, nccl_local_rank_count
<1>4. Ranks(a) = IF w > 1 THEN World ELSE len
  BY DEF Ranks
<1>5. collective_world(s.c, a.list, fast) = IF fast /\ size > len THEN size ELSE len
  BY DEF collective_world
<1>6. DOMAIN a.list = 1 .. len
  OBVIOUS
<1>7. fast \/ ~(w > 1)
  OBVIOUS
<1> HIDE DEF w, size, len
<1>8. CASE fast
  <2>1. len = s.c.comms /\ len = IF w > 0 THEN 1 ELSE Gpus
    BY <1>3, <1>8
  <2>2. collective_world(s.c, a.list, fast) = IF size > len THEN size ELSE len
    BY <1>5, <1>8
  <2>3. CASE w = 0
    BY <1>1, <1>2, <1>4, <1>6, <2>1, <2>2, <2>3 DEF size
  <2>4. CASE w = 1
    BY <1>1, <1>2, <1>4, <1>6, <2>1, <2>2, <2>4 DEF size
  <2>5. CASE w > 1
    BY <1>1, <1>2, <1>4, <1>6, <2>1, <2>2, <2>5 DEF size
  <2> QED BY <1>1, <2>3, <2>4, <2>5
<1>9. CASE ~fast
  BY <1>4, <1>5, <1>7, <1>9
<1> QED BY <1>8, <1>9

(* A list of one in a communicator of one needs no exchange. *)
LEMMA AloneRight ==
  ASSUME Inv, NEW p \in Process, RankRight(p), NEW c \in Calls, c.kind = "buffer",
         NEW list \in Seq(Device), Alone(p, list), ~Refused(c, 1),
         clique'[p].world = clique[p].world, Return(p, c, list, TRUE, Given(p, list))
  PROVE  Right(answer', (faults > 0)', misplaced')
<1> DEFINE a == answer'
<1>1. /\ a.p = p /\ a.call = c /\ a.world = clique[p].world /\ a.list = list
      /\ a.ok = TRUE /\ a.got = Given(p, list)
  BY ReturnAnswers
<1> HIDE DEF a
<1>2. Len(list) = 1 /\ ~(clique[p].world > 1)
  <2>1. CliqueInv
    BY DEF Inv
  <2> QED BY <2>1, RankUp DEF Alone
<1>3. Asked(a) /\ Ranks(a) = 1 /\ ~(a.world > 1) /\ a.call.kind = "buffer"
  BY <1>1, <1>2 DEF Asked, Ranks
<1>4. GoodArguments(a, Ranks(a))
  BY <1>1, <1>3, GoodBuffer
<1>5. Wanted(p, a, 1) = Block(p, 1)
  BY <1>3, <1>4, AloneWanted
<1>6. DOMAIN a.list = {1}
  BY <1>1, <1>2
<1>7. Correct(p, a)
  BY <1>1, <1>3, <1>5, <1>6 DEF Correct, Given
<1>8. Right(a, (faults > 0)', misplaced')
  BY <1>1, <1>3, <1>4, <1>7, ReducesRight
<1> QED BY <1>8 DEF a

(* A call that is refused has a bad argument. *)
LEMMA RefusalRight ==
  ASSUME NEW p \in Process, NEW c \in Calls, c.kind = "buffer", NEW list \in Seq(Device), NEW got,
         NEW a, a.call = c, a.list = list, a.world = clique'[p].world, Return(p, c, list, FALSE, got),
         ~GoodArguments(a, Ranks(a))
  PROVE  Right(answer', (faults > 0)', misplaced')
<1> DEFINE b == answer'
           failed == (faults > 0)'
<1>1. /\ b.p = p /\ b.call = c /\ b.world = clique'[p].world /\ b.list = list /\ b.ok = FALSE
  BY ReturnAnswers
<1> HIDE DEF b
<1>2. Asked(b) /\ Ranks(b) = Ranks(a)
  BY <1>1 DEF Asked, Ranks
<1>3. ~GoodArguments(b, Ranks(b))
  BY <1>1, <1>2 DEF GoodArguments
<1>4. failed \in BOOLEAN
  OBVIOUS
<1> HIDE DEF failed
<1>5. Right(b, failed, misplaced')
  BY <1>1, <1>2, <1>3, <1>4, RefusedRight
<1> QED BY <1>5 DEF b, failed

(* Across processes an answer says nothing once buffers were misplaced. *)
LEMMA LostRight ==
  ASSUME NEW p, NEW c, NEW list, NEW ok, NEW got, Return(p, c, list, ok, got),
         clique'[p].world > 1, misplaced'
  PROVE  Right(answer', (faults > 0)', misplaced')
<1>1. answer'.world = clique'[p].world
  BY ReturnAnswers
<1> QED BY <1>1, VoidRight

(* What the caller gets when host staging did the work. *)
LEMMA StagedRight ==
  ASSUME NEW p \in Process, NEW c \in Calls, c.kind = "buffer", NEW list \in Seq(Device),
         NEW a, a.call = c, a.list = list, a.world = clique'[p].world, ~(a.world > 1),
         GoodArguments(a, Ranks(a)), Return(p, c, list, TRUE, HostStaged(p, c, list))
  PROVE  Right(answer', (faults > 0)', misplaced')
<1> DEFINE b == answer'
<1>1. /\ b.p = p /\ b.call = c /\ b.world = clique'[p].world /\ b.list = list /\ b.ok = TRUE
      /\ b.got = HostStaged(p, c, list)
  BY ReturnAnswers
<1> HIDE DEF b
<1>2. Asked(b) /\ Ranks(b) = Ranks(a) /\ b.call.kind = "buffer" /\ ~(b.world > 1)
  BY <1>1 DEF Asked, Ranks
<1>3. GoodArguments(b, Ranks(b))
  BY <1>1, <1>2 DEF GoodArguments
<1>4. HostStaged(p, b.call, b.list) = [i \in DOMAIN b.list |-> Wanted(p, b, i)]
  BY <1>2, <1>3, StagedWanted
<1>5. Correct(p, b)
  BY <1>1, <1>2, <1>4 DEF Correct
<1>6. Right(b, (faults > 0)', misplaced')
  BY <1>1, <1>2, <1>3, <1>5, ReducesRight
<1> QED BY <1>6 DEF b

LEMMA ServedRight ==
  ASSUME Inv, NEW p \in Process, Local(p), pc[p] = "idle", NEW c \in Calls, c.kind = "buffer",
         NEW list \in Seq(Device), list # <<>>, NEW recv,
         clique[p].world > 1 /\ {list, recv} # {clique[p].devices} => misplaced',
         NEW e \in ensure(Owned(p)), Own(p, e.s), Fails(e.bad), Served(p, c, list, recv, e.s.c)
  PROVE  Local(p)' /\ Right(answer', (faults > 0)', misplaced')
<1> DEFINE w == clique[p].world
           fast == Fits(e.s.c, list) /\ Fits(e.s.c, recv)
           n == collective_world(e.s.c, list, fast)
           done == c.op # "allgather" /\ Alone(p, list)
<1>1. /\ clique'[p] = e.s.c /\ clique'[p].world = w /\ e.s.c.world = w /\ RankRight(p)'
      /\ ~e.s.c.ready => faults' > 0
  BY EnsureRight
<1>2. /\ CallInv /\ CliqueInv /\ RankRight(p)
  BY DEF Inv, Local
<1>3. Whole(e.s) /\ w \in Nat /\ (w > 1 => w = World /\ e.s.c = clique[p] /\ clique[p].ready)
  <2>1. Whole(Owned(p)) /\ w \in Nat
    BY <1>2 DEF CliqueInv, Cliques
  <2>2. Whole(e.s)
    BY <2>1, EnsureWhole
  <2>3. w > 1 => e.s.c = clique[p] /\ clique[p].ready
    BY <1>2, EnsureDoes, RankUp
  <2> QED BY <1>2, <2>1, <2>2, <2>3 DEF RankRight
<1>4. ASSUME NEW ok, NEW got, Return(p, c, list, ok, got)
      PROVE  Local(p)'
  BY <1>1, <1>2, <1>4, ReturnRight
<1>5. \/ Refused(c, n) /\ Return(p, c, list, FALSE, Given(p, list))
      \/ ~Refused(c, n) /\ done /\ Return(p, c, list, TRUE, Given(p, list))
      \/ ~Refused(c, n) /\ ~done /\ fast /\ Issue(p, c, list, Given(p, list))
      \/ ~Refused(c, n) /\ ~done /\ ~fast /\ Return(p, c, list, TRUE, HostStaged(p, c, list))
  BY Zenon DEF Served
<1>6. CASE w > 1 /\ ~fast
  <2>1. misplaced'
    <3>1. list = clique[p].devices /\ recv = clique[p].devices => fast
      BY <1>3, <1>6 DEF Fits
    <3> QED BY <1>6, <3>1
  <2>2. PICK ok, got : Return(p, c, list, ok, got)
    <3> HIDE DEF fast, n, done
    <3> QED BY <1>5, <1>6
  <2>3. Right(answer', (faults > 0)', misplaced')
    BY <1>1, <1>6, <2>1, <2>2, LostRight
  <2> QED BY <1>4, <2>2, <2>3
<1>7. CASE fast \/ ~(w > 1)
  <2>1. PICK a : a = [call |-> c, list |-> list, world |-> w]
    OBVIOUS
  <2>2. a.call = c /\ a.list = list /\ a.world = w
    BY <2>1
  <2>3. n = Ranks(a) /\ (fast => Ranks(a) = nccl_comm_size(e.s.c) /\ DOMAIN list = 1 .. e.s.c.comms)
    <3>1. fast \in BOOLEAN /\ (fast => e.s.c.ready /\ list = e.s.c.devices)
      BY DEF Fits
    <3> HIDE DEF fast
    <3>2. PICK f \in BOOLEAN : f = fast
      BY <3>1
    <3>3. /\ collective_world(e.s.c, a.list, f) = Ranks(a)
          /\ f => Ranks(a) = nccl_comm_size(e.s.c) /\ DOMAIN a.list = 1 .. e.s.c.comms
      BY <1>1, <1>3, <1>7, <2>2, <3>1, <3>2, CollectiveRanks
    <3> QED BY <2>2, <3>2, <3>3
  <2>4. Len(list) \in Nat /\ Len(list) > 0
    OBVIOUS
  <2>5. Ranks(a) \in Nat /\ Ranks(a) > 0
    BY <1>3, <2>2, <2>4, WorldAssumption DEF Ranks
  <2>6. GoodArguments(a, Ranks(a)) <=> ~Refused(c, n)
    <3> HIDE DEF n
    <3> QED BY <2>2, <2>3, <2>5, GoodBuffer
  <2> HIDE DEF n, fast
  <2>7. CASE Refused(c, n) /\ Return(p, c, list, FALSE, Given(p, list))
    <3>1. Right(answer', (faults > 0)', misplaced')
      BY <1>1, <2>2, <2>6, <2>7, RefusalRight
    <3> QED BY <1>4, <2>7, <3>1
  <2>8. CASE ~Refused(c, n) /\ done /\ Return(p, c, list, TRUE, Given(p, list))
    <3>1. Len(list) = 1 /\ ~(w > 1)
      BY <1>2, <2>8, RankUp DEF Alone
    <3>2. ~Refused(c, 1)
      BY <2>2, <2>3, <2>8, <3>1 DEF Ranks
    <3>3. Right(answer', (faults > 0)', misplaced')
      BY <1>1, <1>2, <2>8, <3>2, AloneRight
    <3> QED BY <1>4, <2>8, <3>3
  <2>9. CASE ~Refused(c, n) /\ fast /\ Issue(p, c, list, Given(p, list))
    <3>1. GoodArguments(a, nccl_comm_size(clique'[p]))
      BY <1>1, <2>3, <2>6, <2>9
    <3>2. list = clique'[p].devices /\ clique'[p].ready
      BY <1>1, <2>9 DEF Fits, fast
    <3>3. Serves(p, c, list)'
      BY <1>1, <2>2, <3>1, <3>2 DEF Serves, Forms, GoodArguments
    <3>4. Given(p, list) = [i \in 1 .. clique'[p].comms |-> Block(p, IF c.kind = "buffer" THEN i ELSE 1)]
      BY <1>1, <2>3, <2>9 DEF Given
    <3> QED BY <1>1, <1>2, <2>9, <3>3, <3>4, IssueRight
  <2>10. CASE ~Refused(c, n) /\ ~fast /\ Return(p, c, list, TRUE, HostStaged(p, c, list))
    <3>1. Right(answer', (faults > 0)', misplaced')
      BY <1>1, <1>7, <2>2, <2>6, <2>10, StagedRight
    <3> QED BY <1>4, <2>10, <3>1
  <2> HIDE DEF done
  <2> QED BY <1>5, <2>7, <2>8, <2>9, <2>10
<1> QED BY <1>6, <1>7

LEMMA BufferRight ==
  ASSUME Inv, NEW p \in Process, Local(p), NEW c \in Calls, pc[p] = "idle", BufferCollective(p, c)
  PROVE  Local(p)' /\ Right(answer', (faults > 0)', misplaced')
<1>1. CallInv /\ CliqueInv /\ RankRight(p) /\ c.kind = "buffer"
      /\ (clique[p].attempted /\ ~clique[p].ready => faults > 0)
  BY DEF Inv, Local, TriedRight, BufferCollective
<1>2. PICK list, recv \in Lists :
        /\ misplaced' = (misplaced \/ (clique[p].world > 1 /\ {list, recv} # {clique[p].devices}))
        /\ \/ /\ list = <<>> \/ (c.op = "allreduce" /\ Alone(p, list))
              /\ UNCHANGED <<clique, live, faults>>
              /\ Return(p, c, list, list # <<>>, Given(p, list))
           \/ /\ list # <<>>
              /\ \E e \in ensure(Owned(p)) :
                   Own(p, e.s) /\ Fails(e.bad) /\ Served(p, c, list, recv, e.s.c)
  BY DEF BufferCollective
<1>3. list \in Seq(Device)
  BY ListsAssumption
<1>4. CASE /\ list = <<>> \/ (c.op = "allreduce" /\ Alone(p, list))
           /\ UNCHANGED <<clique, live, faults>>
           /\ Return(p, c, list, list # <<>>, Given(p, list))
  <2>1. Local(p)'
    <3>1. RankRight(p)'
      BY <1>1, <1>4 DEF RankRight
    <3> QED BY <1>1, <1>4, <3>1, ReturnRight
  <2>2. CASE list = <<>>
    <3>0. Return(p, c, list, FALSE, Given(p, list))
      <4>1. (list # <<>>) = FALSE
        BY <2>2
      <4> QED BY <1>4, <4>1, Zenon
    <3>1. CASE clique[p].world > 1
      <4>1. Len(clique[p].devices) = 1
        BY <1>1, <3>1, RankUp
      <4>2. Len(list) = 0
        BY <2>2
      <4>3. ASSUME list = clique[p].devices
            PROVE  FALSE
        <5>1. Len(list) = 1
          BY <4>1, <4>3
        <5> QED BY <4>2, <5>1
      <4>4. misplaced'
        BY <1>2, <3>1, <4>3
      <4>5. clique'[p].world > 1
        BY <1>4, <3>1
      <4> QED BY <2>1, <3>0, <4>4, <4>5, LostRight
    <3>2. CASE ~(clique[p].world > 1)
      <4>1. PICK a : a = [call |-> c, list |-> list, world |-> clique[p].world]
        OBVIOUS
      <4>2. a.call = c /\ a.list = list /\ a.world = clique'[p].world /\ ~(a.world > 1)
        BY <1>4, <3>2, <4>1
      <4>3. Ranks(a) = 0
        BY <1>1, <2>2, <4>2 DEF Ranks
      <4>4. ~GoodArguments(a, Ranks(a))
        BY <4>3 DEF GoodArguments
      <4> QED BY <1>1, <1>3, <2>1, <3>0, <4>2, <4>4, RefusalRight
    <3> QED BY <3>1, <3>2
  <2>3. CASE list # <<>>
    <3>0. Return(p, c, list, TRUE, Given(p, list))
      <4>1. (list # <<>>) = TRUE
        BY <2>3
      <4> QED BY <1>4, <4>1, Zenon
    <3>1. c.op = "allreduce" /\ Alone(p, list)
      BY <1>4, <2>3
    <3>2. ~Refused(c, 1)
      BY <3>1 DEF Refused, BadRoot
    <3>3. clique'[p].world = clique[p].world
      BY <1>4
    <3> QED BY <1>1, <1>3, <2>1, <3>0, <3>1, <3>2, <3>3, AloneRight
  <2> QED BY <2>2, <2>3
<1>5. ASSUME list # <<>>, NEW e \in ensure(Owned(p)), Own(p, e.s), Fails(e.bad),
             Served(p, c, list, recv, e.s.c)
      PROVE  Local(p)' /\ Right(answer', (faults > 0)', misplaced')
  <2>1. clique[p].world > 1 /\ {list, recv} # {clique[p].devices} => misplaced'
    BY <1>2
  <2> QED BY <1>1, <1>3, <1>5, <2>1, ServedRight
<1> QED BY <1>2, <1>4, <1>5

-----------------------------------------------------------------------------
(* The life of the clique, and the calls a process starts *)

(* A step that starts or ends a call of p leaves the others alone. *)
LEMMA CallsLast ==
  ASSUME Inv, NEW p \in Process, NEW c \in Calls,
         nccl_init_rank(p, c) \/ nccl_finalize(p, c) \/ HostCollective(p, c) \/ BufferCollective(p, c)
  PROVE  Lasting
<1>1. faults \in 0 .. MaxFaults /\ MaxFaults \in Nat /\ CliqueInv
  BY BoundsAssumption DEF Inv, RestInv
<1>2. UNCHANGED faults \/ \E n \in {0, 1} : Fails(n)
  <2>1. CASE nccl_init_rank(p, c)
    BY <2>1 DEF nccl_init_rank
  <2>2. CASE nccl_finalize(p, c)
    BY <2>2 DEF nccl_finalize
  <2>3. CASE HostCollective(p, c)
    BY <1>1, <2>3, EnsureDoes DEF HostCollective
  <2>4. CASE BufferCollective(p, c)
    BY <1>1, <2>4, EnsureDoes DEF BufferCollective
  <2> QED BY <2>1, <2>2, <2>3, <2>4
<1>3. faults > 0 => faults' > 0
  BY <1>1, <1>2 DEF Fails
<1>4. Sound' => Sound
  BY CallSound
<1> QED BY <1>3, <1>4 DEF Lasting

LEMMA InitRankRight ==
  ASSUME Inv, NEW p \in Process, NEW c \in Calls, pc[p] = "idle", Local(p), nccl_init_rank(p, c)
  PROVE  Local(p)' /\ Right(answer', (faults > 0)', misplaced')
<1>1. /\ CallInv /\ CliqueInv /\ RankRight(p) /\ c.kind = "init_rank" /\ c.kind \notin Forms
      /\ (clique[p].attempted /\ ~clique[p].ready => faults > 0)
      /\ faults \in Nat
  BY BoundsAssumption DEF Inv, RestInv, Local, TriedRight, nccl_init_rank, Forms
<1>2. ASSUME NEW ok, Return(p, c, <<>>, ok, <<>>), RankRight(p)',
             clique'[p].attempted /\ ~clique'[p].ready => faults' > 0
      PROVE  Local(p)' /\ Right(answer', (faults > 0)', misplaced')
  <2>1. answer'.call = c
    BY <1>2, ReturnAnswers
  <2> QED BY <1>1, <1>2, <2>1, ReturnRight, VoidRight
<1>3. CASE UNCHANGED <<clique, faults>> /\ Return(p, c, <<>>, FALSE, <<>>)
  <2>1. RankRight(p)'
    BY <1>1, <1>3 DEF RankRight
  <2> QED BY <1>1, <1>2, <1>3, <2>1
<1>4. CASE /\ Own(p, [c |-> Closed(TRUE), l |-> reset(Owned(p)).l])
           /\ \/ Fails(1) /\ Return(p, c, <<>>, FALSE, <<>>)
              \/ \E d \in Device :
                   /\ pc' = [pc EXCEPT ![p] = "joining"]
                   /\ post' = [post EXCEPT ![p] = [call |-> c, list |-> <<d>>, bufs |-> <<>>]]
                   /\ answer' = NoAnswer
  <2>1. clique'[p] = Closed(TRUE)
    <3>1. clique' = [clique EXCEPT ![p] = Closed(TRUE)]
      BY <1>4 DEF Own
    <3> QED BY <1>1, <3>1 DEF CliqueInv
  <2>2. RankRight(p)'
    BY <2>1 DEF RankRight, Closed
  <2>3. CASE Fails(1) /\ Return(p, c, <<>>, FALSE, <<>>)
    <3>1. faults' > 0
      BY <1>1, <2>3 DEF Fails
    <3>2. PICK ok : ok = FALSE
      OBVIOUS
    <3> QED BY <1>2, <2>2, <2>3, <3>1, <3>2
  <2>4. CASE \E d \in Device :
               /\ pc' = [pc EXCEPT ![p] = "joining"]
               /\ post' = [post EXCEPT ![p] = [call |-> c, list |-> <<d>>, bufs |-> <<>>]]
               /\ answer' = NoAnswer
    <3>1. pc'[p] = "joining" /\ post'[p].call = c /\ answer' = NoAnswer
      BY <1>1, <2>4 DEF CallInv
    <3>2. Local(p)'
      BY <1>1, <2>2, <3>1 DEF Local, TriedRight, PostRight
    <3>3. answer'.call.kind \notin Forms
      BY <3>1 DEF NoAnswer, Forms
    <3> QED BY <3>2, <3>3, VoidRight
  <2> QED BY <1>4, <2>3, <2>4
<1> QED BY <1>3, <1>4 DEF nccl_init_rank

LEMMA FinalizeRight ==
  ASSUME Inv, NEW p \in Process, NEW c \in Calls, nccl_finalize(p, c)
  PROVE  Local(p)' /\ Right(answer', (faults > 0)', misplaced')
<1>1. CallInv /\ CliqueInv /\ c.kind = "finalize" /\ c.kind \notin Forms /\ Return(p, c, <<>>, TRUE, <<>>)
  BY DEF Inv, nccl_finalize, Forms
<1>2. clique'[p] = Closed(FALSE)
  BY <1>1 DEF nccl_finalize, Own, reset, CliqueInv, NoClique
<1>3. RankRight(p)' /\ ~clique'[p].attempted
  BY <1>2 DEF RankRight, Closed
<1>4. answer'.call = c
  BY <1>1, ReturnAnswers
<1> QED BY <1>1, <1>3, <1>4, ReturnRight, VoidRight

(* The calls a process starts. *)
LEMMA CallRight ==
  ASSUME Inv, NEW p \in Process, NEW c \in Calls, pc[p] = "idle", \A q \in Process : Local(q),
         nccl_init_rank(p, c) \/ nccl_finalize(p, c) \/ HostCollective(p, c) \/ BufferCollective(p, c)
  PROVE  (\A q \in Process : Local(q)') /\ Right(answer', (faults > 0)', misplaced')
<1>1. Local(p)' /\ Right(answer', (faults > 0)', misplaced')
  BY InitRankRight, FinalizeRight, HostRight, BufferRight
<1>2. Lasting
  BY CallsLast
<1>3. Others(p)
  <2>1. CallInv /\ CliqueInv
    BY DEF Inv
  <2>2. \A q \in Process \ {p} : clique'[q] = clique[q]
    <3>1. UNCHANGED clique \/ (\E s : Own(p, s))
      BY Zenon DEF nccl_init_rank, nccl_finalize, HostCollective, BufferCollective
    <3> QED BY <2>1, <3>1 DEF Own, CliqueInv
  <2>3. \/ \E d, list, ok, got : Return(p, d, list, ok, got)
        \/ \E d, list, bufs : Issue(p, d, list, bufs)
        \/ \E d \in Device :
             /\ pc' = [pc EXCEPT ![p] = "joining"]
             /\ post' = [post EXCEPT ![p] = [call |-> c, list |-> <<d>>, bufs |-> <<>>]]
    <3>1. CASE nccl_init_rank(p, c)
      BY <3>1 DEF nccl_init_rank
    <3>2. CASE nccl_finalize(p, c)
      BY <3>2 DEF nccl_finalize
    <3>3. CASE HostCollective(p, c)
      BY <3>3 DEF HostCollective, Degrade
    <3>4. CASE BufferCollective(p, c)
      <4>1. ASSUME NEW list, NEW recv, NEW now, Served(p, c, list, recv, now)
            PROVE  \/ \E ok, got : Return(p, c, list, ok, got)
                   \/ \E bufs : Issue(p, c, list, bufs)
        BY <4>1, Zenon DEF Served
      <4> QED BY <3>4, <4>1, Zenon DEF BufferCollective
    <3> QED BY <3>1, <3>2, <3>3, <3>4
  <2>4. \A q \in Process \ {p} : pc'[q] = pc[q] /\ post'[q] = post[q]
    <3>1. CASE \E d \in Device :
             /\ pc' = [pc EXCEPT ![p] = "joining"]
             /\ post' = [post EXCEPT ![p] = [call |-> c, list |-> <<d>>, bufs |-> <<>>]]
      BY <2>1, <3>1 DEF CallInv
    <3> QED BY <2>1, <2>3, <3>1, ReturnDoes, IssueDoes
  <2> QED BY <2>2, <2>4 DEF Others
<1>4. ASSUME NEW q \in Process
      PROVE  Local(q)'
  <2>1. CASE q = p
    BY <1>1, <2>1
  <2>2. CASE q # p
    BY <1>2, <1>3, <2>2, OthersRight DEF Others
  <2> QED BY <2>1, <2>2
<1> QED BY <1>1, <1>4

-----------------------------------------------------------------------------
(* The steps of a call that goes on or fails *)

(* A step of a call that goes on or ends leaves the others alone. *)
LEMMA StepsLast ==
  ASSUME Inv, NEW p \in Process, GoesOn(p) \/ JoinFails(p) \/ CollectiveFails(p)
  PROVE  Lasting
<1>1. faults \in 0 .. MaxFaults /\ MaxFaults \in Nat
  BY BoundsAssumption DEF Inv, RestInv
<1>2. UNCHANGED faults \/ \E n \in {0, 1} : Fails(n)
  <2>1. CASE GoesOn(p)
    <3>1. \A n \in {0, 1} : 1 - n \in {0, 1}
      OBVIOUS
    <3> QED BY <2>1, <3>1 DEF GoesOn, Rendezvous, Joined, Exchange, Finish
  <2>2. CASE JoinFails(p) \/ CollectiveFails(p)
    BY <2>2 DEF JoinFails, CollectiveFails
  <2> QED BY <2>1, <2>2
<1>3. faults > 0 => faults' > 0
  BY <1>1, <1>2 DEF Fails
<1>4. Sound' => Sound
  BY WayOnSound, FailureEnds
<1> QED BY <1>3, <1>4 DEF Lasting

(* The step of one process, and its own part in it. *)
LEMMA AllLocal ==
  ASSUME NEW p \in Process, \A q \in Process : Local(q), Lasting, Local(p)',
         \A q \in Process \ {p} : clique'[q] = clique[q] /\ pc'[q] = pc[q] /\ post'[q] = post[q]
  PROVE  \A q \in Process : Local(q)'
<1> SUFFICES ASSUME NEW q \in Process
             PROVE  Local(q)'
  OBVIOUS
<1>1. CASE q = p
  BY <1>1
<1>2. CASE q # p
  BY <1>2, OthersRight
<1> QED BY <1>1, <1>2

LEMMA JoinFailsRight ==
  ASSUME Inv, NEW p \in Process, \A q \in Process : Local(q), JoinFails(p)
  PROVE  (\A q \in Process : Local(q)') /\ Right(answer', (faults > 0)', misplaced')
<1>1. /\ CallInv /\ CliqueInv /\ faults \in Nat /\ RankRight(p) /\ pc[p] = "joining" /\ UNCHANGED clique
      /\ Return(p, post[p].call, post[p].list, FALSE, <<>>) /\ Fails(1)
      /\ post[p].call.kind = "init_rank"
  <2>1. CallInv /\ CliqueInv /\ faults \in 0 .. MaxFaults /\ MaxFaults \in Nat
    BY BoundsAssumption DEF Inv, RestInv
  <2>2. pc[p] = "joining" /\ UNCHANGED clique /\ Fails(1)
        /\ Return(p, post[p].call, post[p].list, FALSE, <<>>)
    BY DEF JoinFails
  <2>3. RankRight(p) /\ TriedRight(p)
    BY DEF Local
  <2>4. post[p].call.kind = "init_rank"
    BY <2>2, <2>3 DEF TriedRight
  <2>5. faults \in Nat
    BY <2>1
  <2> QED BY <2>1, <2>2, <2>3, <2>4, <2>5, Zenon
<1>2. faults' > 0 /\ RankRight(p)'
  BY <1>1 DEF Fails, RankRight
<1>3. Local(p)'
  BY <1>1, <1>2, ReturnRight
<1>4. answer'.call.kind \notin Forms
  <2>1. answer'.call = post[p].call
    BY <1>1 DEF Return
  <2> QED BY <1>1, <2>1 DEF Forms
<1>5. Lasting
  BY StepsLast
<1>6. \A q \in Process \ {p} : clique'[q] = clique[q] /\ pc'[q] = pc[q] /\ post'[q] = post[q]
  BY <1>1, ReturnDoes
<1> QED BY <1>3, <1>4, <1>5, <1>6, AllLocal, VoidRight

LEMMA RendezvousRight ==
  ASSUME Inv, NEW p \in Process, \A q \in Process : Local(q), Rendezvous(p)
  PROVE  (\A q \in Process : Local(q)') /\ Right(answer', (faults > 0)', misplaced')
<1> DEFINE ranks == IF post[p].call.world > 1 THEN Process ELSE {p}
<1>1. /\ \A q \in ranks : pc[q] = "joining"
      /\ pc' = [q \in Process |-> IF q \in ranks THEN "joined" ELSE pc[q]]
      /\ answer' = NoAnswer /\ UNCHANGED <<clique, post, faults, misplaced>>
      /\ pc[p] = "joining"
  BY DEF Rendezvous
<1>2. ASSUME NEW q \in Process
      PROVE  Local(q)'
  <2>1. CASE q \in ranks
    <3>1. pc[q] = "joining" /\ pc'[q] = "joined"
      BY <1>1, <2>1
    <3> QED BY <1>1, <3>1 DEF Local, RankRight, TriedRight, PostRight
  <2>2. CASE q \notin ranks
    <3>1. pc'[q] = pc[q]
      BY <1>1, <2>2
    <3>2. Lasting
      BY StepsLast DEF GoesOn
    <3> QED BY <1>1, <3>1, <3>2, OthersRight
  <2> QED BY <2>1, <2>2
<1>3. answer'.call.kind \notin Forms
  BY <1>1 DEF NoAnswer, Forms
<1> QED BY <1>2, <1>3, VoidRight

LEMMA JoinedRight ==
  ASSUME Inv, NEW p \in Process, \A q \in Process : Local(q), Joined(p)
  PROVE  (\A q \in Process : Local(q)') /\ Right(answer', (faults > 0)', misplaced')
<1>1. /\ CallInv /\ CliqueInv /\ faults \in Nat /\ pc[p] = "joined"
      /\ post[p].call.kind = "init_rank"
      /\ clique[p] = Closed(TRUE) /\ post[p].call.world \in Nat /\ post[p].call.world > 0
  <2>1. CallInv /\ CliqueInv /\ faults \in 0 .. MaxFaults /\ MaxFaults \in Nat
    BY BoundsAssumption DEF Inv, RestInv
  <2>2. Joining(p) /\ pc[p] = "joined"
    BY <2>1 DEF CallInv, Joined
  <2>3. TriedRight(p)
    BY DEF Local
  <2>4. post[p].call.kind = "init_rank"
    BY <2>2, <2>3 DEF TriedRight
  <2>5. faults \in Nat
    BY <2>1
  <2> QED BY <2>1, <2>2, <2>4, <2>5, Zenon DEF Joining
<1>2. PICK n \in {0, 1} :
        /\ Own(p, adopt_rank(p, n)) /\ Fails(1 - n)
        /\ Return(p, post[p].call, post[p].list, n = 1, <<>>)
  BY DEF Joined
<1> DEFINE joined == Opened(Owned(p), post[p].list, n)
           world == post[p].call.world
<1>3. clique'[p] = adopt_rank(p, n).c
  <2>1. clique' = [clique EXCEPT ![p] = adopt_rank(p, n).c]
    BY <1>2 DEF Own
  <2> QED BY <1>1, <2>1 DEF CliqueInv
<1>4. world = 1 \/ world = World
  <2>1. InCall(post[p])
    BY <1>1 DEF CallInv, Posted
  <2>2. post[p].call \in Calls
    BY <2>1 DEF InCall
  <2> QED BY <1>1, <2>2, CallsAssumption DEF Declared
<1>5. RankRight(p)' /\ (clique'[p].attempted /\ ~clique'[p].ready => faults' > 0)
  <2>1. CASE n = 1
    <3>1. clique'[p] = [joined.c EXCEPT !.world = world, !.ready = TRUE,
                                        !.rank = IF world > 1 THEN p ELSE 0]
      BY <1>3, <2>1 DEF adopt_rank, Ranked
    <3>2. "world" \in DOMAIN joined.c /\ "ready" \in DOMAIN joined.c /\ "rank" \in DOMAIN joined.c
      BY <1>1 DEF Opened, Owned, Closed
    <3> HIDE DEF joined, world
    <3>3. clique'[p].world = world /\ clique'[p].ready = TRUE
          /\ clique'[p].rank = IF world > 1 THEN p ELSE 0
      BY <3>1, <3>2
    <3> QED BY <1>4, <3>3 DEF RankRight
  <2>2. CASE n = 0
    <3>1. clique'[p].world = 0
      BY <1>3, <2>2 DEF adopt_rank, release, Closed
    <3>2. faults' > 0
      BY <1>1, <1>2, <2>2 DEF Fails
    <3> QED BY <3>1, <3>2 DEF RankRight
  <2> QED BY <2>1, <2>2
<1>6. Local(p)'
  BY <1>1, <1>2, <1>5, ReturnRight
<1>7. answer'.call.kind \notin Forms
  <2>1. answer'.call = post[p].call
    BY <1>2 DEF Return
  <2> QED BY <1>1, <2>1 DEF Forms
<1>8. Lasting
  BY StepsLast DEF GoesOn
<1>9. \A q \in Process \ {p} : clique'[q] = clique[q] /\ pc'[q] = pc[q] /\ post'[q] = post[q]
  <2>1. \A q \in Process \ {p} : clique'[q] = clique[q]
    BY <1>1, <1>2 DEF Own, CliqueInv
  <2> QED BY <1>1, <1>2, <2>1, ReturnDoes
<1> QED BY <1>6, <1>7, <1>8, <1>9, AllLocal, VoidRight

(* The ranks one process drives in local mode, or in a communicator of its own. *)
LEMMA IssuedAlone ==
  ASSUME CliqueInv, NEW p \in Process, Local(p), pc[p] = "waiting", ~(clique[p].world > 1)
  PROVE  Issued(p) = Parts(p, Asks(p))
<1> DEFINE c == post[p].call
           a == Asks(p)
<1>1. RankRight(p) /\ Serves(p, c, post[p].list)
      /\ post[p].bufs = [i \in 1 .. clique[p].comms |-> Block(p, IF c.kind = "buffer" THEN i ELSE 1)]
  BY DEF Local, PostRight
<1>2. a.call = c /\ a.world = clique[p].world /\ a.list = post[p].list
  BY DEF Asks
<1> HIDE DEF a, c
<1>3. /\ Ranks(a) = nccl_comm_size(clique[p]) /\ clique[p].world \in Nat
      /\ clique[p].comms = IF clique[p].world > 0 THEN 1 ELSE Gpus
  BY <1>1, <1>2, ServesRanks
<1>4. Ranks(a) = clique[p].comms
  BY <1>3 DEF nccl_comm_size
<1>5. ASSUME NEW r \in 1 .. clique[p].comms
      PROVE  post[p].bufs[r][1] = Part(p, a, r)
  <2>1. post[p].bufs[r] = Block(p, IF c.kind = "buffer" THEN r ELSE 1)
    BY <1>1
  <2> QED BY <1>2, <2>1 DEF Block, Part
<1>6. Issued(p) = [r \in 1 .. clique[p].comms |-> post[p].bufs[r][1]]
  BY DEF Issued
<1> QED BY <1>4, <1>5, <1>6 DEF Parts, a

(* The ranks of a communicator of all processes. *)
LEMMA IssuedTogether ==
  ASSUME CliqueInv, \A q \in Process : Local(q) /\ pc[q] = "waiting" /\ clique[q].world > 1,
         NEW p \in Process, NEW q \in Process
  PROVE  Issued(p) = Parts(q, Asks(q))
<1> DEFINE a == Asks(q)
<1>1. a.world = clique[q].world /\ a.world > 1
  BY DEF Asks
<1> HIDE DEF a
<1>2. ASSUME NEW r \in 1 .. World
      PROVE  post[r - 1].bufs[1][1] = Part(q, a, r)
  <2>1. r - 1 \in Process
    BY WorldAssumption DEF Process
  <2>2. PICK x \in Process : x = r - 1
    BY <2>1
  <2>3. /\ RankRight(x) /\ Serves(x, post[x].call, post[x].list) /\ clique[x].world > 1
        /\ post[x].bufs = [i \in 1 .. clique[x].comms |->
                             Block(x, IF post[x].call.kind = "buffer" THEN i ELSE 1)]
    BY DEF Local, PostRight
  <2>4. PICK b : b = [call |-> post[x].call, world |-> clique[x].world, list |-> post[x].list]
    OBVIOUS
  <2>5. clique[x].comms = 1
    <3>1. clique[x].world \in Nat /\ clique[x].comms = IF clique[x].world > 0 THEN 1 ELSE Gpus
      BY <2>3, <2>4, ServesRanks
    <3> QED BY <2>3, <3>1
  <2>6. post[x].bufs[1] = Block(x, 1)
    BY <2>3, <2>5
  <2> QED BY <1>1, <2>2, <2>6 DEF Block, Part
<1>3. Ranks(a) = World
  BY <1>1 DEF Ranks
<1>4. Issued(p) = [r \in 1 .. World |-> post[r - 1].bufs[1][1]]
  BY DEF Issued
<1> QED BY <1>2, <1>3, <1>4 DEF Parts, a

(* What NCCL leaves with a process whose collective it has served. *)
LEMMA ExchangedRight ==
  ASSUME NEW p \in Process, Local(p), pc[p] = "waiting", pc'[p] = "arrived",
         clique'[p] = clique[p], (Sound' => Sound),
         NEW bufs, post'[p] = [post[p] EXCEPT !.bufs = bufs], "bufs" \in DOMAIN post[p],
         (clique[p].world > 1 => Sound) =>
           bufs = [i \in 1 .. clique[p].comms |->
                     Collected(post[p].call, Parts(p, Asks(p)), Averages(post[p].call), RankOf(p, i))]
  PROVE  Local(p)'
<1>1. post'[p].call = post[p].call /\ post'[p].list = post[p].list /\ post'[p].bufs = bufs
  OBVIOUS
<1>2. RankRight(p)' /\ TriedRight(p)'
  <2>1. clique[p].ready
    BY DEF Local, PostRight, Serves
  <2> QED BY <2>1 DEF Local, RankRight, TriedRight
<1>3. Serves(p, post[p].call, post[p].list)'
  <2>1. Serves(p, post[p].call, post[p].list)
    BY DEF Local, PostRight
  <2> QED BY <1>1, <2>1 DEF Serves
<1>4. Asks(p)' = Asks(p) /\ \A i : RankOf(p, i)' = RankOf(p, i)
  BY <1>1 DEF Asks, RankOf
<1>5. PostRight(p)'
  BY <1>1, <1>3, <1>4 DEF PostRight
<1> QED BY <1>2, <1>5 DEF Local

LEMMA ExchangeRight ==
  ASSUME StepInv, NEW p \in Process, \A q \in Process : Local(q), Exchange(p)
  PROVE  (\A q \in Process : Local(q)') /\ Right(answer', (faults > 0)', misplaced')
<1> DEFINE S == Members(p)
           same(q) == \A r \in S : SameCollective(post[r].call, post[q].call)
           out(q) == [i \in DOMAIN post[q].bufs |->
                        IF same(q)
                        THEN Collected(post[q].call, Issued(p), Averages(post[q].call), RankOf(q, i))
                        ELSE Junk]
<1>1. /\ \A q \in S : pc[q] = "waiting" /\ clique[q].world = clique[p].world
      /\ pc' = [q \in Process |-> IF q \in S THEN "arrived" ELSE pc[q]]
      /\ answer' = NoAnswer /\ UNCHANGED <<clique, live, todo, faults, misplaced>>
      /\ S \subseteq Process /\ p \in S
  BY DEF Exchange, Members
<1>2. Inv /\ CliqueInv /\ CallInv
  BY DEF StepInv, Inv
<1>3. Lasting
  BY <1>2, StepsLast DEF GoesOn
<1>4. \A q \in Process : RankRight(q)
  BY DEF Local
<1>5. ASSUME NEW q \in Process, q \in S
      PROVE  post'[q] = [post[q] EXCEPT !.bufs = out(q)]
  <2>1. \A i : (IF clique[q].world > 1 THEN clique[q].rank + 1 ELSE i) = RankOf(q, i)
    BY <1>4 DEF RankRight, RankOf
  <2>2. post'[q] = [post[q] EXCEPT !.bufs =
          [i \in DOMAIN post[q].bufs |->
             IF same(q)
             THEN Collected(post[q].call, Issued(p), Averages(post[q].call),
                            IF clique[q].world > 1 THEN clique[q].rank + 1 ELSE i)
             ELSE Junk]]
    BY <1>5 DEF Exchange, Averages
  <2> HIDE DEF same
  <2> QED BY <2>1, <2>2
<1>6. ASSUME NEW q \in Process, q \notin S
      PROVE  post'[q] = post[q]
  BY <1>6 DEF Exchange
<1>7. ASSUME NEW q \in Process, q \in S, clique[q].world > 1 => Sound
      PROVE  same(q) /\ Issued(p) = Parts(q, Asks(q))
  <2>1. clique[q].world = clique[p].world
    BY <1>1, <1>7
  <2>2. CASE clique[p].world > 1
    <3>1. S = Process
      BY <2>2 DEF Members
    <3>2. PICK n, log, ws, at : Story(n, log, ws, at)
      BY <1>7, <2>1, <2>2 DEF StepInv
    <3>3. \A r \in Process : pc[r] = "waiting" /\ clique[r].world > 1
      BY <1>1, <2>2, <3>1
    <3>4. \A r \in Process : Held(r)
      BY <3>3 DEF Held
    <3>5. \A r \in Process : post[r].call = post[q].call
      BY <3>2, <3>4, StoryInStep
    <3>6. same(q)
      BY <3>1, <3>5 DEF SameCollective
    <3>7. Issued(p) = Parts(q, Asks(q))
      BY <1>2, <3>3, IssuedTogether
    <3> QED BY <3>6, <3>7
  <2>3. CASE ~(clique[p].world > 1)
    <3>1. S = {p} /\ q = p
      BY <1>7, <2>3 DEF Members
    <3>2. same(q)
      BY <3>1 DEF SameCollective
    <3>3. Issued(p) = Parts(q, Asks(q))
      BY <1>1, <1>2, <2>3, <3>1, IssuedAlone
    <3> QED BY <3>2, <3>3
  <2> QED BY <2>2, <2>3
<1> HIDE DEF same, S
<1>8. ASSUME NEW q \in Process, q \in S
      PROVE  Local(q)'
  <2>1. pc[q] = "waiting" /\ pc'[q] = "arrived" /\ clique'[q] = clique[q] /\ (Sound' => Sound)
    BY <1>1, <1>3, <1>8 DEF Lasting
  <2>2. DOMAIN post[q].bufs = 1 .. clique[q].comms
    BY <2>1 DEF Local, PostRight
  <2>3. "bufs" \in DOMAIN post[q]
    <3>1. InCall(post[q])
      BY <1>2, <2>1 DEF CallInv, Posted
    <3> QED BY <3>1 DEF InCall
  <2>4. (clique[q].world > 1 => Sound) =>
          out(q) = [i \in 1 .. clique[q].comms |->
                      Collected(post[q].call, Parts(q, Asks(q)), Averages(post[q].call), RankOf(q, i))]
    BY <1>7, <1>8, <2>2
  <2>5. PICK bufs : bufs = out(q)
    OBVIOUS
  <2> HIDE DEF out
  <2> QED BY <1>5, <1>8, <2>1, <2>3, <2>4, <2>5, ExchangedRight
<1>9. ASSUME NEW q \in Process, q \notin S
      PROVE  Local(q)'
  <2>1. clique'[q] = clique[q] /\ pc'[q] = pc[q] /\ post'[q] = post[q]
    BY <1>1, <1>6, <1>9
  <2> QED BY <1>3, <2>1, OthersRight
<1>10. answer'.call.kind \notin Forms
  BY <1>1 DEF NoAnswer, Forms
<1> QED BY <1>8, <1>9, <1>10, VoidRight

(* What a call contributes follows from the call, the size and the list. *)
LEMMA SameParts ==
  ASSUME NEW p, NEW a, NEW b, a.call = b.call, a.world = b.world, a.list = b.list
  PROVE  Parts(p, a) = Parts(p, b)
BY DEF Parts, Part, Ranks

LEMMA FinishRight ==
  ASSUME Inv, NEW p \in Process, \A q \in Process : Local(q), Finish(p)
  PROVE  (\A q \in Process : Local(q)') /\ Right(answer', (faults > 0)', misplaced')
<1> DEFINE c == post[p].call
           list == post[p].list
           out == Delivered(p, c, Averaged(p, c, post[p].bufs))
           a == answer'
<1>1. /\ CallInv /\ CliqueInv /\ faults \in Nat
  BY BoundsAssumption DEF Inv, RestInv
<1>2. /\ pc[p] = "arrived" /\ UNCHANGED <<clique, faults, misplaced>>
      /\ Return(p, c, list, TRUE, out)
  BY DEF Finish
<1>3. RankRight(p) /\ Serves(p, c, list) /\ clique[p].ready
      /\ ((clique[p].world > 1 => Sound) =>
            post[p].bufs = [i \in 1 .. clique[p].comms |->
                              Collected(c, Parts(p, Asks(p)), Averages(c), RankOf(p, i))])
  BY <1>2 DEF Local, PostRight, Serves
<1> HIDE DEF out, c, list
<1>4. /\ a.p = p /\ a.call = c /\ a.world = clique[p].world /\ a.list = list /\ a.ok = TRUE /\ a.got = out
  <2>1. /\ a.p = p /\ a.call = c /\ a.world = clique'[p].world /\ a.list = list
        /\ a.ok = TRUE /\ a.got = out
    BY <1>2, ReturnAnswers
  <2>2. clique'[p].world = clique[p].world
    BY <1>2
  <2> QED BY <2>1, <2>2
<1> HIDE DEF a
<1>5. Right(a, (faults > 0)', misplaced')
  <2>1. CASE clique[p].world > 1 /\ ~Sound
    <3>1. (faults > 0)' \/ misplaced'
      BY <1>1, <1>2, <2>1 DEF Sound
    <3> QED BY <1>4, <2>1, <3>1, VoidRight
  <2>2. CASE clique[p].world > 1 => Sound
    <3>1. Parts(p, Asks(p)) = Parts(p, a)
      <4>1. PICK b : b = Asks(p)
        OBVIOUS
      <4>2. b.call = c /\ b.world = clique[p].world /\ b.list = list
        BY <4>1 DEF Asks, c, list
      <4> QED BY <1>4, <4>1, <4>2, SameParts
    <3>2. PICK bufs : bufs = post[p].bufs
      OBVIOUS
    <3>3. bufs = [i \in 1 .. clique[p].comms |-> Collected(c, Parts(p, a), Averages(c), RankOf(p, i))]
      BY <1>3, <2>2, <3>1, <3>2
    <3>4. a.got = Delivered(p, c, Averaged(p, c, bufs))
      BY <1>4, <3>2 DEF out
    <3>5. Correct(p, a)
      BY <1>1, <1>3, <1>4, <3>3, <3>4, DeliveredCorrect
    <3>6. Asked(a) /\ GoodArguments(a, Ranks(a))
      BY <1>1, <1>3, <1>4, ServesRanks
    <3> QED BY <1>4, <3>5, <3>6, ReducesRight
  <2> QED BY <2>1, <2>2
<1>6. RankRight(p)' /\ (clique'[p].attempted /\ ~clique'[p].ready => faults' > 0)
  BY <1>2, <1>3 DEF RankRight
<1>7. Local(p)'
  BY <1>1, <1>2, <1>6, ReturnRight
<1>8. Lasting
  BY StepsLast DEF GoesOn
<1>9. \A q \in Process \ {p} : clique'[q] = clique[q] /\ pc'[q] = pc[q] /\ post'[q] = post[q]
  BY <1>1, <1>2, ReturnDoes
<1>10. \A q \in Process : Local(q)'
  BY <1>7, <1>8, <1>9, AllLocal
<1> QED BY <1>5, <1>10 DEF a

LEMMA CollectiveFailsRight ==
  ASSUME Inv, NEW p \in Process, \A q \in Process : Local(q), CollectiveFails(p)
  PROVE  (\A q \in Process : Local(q)') /\ Right(answer', (faults > 0)', misplaced')
<1> DEFINE c == post[p].call
           list == post[p].list
           junk == [i \in DOMAIN list |-> Junk]
           a == answer'
           failed == (faults > 0)'
<1>1. /\ CallInv /\ CliqueInv /\ faults \in Nat
  BY BoundsAssumption DEF Inv, RestInv
<1>2. /\ pc[p] \in {"waiting", "arrived"} /\ UNCHANGED clique /\ Fails(1)
      /\ c.kind = "buffer" => Return(p, c, list, FALSE, junk)
      /\ c.kind # "buffer" => Degrade(p, c)
  BY DEF CollectiveFails
<1>3. RankRight(p) /\ Serves(p, c, list)
  BY <1>2 DEF Local, PostRight
<1>4. failed = TRUE /\ faults' > 0
  BY <1>1, <1>2 DEF Fails
<1> HIDE DEF junk, a, failed, c, list
<1>5. c \in Calls /\ c.kind \in Forms
  BY <1>3 DEF Serves
<1>6. Right(a, failed, misplaced')
  <2>1. CASE c.kind = "buffer"
    <3>1. /\ a.p = p /\ a.call = c /\ a.world = clique[p].world /\ a.list = list /\ a.ok = FALSE
      BY <1>2, <2>1, ReturnAnswers DEF a
    <3>2. Asked(a)
      BY <1>1, <1>3, <3>1, ServesRanks
    <3> QED BY <1>4, <2>1, <3>1, <3>2, RefusedRight
  <2>2. CASE c.kind # "buffer"
    <3>1. c.kind \in {"host", "scalar"}
      BY <1>5, <2>2 DEF Forms
    <3> QED BY <1>2, <1>3, <1>4, <1>5, <2>2, <3>1, DegradeRight DEF a, failed
  <2> QED BY <2>1, <2>2
<1>7. PICK l, ok, got : Return(p, c, l, ok, got)
  BY <1>2 DEF Degrade
<1>8. Local(p)'
  <2>1. RankRight(p)'
    BY <1>2, <1>3 DEF RankRight
  <2> QED BY <1>1, <1>4, <1>7, <2>1, ReturnRight
<1>9. Lasting
  BY StepsLast
<1>10. \A q \in Process \ {p} : clique'[q] = clique[q] /\ pc'[q] = pc[q] /\ post'[q] = post[q]
  BY <1>1, <1>2, <1>7, ReturnDoes
<1>11. \A q \in Process : Local(q)'
  BY <1>8, <1>9, <1>10, AllLocal
<1> QED BY <1>6, <1>11 DEF a, failed

-----------------------------------------------------------------------------
(* The second theorem *)

LEMMA RightIs == AnswersRight <=> Right(answer, faults > 0, misplaced)
BY Zenon DEF AnswersRight, Right

LEMMA InitAnswerInv == Init => AnswerInv
<1> SUFFICES ASSUME Init
             PROVE  AnswerInv
  OBVIOUS
<1>1. AnswersRight
  <2>1. answer.call.kind \notin Forms
    BY DEF Init, NoAnswer, Forms
  <2> QED BY <2>1, Zenon DEF AnswersRight
<1>2. ASSUME NEW p \in Process
      PROVE  Local(p)
  <2>1. pc[p] = "idle" /\ clique[p] = Closed(FALSE)
    BY DEF Init, NoClique
  <2>2. clique[p].world = 0 /\ ~clique[p].attempted
    BY <2>1 DEF Closed
  <2>3. RankRight(p)
    BY <2>2 DEF RankRight
  <2> QED BY <2>1, <2>2, <2>3, Zenon DEF Local, TriedRight, PostRight
<1> QED BY <1>1, <1>2, InitStepInv DEF AnswerInv

LEMMA NextAnswerInv == AnswerInv /\ [Next]_vars => AnswerInv'
<1> SUFFICES ASSUME AnswerInv, [Next]_vars
             PROVE  AnswerInv'
  OBVIOUS
<1>1. Inv /\ StepInv /\ StepInv' /\ \A q \in Process : Local(q)
  BY NextStepInv DEF AnswerInv, StepInv
<1>2. SUFFICES (\A q \in Process : Local(q)') /\ Right(answer', (faults > 0)', misplaced')
  <2>1. AnswersRight' <=> Right(answer', (faults > 0)', misplaced')
    BY Zenon DEF AnswersRight, Right
  <2> QED BY <1>1, <2>1 DEF AnswerInv
<1>3. ASSUME NEW p \in Process, StartsCall(p)
      PROVE  (\A q \in Process : Local(q)') /\ Right(answer', (faults > 0)', misplaced')
  <2>1. PICK c \in Upcoming(p) :
          nccl_init_rank(p, c) \/ nccl_finalize(p, c) \/ HostCollective(p, c) \/ BufferCollective(p, c)
    BY <1>3 DEF StartsCall
  <2>2. c \in Calls /\ pc[p] = "idle"
    BY <1>1, <1>3, UpcomingCall DEF Inv, RestInv, StartsCall
  <2> QED BY <1>1, <2>1, <2>2, CallRight
<1>4. ASSUME NEW p \in Process, GoesOn(p)
      PROVE  (\A q \in Process : Local(q)') /\ Right(answer', (faults > 0)', misplaced')
  BY <1>1, <1>4, RendezvousRight, JoinedRight, ExchangeRight, FinishRight DEF GoesOn
<1>5. ASSUME NEW p \in Process, JoinFails(p) \/ CollectiveFails(p)
      PROVE  (\A q \in Process : Local(q)') /\ Right(answer', (faults > 0)', misplaced')
  BY <1>1, <1>5, JoinFailsRight, CollectiveFailsRight
<1>6. CASE UNCHANGED vars
  <2>1. UNCHANGED <<clique, pc, post, answer, faults, misplaced>>
    BY <1>6 DEF vars
  <2>2. Lasting
    BY <2>1 DEF Lasting, Sound
  <2>3. \A q \in Process : Local(q)'
    BY <1>1, <2>1, <2>2, OthersRight
  <2>4. Right(answer, faults > 0, misplaced)
    BY RightIs DEF AnswerInv
  <2> QED BY <2>1, <2>3, <2>4
<1> QED BY <1>3, <1>4, <1>5, <1>6 DEF Next

(***************************************************************************)
(* An answer is right or a refusal, for any number of processes and        *)
(* devices and any calls: a collective that reports success leaves what    *)
(* the reduction, broadcast or gather over all contributions has to leave, *)
(* and one that fails had a bad argument or met a failure.  In local mode  *)
(* this holds after any failures.  In a communicator of several processes  *)
(* it says nothing once a call has failed or a buffer was not on its       *)
(* device: host staging (nccl.cpp:426) then reports the result over the    *)
(* buffers of one process as a success.                                    *)
(***************************************************************************)
THEOREM AnswersCorrect == Spec => []AnswersRight
<1>1. AnswerInv => AnswersRight
  BY DEF AnswerInv
<1> QED BY <1>1, InitAnswerInv, NextAnswerInv, PTL DEF Spec

=============================================================================
