--------------------------- MODULE RequestProofs ---------------------------
(* Proofs about Request, for any middleware in any order.                  *)
EXTENDS Request, SequenceTheorems, FiniteSetTheorems, TLAPS

N(route) == Len(Chain(route)) + 1

H(r) == HandlersOf(r.route)

(* The loop of the top handler's Next will call another handler.           *)
Going(r) == r.pc = "loop" /\ r.index < N(r.route)

(* The loops are over, for good.                                           *)
Over(r) == r.pc \in {"loop", "done"} /\ r.index >= N(r.route)

In(r, h) == \E i \in 1..Len(r.stack) : r.stack[i] = h

(* The stack: handlers of the chain that were called, none twice, with     *)
(* Logger and Recovery below all others and the application's on top.      *)
StackInv(r) ==
  /\ \A i \in 1..Len(r.stack) : \E k \in 1..N(r.route) :
        r.stack[i] = H(r)[k] /\ (Going(r) => k <= r.index)
  /\ \A i, j \in 1..Len(r.stack) : r.stack[i] = r.stack[j] => i = j
  /\ Len(r.stack) >= 1 => r.stack[1] = "Logger"
  /\ Len(r.stack) >= 2 => r.stack[2] = "Recovery"
  /\ \A i \in 1..Len(r.stack) : r.stack[i] = "handler" => i = Len(r.stack)

(* How far the goroutine is.                                               *)
PcInv(r) ==
  /\ r.pc = "new" => r.stack = <<>> /\ r.index = 0
  /\ Going(r) => /\ Len(r.stack) <= r.index
                 /\ r.index >= 1 => Len(r.stack) >= 1
                 /\ r.index >= 2 => Len(r.stack) >= 2
                 /\ ~In(r, "handler")
  /\ r.pc \in {"body", "wait", "conn"} =>
       Len(r.stack) >= 3 /\ r.stack[Len(r.stack)] = "handler" /\ r.index = N(r.route) - 1
  /\ Over(r) => ~In(r, "handler")
  /\ r.pc = "unwind" => Len(r.stack) >= 2
  /\ r.pc = "done" => r.index >= N(r.route) /\ r.stack = <<>>

(* What is logged, and what a panic leaves.                                *)
LogInv(r) ==
  /\ Len(r.stack) >= 1 => r.logged = <<>>
  /\ r.pc = "new" \/ Going(r) => r.logged = <<>>
  /\ Over(r) /\ r.stack = <<>> => r.logged = <<r.status>>
  /\ r.pc = "unwind" => r.panic # "none"
  /\ r.panic # "none" => r.pc = "unwind" \/ Over(r)
  /\ r.panic = "other" => r.pc = "unwind" \/ r.status = 500

(* What is counted.                                                        *)
CountInv(r) ==
  /\ \/ r.counted = <<>>
     \/ r.counted = <<r.status>> /\ Over(r) /\ r.panic = "none" /\ r.path = "other"
  /\ In(r, "Metrics") => r.counted = <<>>
  /\ H(r)[4] = "Metrics" /\ r.panic = "none" /\ r.path = "other" /\ r.index >= 4
       => In(r, "Metrics") \/ r.counted # <<>>
  /\ r.panic # "none" => r.pc = "unwind" \/ ~In(r, "Metrics")

(* The k-th handler let the request pass.                                  *)
Passed(q, k) ==
  LET h == H(rq[q])[k] IN
  /\ h = "Trace" /\ setup.tracing => q \in spans
  /\ h = "Jwt" => rq[q].claims
  /\ h = "Ratelimit" /\ setup.limited => q \in entries

PassInv(q) ==
  \A k \in 1..(N(rq[q].route) - 1) :
    (Going(rq[q]) /\ k <= rq[q].index) \/ In(rq[q], "handler") => Passed(q, k)

(* NothingLeaked, for one request.                                         *)
HeldInv(q) ==
  /\ q \in entries => In(rq[q], "Ratelimit")
  /\ q \in spans => In(rq[q], "Trace")
  /\ q \in opSpans => rq[q].pc \in {"wait", "conn"}
  /\ q \in conns => rq[q].pc = "conn"

Sound(r) == StackInv(r) /\ PcInv(r) /\ LogInv(r) /\ CountInv(r)

GoodRequest(q) == Sound(rq[q]) /\ PassInv(q) /\ HeldInv(q)

IInv == TypeOK /\ \A q \in Requests : GoodRequest(q)

(* What a step of q leaves of the other requests.                          *)
OthersKept(q) ==
  /\ rq' = [rq EXCEPT ![q] = rq'[q]]
  /\ UNCHANGED setup
  /\ \A p \in Requests \ {q} :
       /\ p \in entries' <=> p \in entries
       /\ p \in spans' <=> p \in spans
       /\ p \in opSpans' <=> p \in opSpans
       /\ p \in conns' <=> p \in conns

(* What each action is shown to do.                                        *)
Good(q) == OthersKept(q) /\ TypeOK' /\ Sound(rq'[q]) /\ PassInv(q)' /\ HeldInv(q)'

-----------------------------------------------------------------------------
(* The chain: three handlers of motor's, those the route has, the last.    *)

LEMMA ChainIs ==
  ASSUME NEW route \in Routes
  PROVE  /\ Chain(route) \in
              Seq({"Logger", "Recovery", "Trace", "Metrics", "Jwt", "Ratelimit"})
         /\ N(route) \in 4..7 /\ N(route) = Len(Chain(route)) + 1
         /\ Chain(route)[1] = "Logger" /\ Chain(route)[2] = "Recovery"
         /\ Chain(route)[3] = "Trace"
         /\ \A i, j \in 1..Len(Chain(route)) : Chain(route)[i] = Chain(route)[j] => i = j
<1>0. /\ Middleware(route) \in Seq({"Metrics", "Jwt", "Ratelimit"})
      /\ \A i, j \in 1..Len(Middleware(route)) :
            Middleware(route)[i] = Middleware(route)[j] => i = j
      /\ Len(Middleware(route)) \in 0..3
  BY ChainAssumption
<1> DEFINE D == <<"Logger", "Recovery", "Trace">>
<1>1. D \in Seq({"Logger", "Recovery", "Trace", "Metrics", "Jwt", "Ratelimit"})
      /\ Len(D) = 3
      /\ D[1] = "Logger" /\ D[2] = "Recovery" /\ D[3] = "Trace"
  OBVIOUS
<1>2. Middleware(route) \in
        Seq({"Logger", "Recovery", "Trace", "Metrics", "Jwt", "Ratelimit"})
      /\ Len(Middleware(route)) \in 0..3
      /\ \A k \in 1..Len(Middleware(route)) :
            Middleware(route)[k] \in {"Metrics", "Jwt", "Ratelimit"}
  BY <1>0
<1>3. Chain(route) = D \o Middleware(route)
  BY DEF Chain
<1> HIDE DEF D
<1>4. /\ Chain(route) \in
           Seq({"Logger", "Recovery", "Trace", "Metrics", "Jwt", "Ratelimit"})
      /\ Len(Chain(route)) = Len(Middleware(route)) + 3
      /\ \A i \in 1..Len(Chain(route)) :
            Chain(route)[i] = IF i <= 3 THEN D[i] ELSE Middleware(route)[i - 3]
  <2> DEFINE All == {"Logger", "Recovery", "Trace", "Metrics", "Jwt", "Ratelimit"}
  <2>1. D \in Seq(All) /\ Middleware(route) \in Seq(All) /\ Len(D) = 3
        /\ Len(Middleware(route)) \in Nat
    BY <1>1, <1>2
  <2> HIDE DEF All
  <2>2. /\ D \o Middleware(route) \in Seq(All)
        /\ Len(D \o Middleware(route)) = 3 + Len(Middleware(route))
        /\ \A i \in 1..(3 + Len(Middleware(route))) :
              (D \o Middleware(route))[i] =
                IF i <= 3 THEN D[i] ELSE Middleware(route)[i - 3]
    <3>1. /\ D \o Middleware(route) \in Seq(All)
          /\ Len(D \o Middleware(route)) = Len(D) + Len(Middleware(route))
          /\ \A i \in 1..(Len(D) + Len(Middleware(route))) :
                (D \o Middleware(route))[i] =
                  IF i <= Len(D) THEN D[i] ELSE Middleware(route)[i - Len(D)]
      BY <2>1, ConcatProperties
    <3> QED  BY <2>1, <3>1
  <2> QED  BY <1>3, <2>1, <2>2 DEF All
<1>6. \A i, j \in 1..Len(Chain(route)) : Chain(route)[i] = Chain(route)[j] => i = j
  <2> SUFFICES ASSUME NEW i \in 1..Len(Chain(route)), NEW j \in 1..Len(Chain(route)),
                      Chain(route)[i] = Chain(route)[j]
               PROVE  i = j
    OBVIOUS
  <2>1. CASE i > 3 /\ j > 3
    <3>1. i - 3 \in 1..Len(Middleware(route)) /\ j - 3 \in 1..Len(Middleware(route))
      BY <1>2, <1>4, <2>1
    <3>2. Middleware(route)[i - 3] = Middleware(route)[j - 3]
      BY <1>4, <2>1
    <3>3. i - 3 = j - 3
      BY <1>0, <3>1, <3>2
    <3>4. i \in Int /\ j \in Int
      BY <1>2, <1>4
    <3> QED  BY <3>3, <3>4
  <2>2. CASE i <= 3 /\ j <= 3
    <3>1. i \in {1, 2, 3} /\ j \in {1, 2, 3}
      BY <1>2, <1>4, <2>2
    <3> QED  BY <1>1, <1>4, <3>1
  <2>3. CASE i <= 3 /\ j > 3
    <3>1. i \in {1, 2, 3} /\ j - 3 \in 1..Len(Middleware(route))
      BY <1>2, <1>4, <2>3
    <3>2. Chain(route)[i] = D[i] /\ Chain(route)[j] = Middleware(route)[j - 3]
      BY <1>4, <2>3
    <3>3. Chain(route)[i] \in {"Logger", "Recovery", "Trace"}
      BY <1>1, <3>1, <3>2
    <3>4. Chain(route)[j] \in {"Metrics", "Jwt", "Ratelimit"}
      BY <1>2, <3>1, <3>2
    <3> QED  BY <3>3, <3>4
  <2>4. CASE i > 3 /\ j <= 3
    <3>1. j \in {1, 2, 3} /\ i - 3 \in 1..Len(Middleware(route))
      BY <1>2, <1>4, <2>4
    <3>2. Chain(route)[j] = D[j] /\ Chain(route)[i] = Middleware(route)[i - 3]
      BY <1>4, <2>4
    <3>3. Chain(route)[j] \in {"Logger", "Recovery", "Trace"}
      BY <1>1, <3>1, <3>2
    <3>4. Chain(route)[i] \in {"Metrics", "Jwt", "Ratelimit"}
      BY <1>2, <3>1, <3>2
    <3> QED  BY <3>3, <3>4
  <2>5. (i > 3 \/ i <= 3) /\ (j > 3 \/ j <= 3)
    BY <1>2, <1>4
  <2> QED  BY <2>1, <2>2, <2>3, <2>4, <2>5, Zenon
<1>7. N(route) \in 4..7
  <2>1. Len(Chain(route)) = Len(Middleware(route)) + 3 /\ Len(Middleware(route)) \in 0..3
    BY <1>2, <1>4
  <2>2. \A n \in 0..3 : n + 3 + 1 \in 4..7
    OBVIOUS
  <2> QED  BY <2>1, <2>2, Zenon DEF N
<1>8. Chain(route)[1] = "Logger" /\ Chain(route)[2] = "Recovery"
      /\ Chain(route)[3] = "Trace"
  <2>1. 1 \in 1..Len(Chain(route)) /\ 2 \in 1..Len(Chain(route))
        /\ 3 \in 1..Len(Chain(route))
    BY <1>2, <1>4
  <2>2. Chain(route)[1] = D[1] /\ Chain(route)[2] = D[2] /\ Chain(route)[3] = D[3]
    BY <1>4, <2>1
  <2> QED  BY <1>1, <2>2
<1> QED  BY <1>4, <1>6, <1>7, <1>8 DEF N

(* Sequences as stacks.                                                    *)
LEMMA PrefixIs ==
  ASSUME NEW S, NEW s \in Seq(S), NEW n \in Nat, \A i \in 1..n : s[i] \in S
  PROVE  /\ SubSeq(s, 1, n) \in Seq(S) /\ Len(SubSeq(s, 1, n)) = n
         /\ \A i \in 1..n : SubSeq(s, 1, n)[i] = s[i]
<1>1. /\ SubSeq(s, 1, n) \in Seq(S)
      /\ Len(SubSeq(s, 1, n)) = IF 1 <= n THEN n - 1 + 1 ELSE 0
      /\ \A i \in 1..(n - 1 + 1) : SubSeq(s, 1, n)[i] = s[1 + i - 1]
  <2>1. 1 \in Int /\ n \in Int
    OBVIOUS
  <2> QED  BY <2>1, SubSeqProperties
<1> DEFINE t == SubSeq(s, 1, n)
<1>2. t \in Seq(S) /\ Len(t) = (IF 1 <= n THEN n - 1 + 1 ELSE 0)
      /\ \A i \in 1..(n - 1 + 1) : t[i] = s[1 + i - 1]
  BY <1>1
<1> HIDE DEF t
<1>3. t \in Seq(S) /\ Len(t) = n /\ \A i \in 1..n : t[i] = s[i]
  BY <1>2
<1> QED  BY <1>3 DEF t

LEMMA PopIs ==
  ASSUME NEW S, NEW s \in Seq(S), Len(s) >= 1
  PROVE  LET t == SubSeq(s, 1, Len(s) - 1) IN
         t \in Seq(S) /\ Len(t) = Len(s) - 1 /\ \A i \in 1..Len(t) : t[i] = s[i]
<1>1. Len(s) \in Nat /\ Len(s) - 1 \in Nat
  BY LenProperties
<1>2. \A i \in 1..(Len(s) - 1) : s[i] \in S
  BY <1>1, ElementOfSeq
<1> QED  BY <1>1, <1>2, PrefixIs

LEMMA PushIs ==
  ASSUME NEW S, NEW s \in Seq(S), NEW h \in S
  PROVE  LET t == Append(s, h) IN
         /\ t \in Seq(S) /\ Len(t) = Len(s) + 1 /\ t[Len(t)] = h
         /\ \A i \in 1..Len(s) : t[i] = s[i]
  OBVIOUS
-----------------------------------------------------------------------------
(* How Sound survives what a step does to a record.                        *)

Stack == {"Logger", "Recovery", "Trace", "Metrics", "Jwt", "Ratelimit", "handler"}

(* r and s differ in the stack, the index and the program counter only.    *)
SameRest(r, s) ==
  /\ s.status = r.status /\ s.claims = r.claims /\ s.route = r.route /\ s.path = r.path
  /\ s.ops = r.ops /\ s.panic = r.panic /\ s.counted = r.counted /\ s.logged = r.logged

LEMMA FieldsOf ==
  ASSUME NEW r \in Context
  PROVE  /\ r.route \in Routes /\ r.index \in Nat
         /\ r.stack \in Seq(Stack) /\ Len(r.stack) \in Nat
         /\ Len(H(r)) = N(r.route) /\ H(r)[1] = "Logger" /\ H(r)[2] = "Recovery"
         /\ H(r)[3] = "Trace" /\ H(r)[N(r.route)] \in {"handler", "noRoute"}
         /\ \A i \in 1..(N(r.route) - 1) : H(r)[i] \in Stack
         /\ \A i \in 1..(N(r.route) - 1) :
               H(r)[i] \in {"Logger", "Recovery", "Trace", "Metrics", "Jwt", "Ratelimit"}
         /\ \A i, j \in 1..N(r.route) : H(r)[i] = H(r)[j] => i = j
         /\ N(r.route) \in 4..7
<1> DEFINE Six == {"Logger", "Recovery", "Trace", "Metrics", "Jwt", "Ratelimit"}
           C == Chain(r.route)
           last == IF r.route = "noRoute" THEN "noRoute" ELSE "handler"
           n == N(r.route)
<1>1. r.route \in Routes /\ r.index \in Nat /\ r.stack \in Seq(Stack)
  BY DEF Context, Stack
<1>2. Len(r.stack) \in Nat
  BY <1>1, LenProperties
<1>3. /\ C \in Seq(Six) /\ n \in 4..7 /\ Len(C) = n - 1
      /\ C[1] = "Logger" /\ C[2] = "Recovery" /\ C[3] = "Trace"
      /\ \A i, j \in 1..Len(C) : C[i] = C[j] => i = j
  <2>1. Len(C) \in Nat
    BY <1>1, ChainIs, LenProperties
  <2> QED  BY <1>1, <2>1, ChainIs
<1>4. \A i \in 1..(n - 1) : C[i] \in Six
  BY <1>3, ElementOfSeq
<1>5. H(r) = Append(C, last) /\ last \in {"handler", "noRoute"}
  BY DEF H, HandlersOf
<1> HIDE DEF C, last, n
<1>6. /\ Len(H(r)) = n /\ H(r)[n] = last
      /\ \A i \in 1..(n - 1) : H(r)[i] = C[i]
  <2>1. C \in Seq(Six \cup {last}) /\ last \in Six \cup {last}
    BY <1>3
  <2> HIDE DEF Six
  <2> QED  BY <1>3, <1>5, <2>1
<1>7. \A i \in 1..(n - 1) : H(r)[i] \in Six
  BY <1>4, <1>6
<1>8. H(r)[1] = "Logger" /\ H(r)[2] = "Recovery" /\ H(r)[3] = "Trace"
  BY <1>3, <1>6
<1>9. \A i, j \in 1..n : H(r)[i] = H(r)[j] => i = j
  <2> SUFFICES ASSUME NEW i \in 1..n, NEW j \in 1..n, H(r)[i] = H(r)[j]
               PROVE  i = j
    OBVIOUS
  <2>1. (i \in 1..(n - 1) \/ i = n) /\ (j \in 1..(n - 1) \/ j = n)
    BY <1>3
  <2>2. \A k \in 1..(n - 1) : H(r)[k] # H(r)[n]
    BY <1>5, <1>6, <1>7
  <2>3. CASE i \in 1..(n - 1) /\ j \in 1..(n - 1)
    BY <1>3, <1>6, <2>3
  <2> QED  BY <2>1, <2>2, <2>3
<1>10. Six \subseteq Stack
  BY DEF Stack
<1> QED  BY <1>1, <1>2, <1>3, <1>5, <1>6, <1>7, <1>8, <1>9, <1>10 DEF n

(* The updates that the steps are made of.                                 *)
LEMMA ReturnIs ==
  ASSUME NEW r \in Context
  PROVE  LET s == Return(r) IN
         /\ s \in Context /\ SameRest(r, s)
         /\ s.pc = "loop" /\ s.index = r.index + 1 /\ s.stack = r.stack
<1> DEFINE s == Return(r)
<1>1. r.index + 1 \in Nat
  BY FieldsOf
<1>2. s = [r EXCEPT !.pc = "loop", !.index = r.index + 1]
  BY DEF Return, Context
<1> HIDE DEF s
<1>3. s \in Context /\ SameRest(r, s)
      /\ s.pc = "loop" /\ s.index = r.index + 1 /\ s.stack = r.stack
  BY <1>1, <1>2 DEF Context, SameRest
<1> QED  BY <1>3 DEF s

LEMMA AbortedIs ==
  ASSUME NEW r \in Context
  PROVE  LET s == Aborted(r) IN
         /\ s \in Context /\ SameRest(r, s)
         /\ s.pc = r.pc /\ s.index = 63 /\ s.stack = r.stack
<1> DEFINE s == Aborted(r)
<1>1. s = [r EXCEPT !.index = 63]
  BY DEF Aborted, abortIndex, Context
<1> HIDE DEF s
<1>2. s \in Context /\ SameRest(r, s) /\ s.pc = r.pc /\ s.index = 63 /\ s.stack = r.stack
  BY <1>1 DEF Context, SameRest
<1> QED  BY <1>2 DEF s

LEMMA PopRecordIs ==
  ASSUME NEW r \in Context, Len(r.stack) >= 1
  PROVE  LET s == Pop(r) IN
         /\ s \in Context /\ SameRest(r, s)
         /\ s.pc = r.pc /\ s.index = r.index
         /\ s.stack = SubSeq(r.stack, 1, Len(r.stack) - 1)
<1> DEFINE s == Pop(r)
<1>1. SubSeq(r.stack, 1, Len(r.stack) - 1) \in Seq(Stack)
  BY FieldsOf, PopIs
<1>2. s = [r EXCEPT !.stack = SubSeq(r.stack, 1, Len(r.stack) - 1)]
  BY DEF Pop, Context
<1> HIDE DEF s
<1>3. s \in Context /\ SameRest(r, s) /\ s.pc = r.pc /\ s.index = r.index
      /\ s.stack = SubSeq(r.stack, 1, Len(r.stack) - 1)
  BY <1>1, <1>2 DEF Context, SameRest, Stack
<1> QED  BY <1>3 DEF s

LEMMA StatusIs ==
  ASSUME NEW r \in Context, NEW st \in Statuses
  PROVE  LET s == [r EXCEPT !.status = st] IN
         /\ s \in Context
         /\ s.pc = r.pc /\ s.index = r.index /\ s.stack = r.stack /\ s.status = st
         /\ s.claims = r.claims /\ s.route = r.route /\ s.path = r.path /\ s.ops = r.ops
         /\ s.panic = r.panic /\ s.counted = r.counted /\ s.logged = r.logged
  BY DEF Context

(* The loop calls a handler that calls Next.                               *)
LEMMA NextKeeps ==
  ASSUME NEW r \in Context, Sound(r), Going(r),
         NEW h, h = H(r)[r.index + 1], h \notin {"handler", "noRoute"}
  PROVE  LET s == NextOf(r, h) IN
         /\ s \in Context /\ Sound(s) /\ SameRest(r, s)
         /\ s.pc = r.pc /\ s.index = r.index + 1 /\ s.stack = Append(r.stack, h)
<1> DEFINE s == NextOf(r, h)
<1>1. r.index + 1 \in 1..(N(r.route) - 1) /\ h \in Stack
  BY FieldsOf DEF Going
<1>2. s \in Context /\ SameRest(r, s) /\ s.pc = "loop" /\ r.pc = "loop"
      /\ s.index = r.index + 1 /\ s.stack = Append(r.stack, h)
  <2>1. Append(r.stack, h) \in Seq(Stack) /\ r.index + 1 \in Nat
    BY <1>1, FieldsOf, PushIs
  <2>2. s = [r EXCEPT !.stack = Append(r.stack, h), !.index = r.index + 1]
    BY DEF NextOf, Context
  <2> HIDE DEF s
  <2> QED  BY <2>1, <2>2 DEF Context, SameRest, Going, Stack
<1>3. /\ Len(s.stack) = Len(r.stack) + 1 /\ s.stack[Len(s.stack)] = h
      /\ \A i \in 1..Len(r.stack) : s.stack[i] = r.stack[i]
  BY <1>1, <1>2, FieldsOf, PushIs
<1>4. H(s) = H(r) /\ s.route = r.route
  BY <1>2 DEF H, SameRest
<1> HIDE DEF s
<1>5. \A i \in 1..Len(s.stack) : i \in 1..Len(r.stack) \/ i = Len(s.stack)
  BY <1>3, FieldsOf
<1>0. \A i \in 1..Len(r.stack) : i \in 1..Len(s.stack)
  BY <1>3, FieldsOf
<1>6. \A i \in 1..Len(r.stack) :
        \E k \in 1..N(r.route) : r.stack[i] = H(r)[k] /\ k <= r.index
  BY DEF Sound, StackInv
<1>7. \A i \in 1..Len(r.stack) : r.stack[i] # h
  BY <1>1, <1>6, FieldsOf
<1>8. StackInv(s)
  <2>1. \A i \in 1..Len(s.stack) : \E k \in 1..N(r.route) :
          s.stack[i] = H(s)[k] /\ (Going(s) => k <= s.index)
    <3> TAKE i \in 1..Len(s.stack)
    <3>1. CASE i \in 1..Len(r.stack)
      BY <1>2, <1>3, <1>4, <1>6, <3>1, FieldsOf
    <3>2. CASE i = Len(s.stack)
      <4>1. r.index + 1 \in 1..N(r.route)
        BY <1>1, FieldsOf
      <4> QED  BY <1>2, <1>3, <1>4, <3>2, <4>1, FieldsOf
    <3> QED  BY <1>5, <3>1, <3>2
  <2>2. \A i, j \in 1..Len(s.stack) : s.stack[i] = s.stack[j] => i = j
    <3> TAKE i \in 1..Len(s.stack), j \in 1..Len(s.stack)
    <3>1. \A k, l \in 1..Len(r.stack) : r.stack[k] = r.stack[l] => k = l
      BY DEF Sound, StackInv
    <3>2. CASE i \in 1..Len(r.stack) /\ j \in 1..Len(r.stack)
      BY <1>3, <3>1, <3>2
    <3>3. CASE i = Len(s.stack) /\ j \in 1..Len(r.stack)
      BY <1>3, <1>7, <3>3
    <3>4. CASE i \in 1..Len(r.stack) /\ j = Len(s.stack)
      BY <1>3, <1>7, <3>4
    <3> QED  BY <1>5, <3>2, <3>3, <3>4
  <2>3. Len(s.stack) >= 1 => s.stack[1] = "Logger"
    <3>1. CASE Len(r.stack) = 0
      <4>1. r.index = 0
        BY <1>1, <3>1, FieldsOf DEF Sound, PcInv, Going
      <4> QED  BY <1>3, <3>1, <4>1, FieldsOf
    <3>2. CASE Len(r.stack) >= 1
      BY <1>3, <3>2, FieldsOf DEF Sound, StackInv
    <3> QED  BY <3>1, <3>2, FieldsOf
  <2>4. Len(s.stack) >= 2 => s.stack[2] = "Recovery"
    <3>1. CASE Len(r.stack) = 1
      <4>1. r.index = 1
        BY <1>1, <3>1, FieldsOf DEF Sound, PcInv, Going
      <4> QED  BY <1>3, <3>1, <4>1, FieldsOf
    <3>2. CASE Len(r.stack) >= 2
      BY <1>3, <3>2, FieldsOf DEF Sound, StackInv
    <3>3. ASSUME Len(s.stack) >= 2  PROVE Len(r.stack) = 1 \/ Len(r.stack) >= 2
      <4>1. \A n \in Nat : n + 1 >= 2 => n = 1 \/ n >= 2
        OBVIOUS
      <4>2. Len(r.stack) + 1 >= 2
        BY <1>3, <3>3
      <4> QED  BY <4>1, <4>2, FieldsOf, Zenon
    <3> QED  BY <3>1, <3>2, <3>3
  <2>5. \A i \in 1..Len(s.stack) : s.stack[i] # "handler"
    BY <1>3, <1>5 DEF Sound, PcInv, In
  <2> QED  BY <1>4, <2>1, <2>2, <2>3, <2>4, <2>5 DEF StackInv
<1>9. PcInv(s)
  <2>1. /\ Len(r.stack) <= r.index /\ ~In(r, "handler")
        /\ r.index >= 1 => Len(r.stack) >= 1
    BY DEF Sound, PcInv
  <2>2. ~In(s, "handler")
    BY <1>3, <1>5, <2>1 DEF In
  <2>3. /\ Len(s.stack) <= s.index /\ Len(s.stack) >= 1
        /\ s.index >= 2 => Len(s.stack) >= 2
    BY <1>2, <1>3, <2>1, FieldsOf
  <2> QED  BY <1>2, <2>2, <2>3 DEF PcInv
<1>10. LogInv(s)
  BY <1>1, <1>2, <1>3, FieldsOf DEF Sound, LogInv, Going, Over, SameRest
<1>11. CountInv(s)
  <2>1. s.counted = <<>>
    BY <1>2, FieldsOf DEF Sound, CountInv, Going, Over, SameRest
  <2>2. s.panic = "none" /\ r.panic = "none"
    BY <1>2, FieldsOf DEF Sound, LogInv, Going, Over, SameRest
  <2>3. ASSUME H(s)[4] = "Metrics", s.path = "other", s.index >= 4  PROVE In(s, "Metrics")
    <3>1. CASE r.index >= 4
      <4>1. In(r, "Metrics")
        BY <1>2, <1>4, <2>1, <2>2, <2>3, <3>1 DEF Sound, CountInv, SameRest
      <4> QED  BY <1>3, <1>0, <4>1 DEF In
    <3>2. CASE r.index = 3
      <4>1. h = "Metrics"
        BY <1>4, <2>3, <3>2
      <4> QED  BY <1>3, <4>1, FieldsOf DEF In
    <3> QED  BY <1>2, <2>3, <3>1, <3>2, FieldsOf
  <2> QED  BY <2>1, <2>2, <2>3 DEF CountInv
<1> QED  BY <1>2, <1>8, <1>9, <1>10, <1>11 DEF Sound, s

(* The stack of s is that of r, and the loop is not going on in s.         *)
LEMMA SameStack ==
  ASSUME NEW r \in Context, NEW s \in Context, StackInv(r), ~Going(s),
         s.stack = r.stack, s.route = r.route /\ s.path = r.path
  PROVE  StackInv(s) /\ \A h : In(s, h) <=> In(r, h)
  BY DEF StackInv, In, H

(* The handler on top is popped.                                           *)
LEMMA PoppedStack ==
  ASSUME NEW r \in Context, NEW s \in Context, StackInv(r), ~Going(s),
         Len(r.stack) >= 1, s.stack = SubSeq(r.stack, 1, Len(r.stack) - 1),
         s.route = r.route /\ s.path = r.path
  PROVE  /\ StackInv(s) /\ Len(s.stack) = Len(r.stack) - 1
         /\ \A h : In(s, h) => In(r, h)
         /\ \A h : In(s, h) => h # r.stack[Len(r.stack)]
         /\ \A h : In(r, h) /\ h # r.stack[Len(r.stack)] => In(s, h)
<1>1. /\ Len(s.stack) = Len(r.stack) - 1
      /\ \A i \in 1..Len(s.stack) : s.stack[i] = r.stack[i]
  BY FieldsOf, PopIs
<1>2. Len(r.stack) \in Nat /\ H(s) = H(r)
  BY FieldsOf DEF H
<1>3. \A i \in 1..Len(s.stack) :
        i \in 1..Len(r.stack) /\ i # Len(r.stack) /\ s.stack[i] = r.stack[i]
  BY <1>1, <1>2
<1>4. \A i \in 1..Len(r.stack) : i # Len(r.stack) => i \in 1..Len(s.stack)
  BY <1>1, <1>2
<1>5. Len(r.stack) \in 1..Len(r.stack)
  BY <1>2
<1>6. StackInv(s)
  <2>1. \A i \in 1..Len(s.stack) : s.stack[i] # "handler"
    BY <1>3 DEF StackInv
  <2>2. /\ Len(s.stack) >= 1 => 1 \in 1..Len(s.stack) /\ Len(r.stack) >= 1
        /\ Len(s.stack) >= 2 => 2 \in 1..Len(s.stack) /\ Len(r.stack) >= 2
    BY <1>1, <1>2
  <2>3. \A i \in 1..Len(s.stack) : \E k \in 1..N(r.route) :
          s.stack[i] = H(s)[k] /\ (Going(s) => k <= s.index)
    BY <1>2, <1>3 DEF StackInv
  <2>4. \A i, j \in 1..Len(s.stack) : s.stack[i] = s.stack[j] => i = j
    <3>1. \A k, l \in 1..Len(r.stack) : r.stack[k] = r.stack[l] => k = l
      BY DEF StackInv
    <3> QED  BY <1>3, <3>1
  <2>5. /\ Len(s.stack) >= 1 => s.stack[1] = "Logger"
        /\ Len(s.stack) >= 2 => s.stack[2] = "Recovery"
    BY <1>3, <2>2 DEF StackInv
  <2> QED  BY <2>1, <2>3, <2>4, <2>5 DEF StackInv
<1>7. \A h : In(s, h) => In(r, h) /\ h # r.stack[Len(r.stack)]
  <2> SUFFICES ASSUME NEW i \in 1..Len(s.stack)
               PROVE  In(r, s.stack[i]) /\ s.stack[i] # r.stack[Len(r.stack)]
    BY DEF In
  <2>1. i \in 1..Len(r.stack) /\ i # Len(r.stack) /\ s.stack[i] = r.stack[i]
    BY <1>3
  <2>2. r.stack[i] = r.stack[Len(r.stack)] => i = Len(r.stack)
    BY <1>5, <2>1 DEF StackInv
  <2> QED  BY <2>1, <2>2 DEF In
<1>8. \A h : In(r, h) /\ h # r.stack[Len(r.stack)] => In(s, h)
  BY <1>3, <1>4 DEF In
<1> QED  BY <1>1, <1>6, <1>7, <1>8

(* The loop calls a handler that answers and aborts.                       *)
LEMMA AbortKeeps ==
  ASSUME NEW r \in Context, Sound(r), Going(r), r.index >= 3,
         H(r)[r.index + 1] # "Metrics", NEW st \in Statuses
  PROVE  LET s == Return(Aborted([r EXCEPT !.status = st])) IN
         /\ s \in Context /\ Sound(s) /\ ~Going(s) /\ s.pc = "loop"
         /\ s.stack = r.stack /\ s.route = r.route /\ ~In(s, "handler")
<1> DEFINE s == Return(Aborted([r EXCEPT !.status = st]))
<1>1. /\ s \in Context /\ s.pc = "loop" /\ s.index = 64
      /\ s.stack = r.stack /\ s.status = st /\ s.route = r.route /\ s.path = r.path
      /\ s.panic = r.panic /\ s.counted = r.counted /\ s.logged = r.logged
  <2> DEFINE r1 == [r EXCEPT !.status = st]
             r2 == Aborted(r1)
  <2>1. r1 \in Context /\ r1.stack = r.stack /\ r1.status = st
        /\ r1.route = r.route /\ r1.path = r.path
        /\ r1.panic = r.panic /\ r1.counted = r.counted /\ r1.logged = r.logged
    BY StatusIs
  <2> HIDE DEF r1
  <2>2. r2 \in Context /\ SameRest(r1, r2) /\ r2.index = 63 /\ r2.stack = r1.stack
    BY <2>1, AbortedIs
  <2> HIDE DEF r2
  <2>3. /\ Return(r2) \in Context /\ SameRest(r2, Return(r2)) /\ Return(r2).pc = "loop"
        /\ Return(r2).index = r2.index + 1 /\ Return(r2).stack = r2.stack
    BY <2>2, ReturnIs
  <2>4. s = Return(r2)
    BY DEF r1, r2
  <2> HIDE DEF s
  <2> QED  BY <2>1, <2>2, <2>3, <2>4 DEF SameRest
<1> HIDE DEF s
<1>2. Over(s) /\ ~Going(s)
  <2>1. N(r.route) \in 4..7
    BY FieldsOf
  <2>2. 64 >= N(r.route) /\ ~(64 < N(r.route))
    BY <2>1
  <2> QED  BY <1>1, <2>2 DEF Over, Going
<1>3. StackInv(s) /\ \A h : In(s, h) <=> In(r, h)
  BY <1>1, <1>2, SameStack DEF Sound
<1>4. Len(r.stack) >= 2 /\ ~In(r, "handler") /\ r.panic = "none" /\ r.pc = "loop"
      /\ r.logged = <<>> /\ r.counted = <<>>
  BY FieldsOf DEF Sound, PcInv, LogInv, CountInv, Going, Over
<1>5. PcInv(s)
  BY <1>1, <1>2, <1>3, <1>4 DEF PcInv, Going
<1>6. LogInv(s)
  <2>1. s.stack # <<>>
    BY <1>1, <1>4
  <2> QED  BY <1>1, <1>2, <1>4, <2>1 DEF LogInv, Going
<1>7. CountInv(s)
  <2>1. ASSUME H(r)[4] = "Metrics", r.path = "other"  PROVE In(r, "Metrics")
    <3>1. r.index # 3
      BY <2>1
    <3>2. r.index >= 4
      BY <3>1, FieldsOf
    <3> QED  BY <1>4, <2>1, <3>2 DEF Sound, CountInv
  <2>2. H(s) = H(r)
    BY <1>1 DEF H
  <2> QED  BY <1>1, <1>2, <1>3, <1>4, <2>1, <2>2 DEF CountInv
<1> QED  BY <1>1, <1>2, <1>3, <1>4, <1>5, <1>6, <1>7 DEF Sound, s

(* Jwt returns.                                                            *)
LEMMA AcceptKeeps ==
  ASSUME NEW r \in Context, NEW s \in Context, Sound(r), Going(r),
         H(r)[r.index + 1] = "Jwt",
         s.pc = "loop", s.index = r.index + 1, s.stack = r.stack,
         s.route = r.route, s.path = r.path, s.status = r.status,
         s.panic = r.panic, s.counted = r.counted, s.logged = r.logged
  PROVE  Sound(s)
<1>1. r.pc = "loop"
  BY DEF Going
<1>2. H(s) = H(r)
  BY DEF H
<1>3. r.index + 1 \in 4..(N(r.route) - 1)
  <2>1. r.index + 1 \in 1..N(r.route)
    BY FieldsOf DEF Going
  <2>2. r.index + 1 # N(r.route) /\ r.index + 1 \notin {1, 2, 3}
    BY FieldsOf
  <2> QED  BY <2>1, <2>2, FieldsOf
<1>4. StackInv(s)
  BY <1>1, <1>2, FieldsOf DEF Sound, StackInv, Going
<1>5. PcInv(s)
  BY <1>1, <1>3, FieldsOf DEF Sound, PcInv, Going, In, Over
<1>6. LogInv(s)
  BY <1>1, <1>3, FieldsOf DEF Sound, LogInv, Going, Over
<1>7. CountInv(s)
  <2>1. s.counted = <<>> /\ r.panic = "none" /\ r.counted = <<>>
    BY FieldsOf DEF Sound, CountInv, LogInv, Going, Over
  <2>2. ASSUME H(s)[4] = "Metrics", s.path = "other"  PROVE In(s, "Metrics")
    <3>1. r.index # 3
      BY <1>2, <2>2
    <3>2. r.index >= 4
      BY <1>3, <3>1, FieldsOf
    <3> QED  BY <1>2, <2>1, <2>2, <3>2 DEF Sound, CountInv, In
  <2> QED  BY <2>1, <2>2 DEF CountInv
<1> QED  BY <1>4, <1>5, <1>6, <1>7 DEF Sound

(* A panic in a handler below Recovery, or in Metrics after its Next.      *)
LEMMA PanicKeeps ==
  ASSUME NEW r \in Context, NEW s \in Context, Sound(r),
         \/ Going(r) /\ r.index >= 3
         \/ r.pc \in {"body", "wait", "conn"}
         \/ Over(r) /\ In(r, "Metrics"),
         s.pc = "unwind", s.panic # "none", s.stack = r.stack, s.route = r.route,
         s.path = r.path, s.counted = r.counted, s.logged = r.logged
  PROVE  Sound(s)
<1>1. Len(r.stack) >= 2 /\ r.counted = <<>> /\ r.logged = <<>>
  <2>1. CASE Over(r) /\ In(r, "Metrics")
    <3>1. PICK i \in 1..Len(r.stack) : r.stack[i] = "Metrics"
      BY <2>1 DEF In
    <3>2. Len(r.stack) >= 1
      BY <3>1, FieldsOf
    <3>3. i # 1
      BY <3>1, <3>2 DEF Sound, StackInv
    <3>4. Len(r.stack) >= 2
      BY <3>1, <3>3, FieldsOf
    <3> QED  BY <2>1, <3>2, <3>4 DEF Sound, LogInv, CountInv
  <2>2. CASE ~Over(r)
    BY <2>2, FieldsOf DEF Sound, PcInv, CountInv, LogInv, Going, Over
  <2>3. ~Over(r) \/ (Over(r) /\ In(r, "Metrics"))
    BY FieldsOf DEF Going, Over
  <2> QED  BY <2>1, <2>2, <2>3
<1>2. ~Going(s) /\ ~Over(s)
  BY DEF Going, Over
<1>3. StackInv(s)
  BY <1>2, SameStack DEF Sound
<1>4. PcInv(s)
  BY <1>1, <1>2 DEF PcInv
<1>5. LogInv(s)
  BY <1>1, <1>2 DEF LogInv
<1>6. CountInv(s)
  BY <1>1 DEF CountInv
<1> QED  BY <1>3, <1>4, <1>5, <1>6 DEF Sound

(* The application's handler begins, or goes on.                           *)
LEMMA WorkKeeps ==
  ASSUME NEW r \in Context, NEW s \in Context, Sound(r), Going(r),
         H(r)[r.index + 1] = "handler", SameRest(r, s),
         s.pc = "body", s.index = r.index, s.stack = Append(r.stack, "handler")
  PROVE  Sound(s) /\ r.index = N(r.route) - 1
<1>1. r.index = N(r.route) - 1
  <2>1. r.index + 1 \in 1..N(r.route)
    BY FieldsOf DEF Going
  <2>2. r.index + 1 \notin 1..(N(r.route) - 1)
    BY FieldsOf
  <2> QED  BY <2>1, <2>2, FieldsOf
<1>2. /\ Len(s.stack) = Len(r.stack) + 1 /\ s.stack[Len(s.stack)] = "handler"
      /\ \A i \in 1..Len(r.stack) : s.stack[i] = r.stack[i]
  <2>1. "handler" \in Stack
    BY DEF Stack
  <2> QED  BY <2>1, FieldsOf, PushIs
<1>3. ~Going(s) /\ ~Over(s) /\ H(s) = H(r) /\ r.panic = "none" /\ Len(r.stack) >= 2
      /\ r.counted = <<>> /\ r.logged = <<>> /\ ~In(r, "handler")
      /\ H(r)[N(r.route)] = "handler"
  BY <1>1, FieldsOf DEF Going, Over, H, SameRest, Sound, PcInv, LogInv, CountInv
<1>10. s.route = r.route
  BY DEF SameRest
<1>4. \A i \in 1..Len(s.stack) : i \in 1..Len(r.stack) \/ i = Len(s.stack)
  BY <1>2, FieldsOf
<1>5. \A i \in 1..Len(r.stack) : i \in 1..Len(s.stack)
  BY <1>2, FieldsOf
<1>6. StackInv(s)
  <2>1. \A i \in 1..Len(s.stack) : \E k \in 1..N(r.route) : s.stack[i] = H(s)[k]
    <3> TAKE i \in 1..Len(s.stack)
    <3>1. CASE i \in 1..Len(r.stack)
      BY <1>2, <1>3, <3>1 DEF Sound, StackInv
    <3>2. CASE i = Len(s.stack)
      <4>1. N(r.route) \in 1..N(r.route)
        <5>1. N(r.route) \in 4..7
          BY FieldsOf
        <5>2. \A n \in 4..7 : n \in 1..n
          OBVIOUS
        <5> QED  BY <5>1, <5>2, Zenon
      <4> QED  BY <1>2, <1>3, <3>2, <4>1, FieldsOf
    <3> QED  BY <1>4, <3>1, <3>2
  <2>2. \A i, j \in 1..Len(s.stack) : s.stack[i] = s.stack[j] => i = j
    BY <1>2, <1>3, <1>4 DEF Sound, StackInv, In
  <2>3. s.stack[1] = "Logger" /\ s.stack[2] = "Recovery"
    <3>1. 1 \in 1..Len(r.stack) /\ 2 \in 1..Len(r.stack) /\ Len(r.stack) >= 1
      BY <1>3, FieldsOf
    <3> QED  BY <1>2, <1>3, <3>1 DEF Sound, StackInv
  <2>4. \A i \in 1..Len(s.stack) : s.stack[i] = "handler" => i = Len(s.stack)
    BY <1>2, <1>3, <1>4 DEF In
  <2> QED  BY <1>3, <1>10, <2>1, <2>2, <2>3, <2>4 DEF StackInv
<1>7. PcInv(s)
  <2>1. Len(s.stack) >= 3
    BY <1>2, <1>3, FieldsOf
  <2> QED  BY <1>1, <1>2, <1>3, <1>10, <2>1 DEF PcInv
<1>8. LogInv(s)
  BY <1>3 DEF LogInv, SameRest
<1>9. CountInv(s)
  <2>1. In(r, "Metrics") => In(s, "Metrics")
    BY <1>2, <1>5 DEF In
  <2> QED  BY <1>3, <2>1 DEF CountInv, Sound, SameRest
<1> QED  BY <1>1, <1>6, <1>7, <1>8, <1>9 DEF Sound

LEMMA BodyKeeps ==
  ASSUME NEW r \in Context, NEW s \in Context, Sound(r),
         r.pc \in {"body", "wait", "conn"}, s.pc \in {"body", "wait", "conn"},
         s.stack = r.stack, s.index = r.index, s.route = r.route /\ s.path = r.path,
         s.status = r.status,
         s.panic = r.panic, s.counted = r.counted, s.logged = r.logged
  PROVE  Sound(s)
<1>1. ~Going(s) /\ ~Over(s) /\ ~Over(r)
  BY DEF Going, Over
<1>2. StackInv(s) /\ \A h : In(s, h) <=> In(r, h)
  BY <1>1, SameStack DEF Sound
<1>3. PcInv(s)
  BY <1>1, <1>2 DEF Sound, PcInv
<1>4. LogInv(s)
  BY <1>1 DEF Sound, LogInv
<1>5. CountInv(s)
  <2>1. H(s) = H(r)
    BY DEF H
  <2> QED  BY <1>1, <1>2, <2>1 DEF Sound, CountInv
<1> QED  BY <1>2, <1>3, <1>4, <1>5 DEF Sound

(* It answers.                                                             *)
LEMMA ReplyKeeps ==
  ASSUME NEW r \in Context, NEW s \in Context, Sound(r), r.pc = "body",
         s.pc = "loop", s.index = r.index + 1, s.route = r.route /\ s.path = r.path,
         s.stack = SubSeq(r.stack, 1, Len(r.stack) - 1),
         s.panic = r.panic, s.counted = r.counted, s.logged = r.logged
  PROVE  Sound(s) /\ ~Going(s) /\ ~In(s, "handler")
         /\ \A h : In(r, h) /\ h # "handler" => In(s, h)
<1>1. Len(r.stack) >= 3 /\ r.stack[Len(r.stack)] = "handler" /\ r.index = N(r.route) - 1
      /\ r.logged = <<>> /\ r.counted = <<>> /\ r.panic = "none"
  BY FieldsOf DEF Sound, PcInv, LogInv, CountInv, Over
<1>2. s.index = N(r.route) /\ N(r.route) \in Nat
  BY <1>1, FieldsOf
<1>3. ~Going(s) /\ Over(s)
  BY <1>2 DEF Going, Over
<1>4. /\ StackInv(s) /\ Len(s.stack) = Len(r.stack) - 1 /\ ~In(s, "handler")
      /\ \A h : In(s, h) => In(r, h)
      /\ \A h : In(r, h) /\ h # "handler" => In(s, h)
  <2>1. Len(r.stack) >= 1
    BY <1>1, FieldsOf
  <2> QED  BY <1>1, <1>3, <2>1, PoppedStack DEF Sound
<1>5. Len(s.stack) >= 2
  BY <1>1, <1>4, FieldsOf
<1>6. PcInv(s)
  BY <1>3, <1>4 DEF PcInv, Over
<1>7. LogInv(s)
  <2>1. s.stack # <<>>
    <3>1. Len(<<>>) = 0
      OBVIOUS
    <3>2. Len(s.stack) \in Nat
      BY FieldsOf
    <3>3. Len(s.stack) # 0
      BY <1>5, <3>2
    <3> QED  BY <3>1, <3>3
  <2> QED  BY <1>1, <1>3, <2>1 DEF LogInv
<1>8. CountInv(s)
  <2>1. H(s) = H(r)
    BY DEF H
  <2>2. H(r)[4] = "Metrics" => r.index >= 4
    <3>1. r.index = N(r.route) - 1 /\ N(r.route) \in 4..7
          /\ (N(r.route) = 4 => H(r)[4] \in {"handler", "noRoute"})
      BY <1>1, FieldsOf
    <3> QED  BY <3>1
  <2>3. H(s)[4] = "Metrics" /\ s.path = "other" => In(s, "Metrics")
    BY <1>1, <1>4, <2>1, <2>2 DEF Sound, CountInv
  <2> QED  BY <1>1, <2>3 DEF CountInv
<1> QED  BY <1>3, <1>4, <1>6, <1>7, <1>8 DEF Sound

(* The top handler's loop is over, and it returns.                         *)
LEMMA LeaveKeeps ==
  ASSUME NEW r \in Context, NEW s \in Context, Sound(r), r.pc = "loop",
         r.index >= N(r.route),
         Len(r.stack) >= 1, NEW top, top = r.stack[Len(r.stack)],
         s.pc = "loop", s.index = r.index + 1, s.route = r.route /\ s.path = r.path,
         s.status = r.status, s.panic = r.panic,
         s.stack = SubSeq(r.stack, 1, Len(r.stack) - 1),
         s.logged = IF top = "Logger" THEN Append(r.logged, r.status) ELSE r.logged,
         s.counted = IF top = "Metrics" /\ r.path # "/metrics"
                       THEN Append(r.counted, r.status) ELSE r.counted
  PROVE  Sound(s) /\ ~Going(s) /\ ~In(s, "handler")
         /\ \A h : In(r, h) /\ h # top => In(s, h)
<1>1. Over(r) /\ Over(s) /\ ~Going(s) /\ N(r.route) \in 4..7 /\ Len(r.stack) \in Nat
  BY FieldsOf DEF Going, Over
<1>2. /\ StackInv(s) /\ Len(s.stack) = Len(r.stack) - 1
      /\ \A h : In(s, h) => In(r, h) /\ h # top
      /\ \A h : In(r, h) /\ h # top => In(s, h)
  BY <1>1, PoppedStack DEF Sound
<1>3. ~In(s, "handler")
  BY <1>1, <1>2 DEF Sound, PcInv
<1>4. In(r, top)
  <2>1. Len(r.stack) \in 1..Len(r.stack)
    BY <1>1
  <2> QED  BY <2>1 DEF In
<1>5. PcInv(s)
  BY <1>1, <1>3 DEF PcInv
<1>6. r.logged = <<>> /\ r.stack[1] = "Logger"
  BY DEF Sound, LogInv, StackInv
<1>7. top = "Logger" => Len(r.stack) = 1
  <2>1. 1 \in 1..Len(r.stack) /\ Len(r.stack) \in 1..Len(r.stack)
    BY <1>1
  <2> QED  BY <1>6, <2>1 DEF Sound, StackInv
<1>8. top # "Logger" => Len(r.stack) # 1
  BY <1>6
<1>9. LogInv(s)
  <2>1. CASE top = "Logger"
    <3>1. Len(s.stack) = 0
      BY <1>2, <1>7, <2>1
    <3>2. s.logged = <<s.status>>
      BY <1>6, <2>1
    <3> QED  BY <1>1, <3>1, <3>2 DEF Sound, LogInv
  <2>2. CASE top # "Logger"
    <3>1. Len(s.stack) # 0
      <4>1. \A n \in Nat : n # 1 => n - 1 # 0
        OBVIOUS
      <4>2. Len(r.stack) - 1 # 0
        BY <1>1, <1>8, <2>2, <4>1, Zenon
      <4> QED  BY <1>2, <4>2, Zenon
    <3>2. s.stack # <<>>
      <4>1. Len(<<>>) = 0
        OBVIOUS
      <4> QED  BY <3>1, <4>1
    <3> QED  BY <1>1, <1>6, <2>2, <3>2 DEF Sound, LogInv
  <2> QED  BY <2>1, <2>2
<1>10. CountInv(s)
  <2>0. H(s) = H(r) /\ r.index >= 4 /\ s.path = r.path /\ r.path \in {"/metrics", "other"}
        /\ (In(s, "Metrics") => In(r, "Metrics"))
    <3>1. r.path \in {"/metrics", "other"} /\ s.path = r.path
      BY DEF Context
    <3>2. r.index >= 4
      BY <1>1, FieldsOf
    <3>3. H(s) = H(r)
      BY DEF H
    <3> QED  BY <1>2, <3>1, <3>2, <3>3
  <2>1. CASE top = "Metrics"
    <3>1. r.counted = <<>> /\ r.panic = "none" /\ ~In(s, "Metrics")
      BY <1>1, <1>2, <1>4, <2>1 DEF Sound, CountInv, Over
    <3>2. CASE r.path = "/metrics"
      <4>1. s.counted = <<>> /\ s.path # "other"
        BY <2>0, <3>1, <3>2
      <4> QED  BY <3>1, <4>1 DEF CountInv
    <3>3. CASE r.path = "other"
      <4>1. s.counted = <<s.status>> /\ s.counted # <<>>
        BY <2>1, <3>1, <3>3
      <4> QED  BY <1>1, <2>0, <3>1, <3>3, <4>1 DEF CountInv
    <3> QED  BY <2>0, <3>2, <3>3
  <2>2. CASE top # "Metrics"
    <3>1. s.counted = r.counted /\ (In(s, "Metrics") <=> In(r, "Metrics"))
      BY <1>2, <2>2
    <3> QED  BY <1>1, <2>0, <3>1 DEF Sound, CountInv, Over
  <2> QED  BY <2>1, <2>2
<1> QED  BY <1>1, <1>2, <1>3, <1>5, <1>9, <1>10 DEF Sound

(* A panic passes a handler that is not Recovery.                          *)
LEMMA UnwindKeeps ==
  ASSUME NEW r \in Context, NEW s \in Context, Sound(r), r.pc = "unwind",
         NEW top, top = r.stack[Len(r.stack)], top # "Recovery",
         SameRest(r, s), s.pc = r.pc, s.index = r.index,
         s.stack = SubSeq(r.stack, 1, Len(r.stack) - 1)
  PROVE  Sound(s) /\ ~Going(s)
         /\ (In(s, "handler") => In(r, "handler"))
         /\ \A h : In(r, h) /\ h # top => In(s, h)
<1>1. ~Going(s) /\ ~Over(s) /\ ~Over(r) /\ s.route = r.route /\ s.path = r.path
      /\ r.panic # "none"
  BY DEF Going, Over, SameRest, Sound, LogInv
<1>2. Len(r.stack) >= 3
  <2>1. Len(r.stack) >= 2 /\ Len(r.stack) # 2
    BY DEF Sound, PcInv, StackInv
  <2>2. \A n \in Nat : n >= 2 /\ n # 2 => n >= 3
    OBVIOUS
  <2>3. Len(r.stack) \in Nat
    BY FieldsOf
  <2> QED  BY <2>1, <2>2, <2>3, Zenon
<1>3. /\ StackInv(s) /\ Len(s.stack) = Len(r.stack) - 1
      /\ \A h : In(s, h) => In(r, h)
      /\ \A h : In(r, h) /\ h # top => In(s, h)
  <2>1. Len(r.stack) >= 1
    BY <1>2, FieldsOf
  <2> QED  BY <1>1, <2>1, PoppedStack DEF Sound
<1>4. Len(s.stack) >= 2 /\ Len(r.stack) >= 1
  BY <1>2, <1>3, FieldsOf
<1>5. PcInv(s)
  BY <1>1, <1>4 DEF PcInv
<1>6. LogInv(s)
  BY <1>1, <1>4 DEF Sound, LogInv, SameRest
<1>7. CountInv(s)
  BY <1>1, <1>3 DEF Sound, CountInv, SameRest
<1> QED  BY <1>1, <1>3, <1>5, <1>6, <1>7 DEF Sound

(* Recovery stops a panic.                                                 *)
LEMMA RecoverKeeps ==
  ASSUME NEW r \in Context, NEW s \in Context, Sound(r), r.pc = "unwind",
         r.stack[Len(r.stack)] = "Recovery",
         s.pc = "loop", s.index = 64, s.route = r.route /\ s.path = r.path,
         s.stack = SubSeq(r.stack, 1, Len(r.stack) - 1),
         s.panic = r.panic, s.counted = r.counted, s.logged = r.logged,
         r.panic = "other" => s.status = 500
  PROVE  Sound(s) /\ ~Going(s) /\ ~In(s, "handler")
         /\ \A h : In(r, h) /\ h # "Recovery" => In(s, h)
<1>1. N(r.route) \in 4..7 /\ Len(r.stack) \in Nat /\ Len(r.stack) >= 2
      /\ r.logged = <<>> /\ r.counted = <<>> /\ r.panic # "none"
  BY FieldsOf DEF Sound, PcInv, LogInv, CountInv, Over
<1>2. ~Going(s) /\ Over(s)
  <2>1. 64 >= N(r.route) /\ ~(64 < N(r.route))
    BY <1>1
  <2> QED  BY <2>1 DEF Going, Over
<1>3. /\ StackInv(s) /\ Len(s.stack) = Len(r.stack) - 1
      /\ \A h : In(s, h) => In(r, h)
      /\ \A h : In(r, h) /\ h # "Recovery" => In(s, h)
  <2>1. Len(r.stack) >= 1
    BY <1>1
  <2> QED  BY <1>2, <2>1, PoppedStack DEF Sound
<1> DEFINE n == Len(r.stack)
           m == Len(s.stack)
<1>4. /\ n \in Nat /\ n >= 2 /\ r.stack[n] = "Recovery" /\ r.stack[2] = "Recovery"
      /\ \A i, j \in 1..n : r.stack[i] = r.stack[j] => i = j
      /\ m = n - 1 /\ (m >= 1 => s.stack[1] = "Logger")
  BY <1>1, <1>3 DEF Sound, StackInv
<1>5. m = 1
  <2> HIDE DEF n, m
  <2>1. 2 \in 1..n /\ n \in 1..n
    BY <1>4
  <2>2. n = 2
    BY <1>4, <2>1
  <2> QED  BY <1>4, <2>2
<1>6. ~In(s, "handler") /\ ~In(s, "Metrics")
  <2>1. s.stack[1] = "Logger" /\ \A i \in 1..m : i = 1
    <3> HIDE DEF n, m
    <3>1. s.stack[1] = "Logger"
      <4>1. m >= 1
        BY <1>5
      <4> QED  BY <1>4, <4>1
    <3>2. \A i \in 1..m : i = 1
      BY <1>5
    <3> QED  BY <3>1, <3>2
  <2> QED  BY <2>1 DEF In
<1>7. PcInv(s)
  BY <1>2, <1>6 DEF PcInv
<1>8. LogInv(s)
  <2>1. s.stack # <<>>
    <3>1. Len(<<>>) = 0
      OBVIOUS
    <3>2. m # 0
      <4> HIDE DEF m
      <4> QED  BY <1>5
    <3> QED  BY <3>1, <3>2
  <2> QED  BY <1>1, <1>2, <2>1 DEF LogInv
<1>9. CountInv(s)
  BY <1>1, <1>6 DEF CountInv
<1> QED  BY <1>2, <1>3, <1>6, <1>7, <1>8, <1>9 DEF Sound

-----------------------------------------------------------------------------
(* The actions.                                                            *)

LEMMA BecomesIs ==
  ASSUME NEW q \in Requests, NEW s \in Context, TypeOK, Becomes(q, s)
  PROVE  /\ rq'[q] = s /\ rq' = [rq EXCEPT ![q] = rq'[q]]
         /\ rq' \in [Requests -> Context] /\ setup' = setup
         /\ setup' \in [tracing : BOOLEAN, limited : BOOLEAN]
  BY DEF Becomes, TypeOK

(* The state before a step of q.                                           *)
LEMMA Before ==
  ASSUME NEW q \in Requests, IInv
  PROVE  /\ rq[q] \in Context /\ Sound(rq[q]) /\ PassInv(q) /\ HeldInv(q) /\ TypeOK
         /\ \A h : Turn(q, h) => Going(rq[q]) /\ h = H(rq[q])[rq[q].index + 1]
<1>1. rq[q] \in Context /\ Sound(rq[q]) /\ PassInv(q) /\ HeldInv(q) /\ TypeOK
  BY DEF IInv, GoodRequest, TypeOK
<1>2. Len(H(rq[q])) = N(rq[q].route)
  BY <1>1, FieldsOf
<1> QED  BY <1>1, <1>2 DEF Turn, Handlers, H, Going

LEMMA DeeperGood ==
  ASSUME NEW q \in Requests, IInv,
         NEW h \in {"Logger", "Recovery", "Trace", "Metrics", "Ratelimit"},
         Turn(q, h), Becomes(q, NextOf(rq[q], h)), UNCHANGED <<opSpans, conns>>,
         entries' = entries \/ (h = "Ratelimit" /\ entries' = entries \cup {q}),
         h = "Ratelimit" /\ setup.limited => q \in entries',
         spans' = spans \/ (h = "Trace" /\ spans' = spans \cup {q}),
         h = "Trace" /\ setup.tracing => q \in spans'
  PROVE  Good(q)
<1> DEFINE r == rq[q]
           s == NextOf(r, h)
<1>1. r \in Context /\ Sound(r) /\ Going(r) /\ h = H(r)[r.index + 1]
      /\ PassInv(q) /\ HeldInv(q) /\ TypeOK
  BY Before
<1>2. /\ s \in Context /\ Sound(s) /\ SameRest(r, s)
      /\ s.pc = r.pc /\ s.index = r.index + 1 /\ s.stack = Append(r.stack, h)
  BY <1>1, NextKeeps
<1>3. /\ rq'[q] = s /\ rq' = [rq EXCEPT ![q] = rq'[q]]
      /\ rq' \in [Requests -> Context] /\ setup' = setup
      /\ setup' \in [tracing : BOOLEAN, limited : BOOLEAN]
  BY <1>1, <1>2, BecomesIs
<1> HIDE DEF s
<1>4. OthersKept(q)
  BY <1>3 DEF OthersKept
<1>5. TypeOK'
  BY <1>1, <1>3 DEF TypeOK
<1>6. In(s, h) /\ \A x : In(r, x) => In(s, x)
  <2>1. h \in Stack
    <3>0. h \notin {"handler", "noRoute"}
      OBVIOUS
    <3>1. r.index + 1 \in 1..(N(r.route) - 1)
      <4>1. /\ H(r)[N(r.route)] \in {"handler", "noRoute"} /\ N(r.route) \in Nat
            /\ r.index \in Nat /\ r.index < N(r.route)
        BY <1>1, FieldsOf DEF Going
      <4> QED  BY <1>1, <3>0, <4>1
    <3>2. \A i \in 1..(N(r.route) - 1) : H(r)[i] \in Stack
      BY <1>1, FieldsOf
    <3> QED  BY <1>1, <3>1, <3>2
  <2>2. /\ Len(s.stack) = Len(r.stack) + 1 /\ s.stack[Len(s.stack)] = h
        /\ \A i \in 1..Len(r.stack) : s.stack[i] = r.stack[i]
    BY <1>1, <1>2, <2>1, FieldsOf, PushIs
  <2>3. Len(s.stack) \in 1..Len(s.stack)
        /\ \A i \in 1..Len(r.stack) : i \in 1..Len(s.stack)
    BY <1>1, <2>2, FieldsOf
  <2> QED  BY <2>2, <2>3 DEF In
<1>7. Going(s) \/ r.index + 1 = N(r.route)
  <2>1. s.route = r.route /\ s.pc = "loop" /\ s.index = r.index + 1
        /\ r.index < N(r.route)
    BY <1>1, <1>2 DEF Going, SameRest
  <2>2. r.index \in Nat /\ N(r.route) \in Nat
    BY <1>1, FieldsOf
  <2> QED  BY <2>1, <2>2 DEF Going
<1>8. PassInv(q)'
  <2>1. ~In(s, "handler") /\ s.pc = "loop"
    <3>1. s.pc = "loop" /\ N(s.route) \in Nat /\ s.index \in Nat
      BY <1>1, <1>2, FieldsOf DEF Going
    <3>2. Going(s) \/ Over(s)
      BY <3>1 DEF Going, Over
    <3> QED  BY <1>2, <3>1, <3>2 DEF Sound, PcInv
  <2>2. H(s) = H(r) /\ s.route = r.route /\ s.claims = r.claims
    BY <1>2 DEF H, SameRest
  <2> SUFFICES ASSUME NEW k \in 1..(N(r.route) - 1), k <= s.index
               PROVE  Passed(q, k)'
    BY <1>3, <2>1, <2>2 DEF PassInv
  <2>3. CASE k <= r.index
    <3>1. Passed(q, k)
      BY <1>1, <2>3 DEF PassInv
    <3> QED  BY <1>3, <2>2, <3>1 DEF Passed
  <2>4. CASE k = r.index + 1
    <3>1. h = H(r)[k] /\ h # "Jwt"
      BY <1>1, <2>4
    <3> QED  BY <1>3, <2>2, <3>1 DEF Passed
  <2> QED  BY <1>1, <1>2, <2>3, <2>4, FieldsOf
<1>9. HeldInv(q)'
  BY <1>1, <1>2, <1>3, <1>6 DEF HeldInv, Going
<1> QED  BY <1>2, <1>3, <1>4, <1>5, <1>8, <1>9 DEF Good

LEMMA PassOnGood ==
  ASSUME NEW q \in Requests, IInv, PassOn(q)
  PROVE  Good(q)
<1>1. PICK h \in {"Logger", "Recovery", "Metrics"} :
        Turn(q, h) /\ Becomes(q, NextOf(rq[q], h))
  BY DEF PassOn
<1>2. UNCHANGED held
  BY DEF PassOn
<1> QED  BY <1>1, <1>2, DeeperGood DEF held

LEMMA TraceGood ==
  ASSUME NEW q \in Requests, IInv, Trace(q)
  PROVE  Good(q)
  BY DeeperGood DEF Trace

LEMMA AdmitGood ==
  ASSUME NEW q \in Requests, IInv, Admit(q)
  PROVE  Good(q)
  BY DeeperGood DEF Admit

(* A step after which the loop of q will call no handler.                  *)
LEMMA EndingGood ==
  ASSUME NEW q \in Requests, IInv, NEW s \in Context, Becomes(q, s), Sound(s),
         ~Going(s), s.route = rq[q].route,
         In(s, "handler") => In(rq[q], "handler") /\ s.claims = rq[q].claims,
         entries' \in {entries, entries \ {q}}, spans' \in {spans, spans \ {q}},
         opSpans' \in {opSpans, opSpans \ {q}}, conns' \in {conns, conns \ {q}},
         q \in entries' => In(s, "Ratelimit"), q \in spans' => In(s, "Trace"),
         In(s, "handler") => entries' = entries /\ spans' = spans,
         q \notin opSpans', q \notin conns'
  PROVE  Good(q)
<1>1. PassInv(q) /\ TypeOK
  BY Before
<1>2. /\ rq'[q] = s /\ rq' = [rq EXCEPT ![q] = rq'[q]]
      /\ rq' \in [Requests -> Context] /\ setup' = setup
      /\ setup' \in [tracing : BOOLEAN, limited : BOOLEAN]
  BY <1>1, BecomesIs
<1>3. OthersKept(q)
  BY <1>2 DEF OthersKept
<1>4. TypeOK'
  BY <1>1, <1>2 DEF TypeOK
<1>5. PassInv(q)'
  <2>1. H(s) = H(rq[q])
    BY DEF H
  <2> QED  BY <1>1, <1>2, <2>1 DEF PassInv, Passed
<1>6. HeldInv(q)'
  BY <1>2 DEF HeldInv
<1> QED  BY <1>2, <1>3, <1>4, <1>5, <1>6 DEF Good

(* These handlers are behind motor's three.                                *)
LEMMA Behind ==
  ASSUME NEW q \in Requests, IInv, NEW h \in {"Jwt", "Ratelimit", "noRoute"}, Turn(q, h)
  PROVE  Going(rq[q]) /\ rq[q].index >= 3
<1>1. rq[q] \in Context /\ Going(rq[q]) /\ h = H(rq[q])[rq[q].index + 1]
  BY Before
<1>2. rq[q].index \notin {0, 1, 2}
  <2>1. H(rq[q])[1] = "Logger" /\ H(rq[q])[2] = "Recovery" /\ H(rq[q])[3] = "Trace"
    BY <1>1, FieldsOf
  <2> QED  BY <1>1, <2>1
<1> QED  BY <1>1, <1>2, FieldsOf

(* A handler answers and aborts.                                           *)
LEMMA AbortingGood ==
  ASSUME NEW q \in Requests, IInv, NEW h \in {"Jwt", "Ratelimit", "noRoute"}, Turn(q, h),
         NEW st \in Statuses, UNCHANGED held,
         Becomes(q, Return(Aborted([rq[q] EXCEPT !.status = st])))
  PROVE  Good(q)
<1> DEFINE r == rq[q]
           s == Return(Aborted([rq[q] EXCEPT !.status = st]))
<1>1. r \in Context /\ Sound(r) /\ Going(r) /\ h = H(r)[r.index + 1] /\ HeldInv(q)
  BY Before
<1>2. r.index >= 3 /\ r.pc = "loop"
  BY <1>1, Behind DEF Going
<1>3. s \in Context /\ Sound(s) /\ ~Going(s) /\ s.stack = r.stack /\ s.route = r.route
      /\ ~In(s, "handler")
  BY <1>1, <1>2, AbortKeeps
<1>4. q \notin opSpans /\ q \notin conns
      /\ (q \in entries => In(r, "Ratelimit")) /\ (q \in spans => In(r, "Trace"))
  BY <1>1, <1>2 DEF HeldInv
<1>5. \A x : In(r, x) => In(s, x)
  BY <1>3 DEF In
<1>6. UNCHANGED <<entries, spans, opSpans, conns>> /\ Becomes(q, s)
  BY DEF held
<1> HIDE DEF s
<1> QED  BY <1>3, <1>4, <1>5, <1>6, EndingGood

(* A handler below Recovery panics.                                        *)
LEMMA PanickingGood ==
  ASSUME NEW q \in Requests, IInv, NEW r1 \in Context, NEW e \in {"other", "broken pipe"},
         Becomes(q, Panic(r1, e)),
         \/ Turn(q, "Jwt") \/ Turn(q, "noRoute") \/ rq[q].pc \in {"body", "wait", "conn"}
         \/ Over(rq[q]) /\ In(rq[q], "Metrics"),
         r1.stack = rq[q].stack, r1.route = rq[q].route, r1.path = rq[q].path,
         r1.claims = rq[q].claims,
         r1.counted = rq[q].counted, r1.logged = rq[q].logged,
         UNCHANGED <<entries, spans>>,
         opSpans' = opSpans \ {q}, conns' = conns \ {q}
  PROVE  Good(q)
<1> DEFINE r == rq[q]
           s == Panic(r1, e)
<1>1. r \in Context /\ Sound(r) /\ HeldInv(q)
      /\ \A h : Turn(q, h) => Going(r) /\ h = H(r)[r.index + 1]
  BY Before
<1>2. \/ Going(r) /\ r.index >= 3
      \/ r.pc \in {"body", "wait", "conn"}
      \/ Over(r) /\ In(r, "Metrics")
  <2> SUFFICES ASSUME NEW h \in {"Jwt", "noRoute"}, Turn(q, h)
               PROVE  Going(r) /\ r.index >= 3
    OBVIOUS
  <2> QED  BY Behind
<1>3. s \in Context /\ s.pc = "unwind" /\ s.panic = e /\ s.stack = r.stack
      /\ s.route = r.route /\ s.path = r.path /\ s.claims = r.claims
      /\ s.counted = r.counted /\ s.logged = r.logged
  BY DEF Panic, Context
<1>4. Becomes(q, s)
  OBVIOUS
<1> HIDE DEF s
<1>5. Sound(s)
  BY <1>1, <1>2, <1>3, PanicKeeps
<1>6. ~Going(s) /\ \A x : In(s, x) <=> In(r, x)
  BY <1>3 DEF Going, In
<1>7. (q \in entries => In(r, "Ratelimit")) /\ (q \in spans => In(r, "Trace"))
  BY <1>1 DEF HeldInv
<1> QED  BY <1>3, <1>4, <1>5, <1>6, <1>7, EndingGood

(* The application's handler goes on.                                      *)
LEMMA BodyGood ==
  ASSUME NEW q \in Requests, IInv, NEW s \in Context, Becomes(q, s),
         rq[q].pc \in {"body", "wait", "conn"}, s.pc \in {"body", "wait", "conn"},
         s.stack = rq[q].stack, s.index = rq[q].index,
         s.route = rq[q].route /\ s.path = rq[q].path,
         s.status = rq[q].status, s.panic = rq[q].panic, s.counted = rq[q].counted,
         s.logged = rq[q].logged, s.claims = rq[q].claims, UNCHANGED <<entries, spans>>,
         opSpans' \in {opSpans, opSpans \cup {q}, opSpans \ {q}},
         conns' \in {conns, conns \cup {q}, conns \ {q}},
         q \in opSpans' => s.pc \in {"wait", "conn"}, q \in conns' => s.pc = "conn"
  PROVE  Good(q)
<1>1. rq[q] \in Context /\ Sound(rq[q]) /\ PassInv(q) /\ HeldInv(q) /\ TypeOK
  BY Before
<1>2. /\ rq'[q] = s /\ rq' = [rq EXCEPT ![q] = rq'[q]]
      /\ rq' \in [Requests -> Context] /\ setup' = setup
      /\ setup' \in [tracing : BOOLEAN, limited : BOOLEAN]
  BY <1>1, BecomesIs
<1>3. Sound(s)
  BY <1>1, BodyKeeps
<1>4. ~Going(s) /\ \A h : In(s, h) <=> In(rq[q], h)
  BY DEF Going, In
<1>5. OthersKept(q)
  BY <1>2 DEF OthersKept
<1>6. TypeOK'
  BY <1>1, <1>2 DEF TypeOK
<1>7. PassInv(q)'
  <2>1. H(s) = H(rq[q])
    BY DEF H
  <2> QED  BY <1>1, <1>2, <1>4, <2>1 DEF PassInv, Passed
<1>8. HeldInv(q)'
  BY <1>1, <1>2, <1>4 DEF HeldInv
<1> QED  BY <1>2, <1>3, <1>5, <1>6, <1>7, <1>8 DEF Good

(* The claims are set, and Jwt returns.                                    *)
LEMMA AcceptedIs ==
  ASSUME NEW r \in Context
  PROVE  LET s == Return([r EXCEPT !.claims = TRUE]) IN
         /\ s \in Context /\ s.pc = "loop" /\ s.index = r.index + 1 /\ s.stack = r.stack
         /\ s.claims /\ s.route = r.route /\ s.path = r.path /\ s.status = r.status
         /\ s.panic = r.panic /\ s.counted = r.counted /\ s.logged = r.logged
<1> DEFINE r1 == [r EXCEPT !.claims = TRUE]
           s == Return(r1)
<1>1. /\ r1 \in Context /\ r1.index = r.index /\ r1.stack = r.stack
      /\ r1.claims /\ r1.route = r.route /\ r1.path = r.path /\ r1.status = r.status
      /\ r1.panic = r.panic /\ r1.counted = r.counted /\ r1.logged = r.logged
  BY DEF Context
<1> HIDE DEF r1
<1>2. /\ s \in Context /\ SameRest(r1, s)
      /\ s.pc = "loop" /\ s.index = r1.index + 1 /\ s.stack = r1.stack
  BY <1>1, ReturnIs
<1> HIDE DEF s
<1>3. /\ s \in Context /\ s.pc = "loop" /\ s.index = r.index + 1 /\ s.stack = r.stack
      /\ s.claims /\ s.route = r.route /\ s.path = r.path /\ s.status = r.status
      /\ s.panic = r.panic /\ s.counted = r.counted /\ s.logged = r.logged
  BY <1>1, <1>2 DEF SameRest
<1> QED  BY <1>3 DEF s, r1

LEMMA JwtAcceptsGood ==
  ASSUME NEW q \in Requests, IInv, JwtAccepts(q)
  PROVE  Good(q)
<1> DEFINE r == rq[q]
           s == Return([r EXCEPT !.claims = TRUE])
<1>1. r \in Context /\ Sound(r) /\ Going(r) /\ H(r)[r.index + 1] = "Jwt"
      /\ PassInv(q) /\ HeldInv(q) /\ TypeOK
  BY Before DEF JwtAccepts
<1>2. /\ s \in Context /\ s.pc = "loop" /\ s.index = r.index + 1 /\ s.stack = r.stack
      /\ s.claims /\ s.route = r.route /\ s.path = r.path /\ s.status = r.status
      /\ s.panic = r.panic /\ s.counted = r.counted /\ s.logged = r.logged
  BY <1>1, AcceptedIs
<1>3. Becomes(q, s) /\ UNCHANGED <<entries, spans, opSpans, conns>>
  BY DEF JwtAccepts, held
<1> HIDE DEF s
<1>4. Sound(s)
  BY <1>1, <1>2, AcceptKeeps
<1>5. /\ rq'[q] = s /\ rq' = [rq EXCEPT ![q] = rq'[q]]
      /\ rq' \in [Requests -> Context] /\ setup' = setup
      /\ setup' \in [tracing : BOOLEAN, limited : BOOLEAN]
  BY <1>1, <1>2, <1>3, BecomesIs
<1>6. OthersKept(q) /\ TypeOK'
  BY <1>1, <1>3, <1>5 DEF OthersKept, TypeOK
<1>7. \A h : In(s, h) <=> In(r, h)
  BY <1>2 DEF In
<1>8. H(s) = H(r)
  BY <1>2 DEF H
<1>9. PassInv(q)'
  <2>1. ~In(s, "handler")
    BY <1>1, <1>7 DEF Sound, PcInv
  <2> SUFFICES ASSUME NEW k \in 1..(N(r.route) - 1), k <= s.index
               PROVE  Passed(q, k)'
    BY <1>2, <1>5, <2>1 DEF PassInv
  <2>2. CASE k <= r.index
    <3>1. Passed(q, k)
      BY <1>1, <2>2 DEF PassInv
    <3> QED  BY <1>2, <1>3, <1>5, <1>8, <3>1 DEF Passed
  <2>3. CASE k = r.index + 1
    <3>1. H(r)[k] = "Jwt"
      BY <1>1, <2>3
    <3> QED  BY <1>2, <1>5, <1>8, <3>1 DEF Passed
  <2> QED  BY <1>1, <1>2, <2>2, <2>3, FieldsOf
<1>10. HeldInv(q)'
  BY <1>1, <1>2, <1>3, <1>5, <1>7 DEF HeldInv, Going
<1> QED  BY <1>4, <1>5, <1>6, <1>9, <1>10 DEF Good

LEMMA RefusesGood ==
  ASSUME NEW q \in Requests, IInv, JwtRefuses(q) \/ NoRoute(q) \/ TooMany(q)
  PROVE  Good(q)
<1>1. CASE TooMany(q)
  <2>1. 429 \in Statuses
    BY DEF Statuses
  <2> QED  BY <1>1, <2>1, AbortingGood DEF TooMany
<1>2. ASSUME NEW h \in {"Jwt", "noRoute"}, NEW st \in Statuses, Turn(q, h),
             UNCHANGED held,
             Answer(q, st)
      PROVE  Good(q)
  <2>1. CASE Becomes(q, Return(Aborted([rq[q] EXCEPT !.status = st])))
    BY <1>2, <2>1, AbortingGood
  <2>2. ASSUME NEW e \in {"other", "broken pipe"},
               Becomes(q, Panic([rq[q] EXCEPT !.status = st], e))
        PROVE  Good(q)
    <3> DEFINE r1 == [rq[q] EXCEPT !.status = st]
    <3>1. rq[q] \in Context /\ HeldInv(q) /\ Going(rq[q])
      BY <1>2, Before
    <3>2. /\ r1 \in Context /\ r1.stack = rq[q].stack /\ r1.route = rq[q].route
          /\ r1.path = rq[q].path /\ r1.claims = rq[q].claims
          /\ r1.counted = rq[q].counted /\ r1.logged = rq[q].logged
      BY <3>1, StatusIs
    <3>3. opSpans' = opSpans \ {q} /\ conns' = conns \ {q} /\ UNCHANGED <<entries, spans>>
      BY <1>2, <3>1 DEF HeldInv, Going, held
    <3>4. Becomes(q, Panic(r1, e))
      BY <2>2
    <3> HIDE DEF r1
    <3> QED  BY <1>2, <3>2, <3>3, <3>4, PanickingGood
  <2> QED  BY <1>2, <2>1, <2>2 DEF Answer
<1>3. CASE JwtRefuses(q)
  <2>1. 200 \in Statuses
    BY DEF Statuses
  <2> QED  BY <1>2, <1>3, <2>1 DEF JwtRefuses
<1>4. CASE NoRoute(q)
  <2>1. 404 \in Statuses
    BY DEF Statuses
  <2> QED  BY <1>2, <1>4, <2>1 DEF NoRoute
<1> QED  BY <1>1, <1>3, <1>4

LEMMA WorkGood ==
  ASSUME NEW q \in Requests, IInv, Work(q)
  PROVE  Good(q)
<1> DEFINE r == rq[q]
           s == [r EXCEPT !.pc = "body", !.stack = Append(r.stack, "handler")]
<1>1. r \in Context /\ Sound(r) /\ Going(r) /\ H(r)[r.index + 1] = "handler"
      /\ PassInv(q) /\ HeldInv(q) /\ TypeOK
  BY Before DEF Work
<1>2. /\ s \in Context /\ SameRest(r, s) /\ s.pc = "body" /\ s.index = r.index
      /\ s.stack = Append(r.stack, "handler")
  <2>1. "handler" \in Stack
    BY DEF Stack
  <2>2. Append(r.stack, "handler") \in Seq(Stack)
    BY <1>1, <2>1, FieldsOf, PushIs
  <2> QED  BY <1>1, <2>2 DEF Context, Stack, SameRest
<1>3. /\ rq'[q] = s /\ rq' = [rq EXCEPT ![q] = rq'[q]]
      /\ rq' \in [Requests -> Context] /\ setup' = setup
      /\ setup' \in [tracing : BOOLEAN, limited : BOOLEAN]
      /\ UNCHANGED <<entries, spans, opSpans, conns>>
  <2>1. Becomes(q, s)
    BY <1>1 DEF Work, Context
  <2> QED  BY <1>1, <1>2, <2>1, BecomesIs DEF Work, held
<1> HIDE DEF s
<1>4. Sound(s) /\ r.index = N(r.route) - 1
  BY <1>1, <1>2, WorkKeeps
<1>5. OthersKept(q) /\ TypeOK'
  BY <1>1, <1>3 DEF OthersKept, TypeOK
<1>6. \A h : In(r, h) => In(s, h)
  <2>1. "handler" \in Stack
    BY DEF Stack
  <2>2. /\ Len(s.stack) = Len(r.stack) + 1
        /\ \A i \in 1..Len(r.stack) : s.stack[i] = r.stack[i]
    BY <1>1, <1>2, <2>1, FieldsOf, PushIs
  <2>3. \A i \in 1..Len(r.stack) : i \in 1..Len(s.stack)
    BY <1>1, <2>2, FieldsOf
  <2> QED  BY <2>2, <2>3 DEF In
<1>7. PassInv(q)'
  <2>1. H(s) = H(r) /\ s.route = r.route /\ s.claims = r.claims
    BY <1>2 DEF H, SameRest
  <2> SUFFICES ASSUME NEW k \in 1..(N(r.route) - 1)
               PROVE  Passed(q, k)'
    BY <1>3, <2>1 DEF PassInv
  <2>2. k <= r.index
    BY <1>1, <1>4, FieldsOf
  <2>3. Passed(q, k)
    BY <1>1, <2>2 DEF PassInv
  <2> QED  BY <1>3, <2>1, <2>3 DEF Passed
<1>8. HeldInv(q)'
  BY <1>1, <1>2, <1>3, <1>6 DEF HeldInv, Going
<1> QED  BY <1>3, <1>4, <1>5, <1>7, <1>8 DEF Good

LEMMA ReplyGood ==
  ASSUME NEW q \in Requests, IInv, Reply(q)
  PROVE  Good(q)
<1> DEFINE r == rq[q]
<1>1. r \in Context /\ Sound(r) /\ HeldInv(q) /\ r.pc = "body"
  BY Before DEF Reply
<1>2. PICK st \in {200, 500} : Becomes(q, Return(Pop([r EXCEPT !.status = st])))
  BY DEF Reply
<1> DEFINE r1 == [r EXCEPT !.status = st]
           r2 == Pop(r1)
           s == Return(r2)
<1>3. r1 \in Context /\ r1.index = r.index /\ r1.stack = r.stack
      /\ r1.route = r.route /\ r1.path = r.path
      /\ r1.panic = r.panic /\ r1.counted = r.counted /\ r1.logged = r.logged
  <2>1. st \in Statuses
    BY DEF Statuses
  <2> QED  BY <1>1, <2>1, StatusIs
<1>4. Becomes(q, s)
  BY <1>2
<1> HIDE DEF r1
<1>5. Len(r.stack) >= 1
  BY <1>1, FieldsOf DEF Sound, PcInv
<1>6. r2 \in Context /\ SameRest(r1, r2) /\ r2.index = r1.index
      /\ r2.stack = SubSeq(r1.stack, 1, Len(r1.stack) - 1)
  BY <1>3, <1>5, PopRecordIs
<1> HIDE DEF r2
<1>7. s \in Context /\ SameRest(r2, s) /\ s.pc = "loop" /\ s.index = r2.index + 1
      /\ s.stack = r2.stack
  BY <1>6, ReturnIs
<1> HIDE DEF s
<1>8. /\ Sound(s) /\ ~Going(s) /\ ~In(s, "handler")
      /\ \A h : In(r, h) /\ h # "handler" => In(s, h)
  BY <1>1, <1>3, <1>6, <1>7, ReplyKeeps DEF SameRest
<1>9. UNCHANGED <<entries, spans, opSpans, conns>> /\ q \notin opSpans /\ q \notin conns
      /\ (q \in entries => In(s, "Ratelimit")) /\ (q \in spans => In(s, "Trace"))
  BY <1>1, <1>8 DEF Reply, held, HeldInv
<1>10. s.route = r.route
  BY <1>3, <1>6, <1>7 DEF SameRest
<1> QED  BY <1>4, <1>7, <1>8, <1>9, <1>10, EndingGood

LEMMA HandlerPanicsGood ==
  ASSUME NEW q \in Requests, IInv, HandlerPanics(q)
  PROVE  Good(q)
<1>1. rq[q] \in Context /\ HeldInv(q)
  BY Before
<1>2. PICK e \in {"other", "broken pipe"} : Becomes(q, Panic(rq[q], e))
  BY DEF HandlerPanics
<1>3. UNCHANGED <<entries, spans>> /\ opSpans' = opSpans \ {q} /\ conns' = conns \ {q}
  BY <1>1 DEF HandlerPanics, held, HeldInv
<1> QED  BY <1>1, <1>2, <1>3, PanickingGood DEF HandlerPanics

LEMMA StartOpGood ==
  ASSUME NEW q \in Requests, IInv, StartOp(q)
  PROVE  Good(q)
<1> DEFINE r == [rq[q] EXCEPT !.ops = @ + 1]
<1>1. rq[q] \in Context /\ HeldInv(q) /\ rq[q].pc = "body" /\ q \notin opSpans
      /\ q \notin conns
  BY Before DEF StartOp, HeldInv
<1>2. /\ r \in Context /\ r.pc = "body" /\ r.stack = rq[q].stack /\ r.index = rq[q].index
      /\ r.route = rq[q].route /\ r.path = rq[q].path /\ r.status = rq[q].status
         /\ r.panic = rq[q].panic
      /\ r.counted = rq[q].counted /\ r.logged = rq[q].logged /\ r.claims = rq[q].claims
  <2>0. rq[q].ops < MaxOps
    BY DEF StartOp
  <2>1. rq[q].ops \in 0..MaxOps /\ MaxOps \in Nat
    BY <1>1, LimitsAssumption DEF Context
  <2>2. rq[q].ops + 1 \in 0..MaxOps
    BY <2>0, <2>1
  <2> QED  BY <1>1, <2>2 DEF Context
<1> DEFINE w == [r EXCEPT !.pc = "wait"]
<1>3. \/ (Becomes(q, r) \/ Becomes(q, Panic(r, "other"))) /\ UNCHANGED held
      \/ /\ Becomes(q, w)
         /\ opSpans' \in {opSpans, opSpans \cup {q}}
         /\ UNCHANGED <<entries, spans, conns>>
  BY DEF StartOp
<1> HIDE DEF r
<1>4. /\ w \in Context /\ w.pc = "wait" /\ w.stack = rq[q].stack /\ w.index = rq[q].index
      /\ w.route = rq[q].route /\ w.path = rq[q].path /\ w.status = rq[q].status
         /\ w.panic = rq[q].panic
      /\ w.counted = rq[q].counted /\ w.logged = rq[q].logged /\ w.claims = rq[q].claims
  BY <1>2 DEF Context
<1> HIDE DEF w
<1>5. CASE Becomes(q, r) /\ UNCHANGED held
  BY <1>1, <1>2, <1>5, BodyGood DEF held
<1>6. CASE Becomes(q, Panic(r, "other")) /\ UNCHANGED held
  <2>1. opSpans' = opSpans \ {q} /\ conns' = conns \ {q} /\ UNCHANGED <<entries, spans>>
    BY <1>1, <1>6 DEF held
  <2> QED  BY <1>1, <1>2, <1>6, <2>1, PanickingGood
<1>7. CASE /\ Becomes(q, w)
           /\ opSpans' \in {opSpans, opSpans \cup {q}}
           /\ UNCHANGED <<entries, spans, conns>>
  BY <1>1, <1>4, <1>7, BodyGood
<1> QED  BY <1>3, <1>5, <1>6, <1>7

LEMMA TakeConnGood ==
  ASSUME NEW q \in Requests, IInv, TakeConn(q)
  PROVE  Good(q)
<1> DEFINE s == [rq[q] EXCEPT !.pc = "conn"]
<1>1. rq[q] \in Context /\ HeldInv(q)
  BY Before
<1>2. /\ s \in Context /\ s.pc = "conn" /\ s.stack = rq[q].stack /\ s.index = rq[q].index
      /\ s.route = rq[q].route /\ s.path = rq[q].path /\ s.status = rq[q].status
         /\ s.panic = rq[q].panic
      /\ s.counted = rq[q].counted /\ s.logged = rq[q].logged /\ s.claims = rq[q].claims
  BY <1>1 DEF Context
<1>3. Becomes(q, s)
  BY DEF TakeConn
<1> HIDE DEF s
<1> QED  BY <1>1, <1>2, <1>3, BodyGood DEF TakeConn

LEMMA FinishOpGood ==
  ASSUME NEW q \in Requests, IInv, FinishOp(q)
  PROVE  Good(q)
<1> DEFINE s == [rq[q] EXCEPT !.pc = "body"]
<1>1. rq[q] \in Context /\ rq[q].pc = "conn"
  BY Before DEF FinishOp
<1>2. /\ s \in Context /\ s.pc = "body" /\ s.stack = rq[q].stack /\ s.index = rq[q].index
      /\ s.route = rq[q].route /\ s.path = rq[q].path /\ s.status = rq[q].status
         /\ s.panic = rq[q].panic
      /\ s.counted = rq[q].counted /\ s.logged = rq[q].logged /\ s.claims = rq[q].claims
  BY <1>1 DEF Context
<1>3. UNCHANGED <<entries, spans>> /\ opSpans' = opSpans \ {q} /\ conns' = conns \ {q}
  BY DEF FinishOp, OpReturns
<1>4. Becomes(q, s) \/ Becomes(q, Panic(rq[q], "other"))
  BY DEF FinishOp
<1> HIDE DEF s
<1>5. CASE Becomes(q, s)
  BY <1>1, <1>2, <1>3, <1>5, BodyGood
<1>6. CASE Becomes(q, Panic(rq[q], "other"))
  BY <1>1, <1>3, <1>6, PanickingGood
<1> QED  BY <1>4, <1>5, <1>6

LEMMA LeaveGood ==
  ASSUME NEW q \in Requests, IInv, Leave(q)
  PROVE  Good(q)
<1> DEFINE r == rq[q]
           top == Top(q)
           r1 == [r EXCEPT !.logged  = IF top = "Logger" THEN Append(@, r.status) ELSE @,
                           !.counted = IF Counts(q) THEN Append(@, r.status) ELSE @]
           r2 == Pop(r1)
           s == Return(r2)
<1>1. r \in Context /\ Sound(r) /\ HeldInv(q) /\ r.pc = "loop" /\ r.index >= N(r.route)
      /\ r.stack # <<>> /\ top = r.stack[Len(r.stack)]
  <2>1. rq[q] \in Context /\ Sound(rq[q]) /\ HeldInv(q) /\ Len(H(rq[q])) = N(r.route)
    BY Before, FieldsOf
  <2> QED  BY <2>1 DEF Leave, Back, Handlers, H, Top
<1>2. /\ Becomes(q, s) /\ Deferred(q, top)
      /\ Counts(q) <=> top = "Metrics" /\ r.path # "/metrics"
  BY DEF Leave, Counts
<1> HIDE DEF top
<1>3. /\ r1 \in Context /\ r1.pc = r.pc /\ r1.index = r.index /\ r1.stack = r.stack
      /\ r1.route = r.route /\ r1.path = r.path /\ r1.status = r.status
         /\ r1.panic = r.panic
      /\ r1.logged = IF top = "Logger" THEN Append(r.logged, r.status) ELSE r.logged
      /\ r1.counted = IF Counts(q) THEN Append(r.counted, r.status) ELSE r.counted
  <2>1. r.status \in Statuses /\ r.logged \in Seq(Statuses) /\ r.counted \in Seq(Statuses)
    BY <1>1 DEF Context
  <2>2. /\ Append(r.logged, r.status) \in Seq(Statuses)
        /\ Append(r.counted, r.status) \in Seq(Statuses)
    BY <2>1
  <2> QED  BY <1>1, <2>1, <2>2 DEF Context
<1>4. Len(r.stack) >= 1
  BY <1>1, FieldsOf
<1> HIDE DEF r1
<1>5. r2 \in Context /\ SameRest(r1, r2) /\ r2.index = r1.index
      /\ r2.stack = SubSeq(r1.stack, 1, Len(r1.stack) - 1)
  BY <1>3, <1>4, PopRecordIs
<1> HIDE DEF r2
<1>6. s \in Context /\ SameRest(r2, s) /\ s.pc = "loop" /\ s.index = r2.index + 1
      /\ s.stack = r2.stack
  BY <1>5, ReturnIs
<1> HIDE DEF s
<1>7. /\ Sound(s) /\ ~Going(s) /\ ~In(s, "handler")
      /\ \A h : In(r, h) /\ h # top => In(s, h)
  <2>1. /\ s.route = r.route /\ s.path = r.path /\ s.status = r.status
           /\ s.panic = r.panic
        /\ s.index = r.index + 1 /\ s.stack = SubSeq(r.stack, 1, Len(r.stack) - 1)
        /\ s.logged = IF top = "Logger" THEN Append(r.logged, r.status) ELSE r.logged
        /\ s.counted = IF top = "Metrics" /\ r.path # "/metrics"
                         THEN Append(r.counted, r.status) ELSE r.counted
    BY <1>2, <1>3, <1>5, <1>6 DEF SameRest
  <2> QED  BY <1>1, <1>4, <1>6, <2>1, LeaveKeeps
<1>8. /\ entries' = IF top = "Ratelimit" THEN entries \ {q} ELSE entries
      /\ spans' = IF top = "Trace" THEN spans \ {q} ELSE spans
      /\ UNCHANGED <<opSpans, conns>>
  BY <1>2 DEF Deferred
<1>9. /\ q \notin opSpans' /\ q \notin conns'
      /\ (q \in entries' => In(s, "Ratelimit")) /\ (q \in spans' => In(s, "Trace"))
  BY <1>1, <1>7, <1>8 DEF HeldInv
<1>10. s.route = r.route
  BY <1>3, <1>5, <1>6 DEF SameRest
<1> QED  BY <1>2, <1>6, <1>7, <1>8, <1>9, <1>10, EndingGood

LEMMA CountPanicsGood ==
  ASSUME NEW q \in Requests, IInv, CountPanics(q)
  PROVE  Good(q)
<1> DEFINE r == rq[q]
<1>1. r \in Context /\ HeldInv(q) /\ r.pc = "loop" /\ Over(r) /\ In(r, "Metrics")
  <2>1. r \in Context /\ HeldInv(q) /\ Len(H(r)) = N(r.route) /\ Len(r.stack) \in Nat
    BY Before, FieldsOf
  <2>2. r.pc = "loop" /\ Over(r) /\ r.stack # <<>>
    BY <2>1 DEF CountPanics, Back, Handlers, H, Over
  <2>3. r.stack[Len(r.stack)] = "Metrics"
    BY DEF CountPanics, Counts, Top
  <2>4. Len(r.stack) \in 1..Len(r.stack)
    BY <2>1, <2>2, FieldsOf
  <2> QED  BY <2>1, <2>2, <2>3, <2>4 DEF In
<1>2. UNCHANGED <<entries, spans>> /\ opSpans' = opSpans \ {q} /\ conns' = conns \ {q}
  BY <1>1 DEF CountPanics, held, HeldInv
<1>3. Becomes(q, Panic(r, "other"))
  BY DEF CountPanics
<1> QED  BY <1>1, <1>2, <1>3, PanickingGood

LEMMA UnwindGood ==
  ASSUME NEW q \in Requests, IInv, Unwind(q)
  PROVE  Good(q)
<1> DEFINE r == rq[q]
           top == Top(q)
           s == Pop(r)
<1>1. r \in Context /\ Sound(r) /\ HeldInv(q) /\ r.pc = "unwind" /\ top # "Recovery"
      /\ top = r.stack[Len(r.stack)]
  BY Before DEF Unwind, Top
<1>2. Becomes(q, s) /\ Deferred(q, top)
  BY DEF Unwind
<1> HIDE DEF top
<1>3. Len(r.stack) >= 1
  BY <1>1, FieldsOf DEF Sound, PcInv
<1>4. s \in Context /\ SameRest(r, s) /\ s.pc = r.pc /\ s.index = r.index
      /\ s.stack = SubSeq(r.stack, 1, Len(r.stack) - 1)
  BY <1>1, <1>3, PopRecordIs
<1> HIDE DEF s
<1>5. /\ Sound(s) /\ ~Going(s)
      /\ \A h : In(r, h) /\ h # top => In(s, h)
  BY <1>1, <1>4, UnwindKeeps
<1>6. ~In(s, "handler")
  <2>1. /\ StackInv(r) /\ s.route = r.route /\ s.path = r.path
    BY <1>1, <1>4 DEF Sound, SameRest
  <2>2. /\ \A h : In(s, h) => In(r, h) /\ h # r.stack[Len(r.stack)]
    BY <1>1, <1>3, <1>4, <1>5, <2>1, PoppedStack
  <2>3. In(r, "handler") => r.stack[Len(r.stack)] = "handler"
    BY <2>1 DEF StackInv, In
  <2> QED  BY <2>2, <2>3
<1>7. /\ entries' = IF top = "Ratelimit" THEN entries \ {q} ELSE entries
      /\ spans' = IF top = "Trace" THEN spans \ {q} ELSE spans
      /\ UNCHANGED <<opSpans, conns>>
  BY <1>2 DEF Deferred
<1>8. /\ q \notin opSpans' /\ q \notin conns'
      /\ (q \in entries' => In(s, "Ratelimit")) /\ (q \in spans' => In(s, "Trace"))
  BY <1>1, <1>5, <1>7 DEF HeldInv
<1>9. s.route = r.route
  BY <1>4 DEF SameRest
<1> QED  BY <1>2, <1>4, <1>5, <1>6, <1>7, <1>8, <1>9, EndingGood

LEMMA RecoverGood ==
  ASSUME NEW q \in Requests, IInv, Recover(q)
  PROVE  Good(q)
<1> DEFINE r == rq[q]
           r0 == IF rq[q].panic = "broken pipe" THEN rq[q]
                 ELSE [rq[q] EXCEPT !.status = 500]
           r1 == Aborted(r0)
           r2 == Pop(r1)
           s == Return(r2)
<1>1. r \in Context /\ Sound(r) /\ HeldInv(q) /\ r.pc = "unwind"
      /\ r.stack[Len(r.stack)] = "Recovery"
  BY Before DEF Recover, Top
<1>2. Becomes(q, s) /\ UNCHANGED <<entries, spans, opSpans, conns>>
  BY DEF Recover, held
<1>3. /\ r0 \in Context /\ r0.stack = r.stack /\ r0.route = r.route
      /\ r0.path = r.path /\ r0.panic = r.panic
      /\ r0.counted = r.counted /\ r0.logged = r.logged
      /\ r.panic = "other" => r0.status = 500
  <2>1. 500 \in Statuses
    BY DEF Statuses
  <2> DEFINE u == [rq[q] EXCEPT !.status = 500]
  <2>2. /\ u \in Context /\ u.stack = r.stack /\ u.route = r.route
        /\ u.path = r.path /\ u.panic = r.panic
        /\ u.counted = r.counted /\ u.logged = r.logged /\ u.status = 500
    BY <1>1, <2>1, StatusIs
  <2>3. CASE r.panic = "broken pipe"
    <3>1. r0 = r /\ r.panic # "other"
      BY <2>3
    <3> HIDE DEF r0
    <3> QED  BY <1>1, <3>1
  <2>4. CASE r.panic # "broken pipe"
    <3>1. r0 = u
      BY <2>4
    <3> HIDE DEF u
    <3> QED  BY <2>2, <3>1
  <2> QED  BY <2>3, <2>4
<1>4. Len(r.stack) >= 1
  BY <1>1, FieldsOf DEF Sound, PcInv
<1> HIDE DEF r0
<1>5. r1 \in Context /\ SameRest(r0, r1) /\ r1.index = 63 /\ r1.stack = r0.stack
  BY <1>3, AbortedIs
<1> HIDE DEF r1
<1>6. r2 \in Context /\ SameRest(r1, r2) /\ r2.index = r1.index
      /\ r2.stack = SubSeq(r1.stack, 1, Len(r1.stack) - 1)
  BY <1>3, <1>4, <1>5, PopRecordIs
<1> HIDE DEF r2
<1>7. s \in Context /\ SameRest(r2, s) /\ s.pc = "loop" /\ s.index = r2.index + 1
      /\ s.stack = r2.stack
  BY <1>6, ReturnIs
<1> HIDE DEF s
<1>8. /\ Sound(s) /\ ~Going(s) /\ ~In(s, "handler")
      /\ \A h : In(r, h) /\ h # "Recovery" => In(s, h)
  <2>1. /\ s.index = 64 /\ s.route = r.route /\ s.path = r.path
        /\ s.panic = r.panic /\ s.counted = r.counted
        /\ s.logged = r.logged /\ s.stack = SubSeq(r.stack, 1, Len(r.stack) - 1)
        /\ r.panic = "other" => s.status = 500
    BY <1>3, <1>5, <1>6, <1>7 DEF SameRest
  <2> QED  BY <1>1, <1>7, <2>1, RecoverKeeps
<1>9. /\ q \notin opSpans /\ q \notin conns
      /\ (q \in entries => In(s, "Ratelimit")) /\ (q \in spans => In(s, "Trace"))
  BY <1>1, <1>8 DEF HeldInv
<1>10. s.route = r.route
  BY <1>3, <1>5, <1>6, <1>7 DEF SameRest
<1> QED  BY <1>2, <1>7, <1>8, <1>9, <1>10, EndingGood

LEMMA EndsGood ==
  ASSUME NEW q \in Requests, IInv, Ends(q)
  PROVE  Good(q)
<1> DEFINE r == rq[q]
           s == [r EXCEPT !.pc = "done"]
<1>1. r \in Context /\ Sound(r) /\ HeldInv(q) /\ r.pc = "loop" /\ r.index >= N(r.route)
      /\ r.stack = <<>>
  <2>1. rq[q] \in Context /\ Sound(rq[q]) /\ HeldInv(q) /\ Len(H(rq[q])) = N(r.route)
    BY Before, FieldsOf
  <2> QED  BY <2>1 DEF Ends, Handlers, H
<1>2. s \in Context /\ SameRest(r, s) /\ s.pc = "done" /\ s.index = r.index
      /\ s.stack = r.stack
  BY <1>1 DEF Context, SameRest
<1>3. Becomes(q, s) /\ UNCHANGED <<entries, spans, opSpans, conns>>
  BY DEF Ends, held
<1> HIDE DEF s
<1>4. ~Going(s) /\ Over(s) /\ Over(r)
  BY <1>1, <1>2 DEF Going, Over, SameRest
<1>5. StackInv(s) /\ \A h : In(s, h) <=> In(r, h)
  BY <1>1, <1>2, <1>4, SameStack DEF Sound, SameRest
<1>6. \A h : ~In(s, h)
  <2>1. Len(<<>>) = 0
    OBVIOUS
  <2> QED  BY <1>1, <1>2, <2>1 DEF In
<1>7. PcInv(s)
  BY <1>1, <1>2, <1>4, <1>6 DEF PcInv, SameRest
<1>8. LogInv(s)
  <2>1. Len(<<>>) = 0
    OBVIOUS
  <2> QED  BY <1>1, <1>2, <1>4, <2>1 DEF Sound, LogInv, SameRest
<1>9. CountInv(s)
  <2>1. H(s) = H(r)
    BY <1>2 DEF H, SameRest
  <2> QED  BY <1>1, <1>2, <1>4, <1>5, <2>1 DEF Sound, CountInv, SameRest
<1>10. Sound(s)
  BY <1>5, <1>7, <1>8, <1>9 DEF Sound
<1>11. q \notin opSpans /\ q \notin conns /\ q \notin entries /\ q \notin spans
  BY <1>1, <1>5, <1>6 DEF HeldInv
<1>12. s.route = r.route
  BY <1>2 DEF SameRest
<1> QED  BY <1>2, <1>3, <1>4, <1>6, <1>10, <1>11, <1>12, EndingGood

LEMMA ArriveGood ==
  ASSUME NEW q \in Requests, IInv, Arrive(q)
  PROVE  Good(q)
<1> DEFINE r == rq[q]
<1>1. PICK route \in Routes, path \in {"/metrics", "other"} :
        Becomes(q, [rq[q] EXCEPT !.pc = "loop", !.route = route, !.path = path,
                      !.status = IF route = "noRoute" THEN 404 ELSE 200])
  BY DEF Arrive
<1> DEFINE s == [rq[q] EXCEPT !.pc = "loop", !.route = route, !.path = path,
                   !.status = IF route = "noRoute" THEN 404 ELSE 200]
<1>2. r \in Context /\ Sound(r) /\ HeldInv(q) /\ TypeOK /\ r.pc = "new"
      /\ UNCHANGED <<entries, spans, opSpans, conns>>
  BY Before DEF Arrive, held
<1>3. /\ s \in Context /\ s.pc = "loop" /\ s.index = r.index /\ s.stack = r.stack
      /\ s.panic = r.panic /\ s.counted = r.counted /\ s.logged = r.logged
  <2> DEFINE st == IF route = "noRoute" THEN 404 ELSE 200
  <2>1. st \in Statuses
    BY DEF Statuses
  <2>2. s = [rq[q] EXCEPT !.pc = "loop", !.route = route, !.path = path, !.status = st]
    OBVIOUS
  <2> HIDE DEF s, st
  <2> QED  BY <1>2, <2>1, <2>2 DEF Context
<1>4. Becomes(q, s)
  BY <1>1
<1> HIDE DEF s
<1>5. /\ rq'[q] = s /\ rq' = [rq EXCEPT ![q] = rq'[q]]
      /\ rq' \in [Requests -> Context] /\ setup' = setup
      /\ setup' \in [tracing : BOOLEAN, limited : BOOLEAN]
  BY <1>2, <1>3, <1>4, BecomesIs
<1>6. s.stack = <<>> /\ Len(s.stack) = 0 /\ s.index = 0
      /\ s.logged = <<>> /\ s.panic = "none"
      /\ s.counted = <<>> /\ \A h : ~In(s, h)
  <2>1. r.stack = <<>> /\ r.index = 0 /\ r.logged = <<>> /\ r.panic = "none"
        /\ r.counted = <<>>
    BY <1>2 DEF Sound, PcInv, LogInv, CountInv, Over
  <2>2. Len(<<>>) = 0
    OBVIOUS
  <2> QED  BY <1>3, <2>1, <2>2 DEF In
<1>7. Going(s) /\ ~Over(s)
  <2>1. N(s.route) \in 4..7
    BY <1>3, FieldsOf
  <2> QED  BY <1>3, <1>6, <2>1 DEF Going, Over
<1>8. StackInv(s)
  BY <1>6 DEF StackInv
<1>9. PcInv(s)
  <2>1. Len(s.stack) <= s.index /\ ~(s.index >= 1) /\ ~(s.index >= 2)
    BY <1>6
  <2>2. /\ s.pc # "new" /\ s.pc # "unwind" /\ s.pc # "done"
        /\ ~(s.pc \in {"body", "wait", "conn"})
    BY <1>3
  <2>3. ~In(s, "handler")
    BY <1>6
  <2> QED  BY <1>7, <2>1, <2>2, <2>3 DEF PcInv
<1>10. LogInv(s)
  BY <1>3, <1>6, <1>7 DEF LogInv
<1>11. CountInv(s)
  BY <1>6 DEF CountInv
<1>12. OthersKept(q) /\ TypeOK'
  BY <1>2, <1>5 DEF OthersKept, TypeOK
<1>13. PassInv(q)'
  <2>1. \A k \in 1..(N(s.route) - 1) : ~(k <= s.index)
    BY <1>3, <1>6, FieldsOf
  <2> QED  BY <1>5, <1>6, <2>1 DEF PassInv
<1>14. HeldInv(q)'
  <2>1. \A h : ~In(r, h)
    BY <1>3, <1>6 DEF In
  <2> QED  BY <1>2, <1>5, <2>1 DEF HeldInv
<1> QED  BY <1>5, <1>8, <1>9, <1>10, <1>11, <1>12, <1>13, <1>14 DEF Good, Sound

-----------------------------------------------------------------------------
(* The invariant.                                                          *)

LEMMA InitIs ==
  ASSUME Init
  PROVE  IInv
<1> DEFINE r0 == [pc |-> "new", index |-> 0, stack |-> <<>>, status |-> 200,
                  claims |-> FALSE, route |-> "noRoute", path |-> "other", ops |-> 0,
                  panic |-> "none", counted |-> <<>>, logged |-> <<>>]
<1>1. r0 \in Context /\ r0.pc = "new" /\ r0.index = 0 /\ r0.stack = <<>>
      /\ Len(r0.stack) = 0 /\ r0.panic = "none" /\ r0.counted = <<>> /\ r0.logged = <<>>
  BY LimitsAssumption DEF Context, Statuses, Routes
<1>2. rq = [q \in Requests |-> r0]
      /\ setup \in [tracing : BOOLEAN, limited : BOOLEAN]
      /\ entries = {} /\ spans = {} /\ opSpans = {} /\ conns = {}
  BY DEF Init
<1> HIDE DEF r0
<1>3. TypeOK
  BY <1>1, <1>2 DEF TypeOK
<1>4. ~Going(r0) /\ ~Over(r0) /\ \A h : ~In(r0, h)
  BY <1>1 DEF Going, Over, In
<1>5. StackInv(r0) /\ PcInv(r0) /\ LogInv(r0) /\ CountInv(r0)
  BY <1>1, <1>4 DEF StackInv, PcInv, LogInv, CountInv
<1>6. \A q \in Requests : PassInv(q) /\ HeldInv(q)
  BY <1>2, <1>4 DEF PassInv, HeldInv
<1> QED  BY <1>2, <1>3, <1>5, <1>6 DEF IInv, GoodRequest, Sound

(* A good step of one request leaves the others as they were.              *)
LEMMA GoodIs ==
  ASSUME NEW q \in Requests, IInv, Good(q)
  PROVE  IInv'
<1> SUFFICES ASSUME NEW p \in Requests
             PROVE  GoodRequest(p)'
  BY DEF Good, IInv
<1>1. CASE p = q
  BY <1>1 DEF Good, GoodRequest
<1>2. CASE p # q
  <2>1. rq'[p] = rq[p] /\ setup' = setup
        /\ (p \in entries' <=> p \in entries) /\ (p \in spans' <=> p \in spans)
        /\ (p \in opSpans' <=> p \in opSpans) /\ (p \in conns' <=> p \in conns)
    BY <1>2 DEF Good, OthersKept, IInv, TypeOK
  <2>2. Sound(rq[p]) /\ PassInv(p) /\ HeldInv(p)
    BY DEF IInv, GoodRequest
  <2> QED  BY <2>1, <2>2 DEF GoodRequest, PassInv, Passed, HeldInv
<1> QED  BY <1>1, <1>2

LEMMA StepIs ==
  ASSUME IInv, [Next]_vars
  PROVE  IInv'
<1>1. ASSUME NEW q \in Requests, Arrive(q) \/ Serve(q)
      PROVE  Good(q)
  BY <1>1, ArriveGood, PassOnGood, TraceGood, JwtAcceptsGood, RefusesGood, AdmitGood,
     WorkGood, ReplyGood, HandlerPanicsGood, StartOpGood, TakeConnGood, FinishOpGood,
     LeaveGood, CountPanicsGood, UnwindGood, RecoverGood, EndsGood DEF Serve
<1>2. CASE Next
  BY <1>1, <1>2, GoodIs DEF Next
<1>3. CASE UNCHANGED vars
  BY <1>3 DEF vars, held, IInv, TypeOK, GoodRequest, PassInv, Passed, HeldInv
<1> QED  BY <1>2, <1>3

THEOREM Invariance == Spec => []IInv
<1>1. Init => IInv
  BY InitIs
<1>2. IInv /\ [Next]_vars => IInv'
  BY StepIs
<1> QED  BY <1>1, <1>2, PTL DEF Spec

(* Every variable of the model keeps its type, for every choice of         *)
(* middleware of http/.                                                    *)
THEOREM TypeCorrect == Spec => []TypeOK
<1>1. IInv => TypeOK
  BY DEF IInv
<1> QED  BY <1>1, Invariance, PTL

(* Whichever way a request goes, entries, spans and connections are given  *)
(* back (the defers of ratelimit.go, trace.go and sql.go).                 *)
THEOREM NoLeak == Spec => []NothingLeaked
<1>1. IInv => NothingLeaked
  BY DEF IInv, TypeOK, GoodRequest, HeldInv, NothingLeaked, OnStack, In
<1> QED  BY <1>1, Invariance, PTL

(* The handler runs only for requests that jwt.go and ratelimit.go let     *)
(* pass, in whatever order they are used, and inside the span of trace.go  *)
(* and the entry of ratelimit.go.                                          *)
THEOREM AdmittedOnly == Spec => []OnlyAdmitted
<1>1. IInv => OnlyAdmitted
  <2> SUFFICES ASSUME IInv, NEW q \in Requests, OnStack(q, "handler"),
                      NEW i \in 1..Len(Handlers(q))
               PROVE  LET h == Handlers(q)[i] IN
                      /\ h = "Trace" /\ setup.tracing => q \in spans
                      /\ h = "Jwt" => rq[q].claims
                      /\ h = "Ratelimit" /\ setup.limited => q \in entries
    BY DEF OnlyAdmitted
  <2>1. rq[q] \in Context /\ PassInv(q) /\ In(rq[q], "handler") /\ Handlers(q) = H(rq[q])
    BY Before DEF OnStack, In, Handlers, H
  <2>2. i \in 1..(N(rq[q].route) - 1) \/ H(rq[q])[i] \in {"handler", "noRoute"}
    <3>1. /\ i \in 1..N(rq[q].route) /\ N(rq[q].route) \in 4..7
          /\ H(rq[q])[N(rq[q].route)] \in {"handler", "noRoute"}
      BY <2>1, FieldsOf
    <3>2. i \in 1..(N(rq[q].route) - 1) \/ i = N(rq[q].route)
      BY <3>1
    <3> QED  BY <3>1, <3>2
  <2> QED  BY <2>1, <2>2 DEF PassInv, Passed
<1> QED  BY <1>1, Invariance, PTL

(* Every finished request left one line in the log of logger.go, with the  *)
(* status that recovery.go gave it if it panicked.                         *)
THEOREM LogOnce == Spec => []LoggedOnce
<1>1. IInv => LoggedOnce
  BY DEF IInv, GoodRequest, Sound, LogInv, PcInv, Over, LoggedOnce
<1> QED  BY <1>1, Invariance, PTL

(* What metrics.go counts is what logger.go logs: nothing twice, nothing   *)
(* of a panic or of the path /metrics, with another status nothing; and    *)
(* all the rest, with Metrics next to motor's three.                       *)
THEOREM CountAgrees == Spec => []CountedAsLogged
<1>1. IInv => CountedAsLogged
  <2> SUFFICES ASSUME IInv, NEW q \in Requests, rq[q].pc = "done"
               PROVE  /\ rq[q].counted \in {<<>>, rq[q].logged}
                      /\ rq[q].panic # "none" \/ rq[q].path = "/metrics"
                           => rq[q].counted = <<>>
                      /\ (Handlers(q)[4] = "Metrics" /\ rq[q].panic = "none"
                            /\ rq[q].path = "other")
                           => rq[q].counted # <<>>
    BY DEF CountedAsLogged
  <2>1. rq[q] \in Context /\ Sound(rq[q]) /\ Handlers(q) = H(rq[q])
    BY Before DEF Handlers, H
  <2>2. /\ rq[q].index >= N(rq[q].route) /\ rq[q].stack = <<>>
        /\ rq[q].logged = <<rq[q].status>>
    BY <2>1 DEF Sound, PcInv, LogInv, Over
  <2>3. ~In(rq[q], "Metrics")
    <3>1. Len(<<>>) = 0
      OBVIOUS
    <3> QED  BY <2>2, <3>1 DEF In
  <2>4. rq[q].index >= 4
    <3>1. rq[q].index \in Nat /\ N(rq[q].route) \in 4..7
      BY <2>1, FieldsOf
    <3> QED  BY <2>2, <3>1
  <2>5. rq[q].counted = <<>> \/ /\ rq[q].counted = rq[q].logged
                                /\ rq[q].panic = "none" /\ rq[q].path = "other"
    BY <2>1, <2>2 DEF Sound, CountInv
  <2>6. /\ Handlers(q)[4] = "Metrics" /\ rq[q].panic = "none" /\ rq[q].path = "other"
          => rq[q].counted # <<>>
    BY <2>1, <2>3, <2>4 DEF Sound, CountInv
  <2>7. rq[q].counted \in {<<>>, rq[q].logged}
    BY <2>5
  <2>8. "other" # "/metrics"
    OBVIOUS
  <2>9. rq[q].panic # "none" \/ rq[q].path = "/metrics" => rq[q].counted = <<>>
    BY <2>5, <2>8, Zenon
  <2> QED  BY <2>6, <2>7, <2>9, Zenon
<1> QED  BY <1>1, Invariance, PTL

-----------------------------------------------------------------------------
(* How long a request takes.                                               *)

(* A bound on the steps that a request still takes: 3 for every query, 3   *)
(* for every handler that is still to be called (its call, its return or   *)
(* panic, and unwinding it), 2 for every handler on the stack.             *)
Left(r) ==
  LET queries == 3 * (MaxOps - r.ops) IN
  CASE r.pc = "new"    -> 3 * MaxOps + 23
    [] r.pc = "loop"   -> 2 * Len(r.stack) + 1
                          + (IF Going(r) THEN 3 * (7 - r.index) + 3 * MaxOps ELSE 0)
    [] r.pc = "body"   -> 2 * Len(r.stack) + 1 + queries
    [] r.pc = "wait"   -> 2 * Len(r.stack) + 3 + queries
    [] r.pc = "conn"   -> 2 * Len(r.stack) + 2 + queries
    [] r.pc = "unwind" -> 2 * Len(r.stack)
    [] r.pc = "done"   -> 0

Less(r, s) == Left(s) \in Nat /\ Left(s) < Left(r)

LEMMA LeftIs ==
  ASSUME NEW r \in Context
  PROVE  /\ r.pc = "new" => Left(r) = 3 * MaxOps + 23
         /\ Going(r) => Left(r) = 2 * Len(r.stack) + 1 + 3 * (7 - r.index) + 3 * MaxOps
         /\ r.pc = "loop" /\ ~Going(r) => Left(r) = 2 * Len(r.stack) + 1
         /\ r.pc = "body" => Left(r) = 2 * Len(r.stack) + 1 + 3 * (MaxOps - r.ops)
         /\ r.pc = "wait" => Left(r) = 2 * Len(r.stack) + 3 + 3 * (MaxOps - r.ops)
         /\ r.pc = "conn" => Left(r) = 2 * Len(r.stack) + 2 + 3 * (MaxOps - r.ops)
         /\ r.pc = "unwind" => Left(r) = 2 * Len(r.stack)
         /\ r.pc = "done" => Left(r) = 0
         /\ MaxOps \in Nat /\ r.ops \in 0..MaxOps /\ Len(r.stack) \in Nat
         /\ r.index \in Nat /\ (Going(r) => r.index < 7 /\ r.pc = "loop")
<1>1. MaxOps \in Nat /\ r.ops \in 0..MaxOps /\ Len(r.stack) \in Nat /\ r.index \in Nat
  BY FieldsOf, LimitsAssumption DEF Context
<1>2. Going(r) => r.index < 7 /\ r.pc = "loop"
  <2>1. N(r.route) \in 4..7
    BY FieldsOf
  <2> QED  BY <1>1, <2>1 DEF Going
<1>3. r.pc = "loop" => Left(r) = 2 * Len(r.stack) + 1
        + (IF Going(r) THEN 3 * (7 - r.index) + 3 * MaxOps ELSE 0)
  BY DEF Left
<1>4. /\ r.pc = "new" => Left(r) = 3 * MaxOps + 23
      /\ r.pc = "body" => Left(r) = 2 * Len(r.stack) + 1 + 3 * (MaxOps - r.ops)
      /\ r.pc = "wait" => Left(r) = 2 * Len(r.stack) + 3 + 3 * (MaxOps - r.ops)
      /\ r.pc = "conn" => Left(r) = 2 * Len(r.stack) + 2 + 3 * (MaxOps - r.ops)
      /\ r.pc = "unwind" => Left(r) = 2 * Len(r.stack)
      /\ r.pc = "done" => Left(r) = 0
  BY DEF Left
<1>5. Going(r) => Left(r) = 2 * Len(r.stack) + 1 + 3 * (7 - r.index) + 3 * MaxOps
  <2> HAVE Going(r)
  <2>1. Left(r) = 2 * Len(r.stack) + 1 + (3 * (7 - r.index) + 3 * MaxOps)
    BY <1>2, <1>3
  <2> QED  BY <1>1, <2>1
<1>6. r.pc = "loop" /\ ~Going(r) => Left(r) = 2 * Len(r.stack) + 1
  <2> HAVE r.pc = "loop" /\ ~Going(r)
  <2>1. Left(r) = 2 * Len(r.stack) + 1 + 0
    BY <1>3
  <2> QED  BY <1>1, <2>1
<1> QED  BY <1>1, <1>2, <1>4, <1>5, <1>6

(* The loop calls the next handler, or is told to call none.               *)
LEMMA LoopLess ==
  ASSUME NEW r \in Context, NEW s \in Context, Going(r), s.pc = "loop",
         s.index > r.index, Len(s.stack) <= Len(r.stack) + 1
  PROVE  Less(r, s)
<1> DEFINE d == Len(r.stack)
           e == Len(s.stack)
           i == r.index
           j == s.index
<1>1. Left(r) = 2 * d + 1 + 3 * (7 - i) + 3 * MaxOps
  BY LeftIs
<1>2. \/ Left(s) = 2 * e + 1 + 3 * (7 - j) + 3 * MaxOps /\ j < 7
      \/ Left(s) = 2 * e + 1
  BY LeftIs
<1>3. /\ MaxOps \in Nat /\ d \in Nat /\ e \in Nat /\ i \in Nat /\ j \in Nat
      /\ i < 7 /\ j > i /\ e <= d + 1
  BY LeftIs
<1> HIDE DEF d, e, i, j
<1>4. CASE Left(s) = 2 * e + 1 + 3 * (7 - j) + 3 * MaxOps /\ j < 7
  BY <1>1, <1>3, <1>4 DEF Less
<1>5. CASE Left(s) = 2 * e + 1
  BY <1>1, <1>3, <1>5 DEF Less
<1> QED  BY <1>2, <1>4, <1>5

(* A handler returns, or Recovery stops a panic.                           *)
LEMMA PopLess ==
  ASSUME NEW r \in Context, NEW s \in Context, r.pc \in {"loop", "body", "unwind"},
         s.pc = "loop", ~Going(s), Len(s.stack) = Len(r.stack) - 1
  PROVE  Less(r, s)
<1> DEFINE d == Len(r.stack)
           e == Len(s.stack)
           i == r.index
           k == r.ops
<1>1. Left(s) = 2 * e + 1
  BY LeftIs
<1>2. \/ Left(r) = 2 * d + 1 + 3 * (7 - i) + 3 * MaxOps /\ i < 7
      \/ Left(r) = 2 * d + 1
      \/ Left(r) = 2 * d + 1 + 3 * (MaxOps - k)
      \/ Left(r) = 2 * d
  BY LeftIs
<1>3. /\ MaxOps \in Nat /\ d \in Nat /\ e \in Nat /\ i \in Nat /\ k \in 0..MaxOps
      /\ e = d - 1
  BY LeftIs
<1> HIDE DEF d, e, i, k
<1>4. CASE Left(r) = 2 * d + 1 + 3 * (7 - i) + 3 * MaxOps /\ i < 7
  BY <1>1, <1>3, <1>4 DEF Less
<1>5. CASE Left(r) = 2 * d + 1 \/ Left(r) = 2 * d
  BY <1>1, <1>3, <1>5 DEF Less
<1>6. CASE Left(r) = 2 * d + 1 + 3 * (MaxOps - k)
  BY <1>1, <1>3, <1>6 DEF Less
<1> QED  BY <1>2, <1>4, <1>5, <1>6

(* A handler panics.                                                       *)
LEMMA PanicLess ==
  ASSUME NEW r \in Context, NEW s \in Context,
         r.pc \in {"loop", "body", "conn"}, s.pc = "unwind", s.stack = r.stack
  PROVE  Less(r, s)
<1> DEFINE d == Len(r.stack)
           i == r.index
           k == r.ops
<1>1. Left(s) = 2 * d
  BY LeftIs
<1>2. \/ Left(r) = 2 * d + 1 + 3 * (7 - i) + 3 * MaxOps /\ i < 7
      \/ Left(r) = 2 * d + 1
      \/ Left(r) = 2 * d + 1 + 3 * (MaxOps - k)
      \/ Left(r) = 2 * d + 2 + 3 * (MaxOps - k)
  BY LeftIs
<1>3. MaxOps \in Nat /\ d \in Nat /\ i \in Nat /\ k \in 0..MaxOps
  BY LeftIs
<1> HIDE DEF d, i, k
<1>4. CASE Left(r) = 2 * d + 1 + 3 * (7 - i) + 3 * MaxOps /\ i < 7
  BY <1>1, <1>3, <1>4 DEF Less
<1>5. CASE Left(r) = 2 * d + 1
  BY <1>1, <1>3, <1>5 DEF Less
<1>6. CASE \/ Left(r) = 2 * d + 1 + 3 * (MaxOps - k)
           \/ Left(r) = 2 * d + 2 + 3 * (MaxOps - k)
  BY <1>1, <1>3, <1>6 DEF Less
<1> QED  BY <1>2, <1>4, <1>5, <1>6

(* The queries of a handler.                                               *)
LEMMA QueryLess ==
  ASSUME NEW r \in Context, NEW s \in Context, s.stack = r.stack,
         \/ r.pc = "body" /\ s.pc \in {"body", "wait"} /\ s.ops = r.ops + 1
         \/ r.pc = "wait" /\ s.pc = "conn" /\ s.ops = r.ops
         \/ r.pc = "conn" /\ s.pc = "body" /\ s.ops = r.ops
  PROVE  Less(r, s)
<1> DEFINE d == Len(r.stack)
           k == r.ops
           m == s.ops
<1>1. /\ MaxOps \in Nat /\ k \in 0..MaxOps /\ m \in 0..MaxOps /\ d \in Nat
      /\ Len(s.stack) = d
  BY LeftIs
<1>2. /\ r.pc = "body" => Left(r) = 2 * d + 1 + 3 * (MaxOps - k)
      /\ r.pc = "wait" => Left(r) = 2 * d + 3 + 3 * (MaxOps - k)
      /\ r.pc = "conn" => Left(r) = 2 * d + 2 + 3 * (MaxOps - k)
      /\ s.pc = "body" => Left(s) = 2 * d + 1 + 3 * (MaxOps - m)
      /\ s.pc = "wait" => Left(s) = 2 * d + 3 + 3 * (MaxOps - m)
      /\ s.pc = "conn" => Left(s) = 2 * d + 2 + 3 * (MaxOps - m)
  BY <1>1, LeftIs
<1>3. \/ /\ Left(r) = 2 * d + 1 + 3 * (MaxOps - k) /\ m = k + 1
         /\ Left(s) \in {2 * d + 1 + 3 * (MaxOps - m), 2 * d + 3 + 3 * (MaxOps - m)}
      \/ /\ Left(r) = 2 * d + 3 + 3 * (MaxOps - k) /\ m = k
         /\ Left(s) = 2 * d + 2 + 3 * (MaxOps - m)
      \/ /\ Left(r) = 2 * d + 2 + 3 * (MaxOps - k) /\ m = k
         /\ Left(s) = 2 * d + 1 + 3 * (MaxOps - m)
  BY <1>2
<1> HIDE DEF d, k, m
<1>4. Left(s) \in Nat /\ Left(s) < Left(r)
  BY <1>1, <1>3
<1> QED  BY <1>4 DEF Less

(* The steps at a turn of the loop.                                        *)
LEMMA TurnLess ==
  ASSUME NEW q \in Requests, IInv, NEW h, Turn(q, h), NEW s \in Context, Becomes(q, s),
         \/ /\ s.pc = "loop" /\ s.index > rq[q].index
            /\ Len(s.stack) <= Len(rq[q].stack) + 1
         \/ s.pc = "unwind" /\ s.stack = rq[q].stack
  PROVE  Less(rq[q], rq'[q])
<1>1. rq[q] \in Context /\ Going(rq[q]) /\ rq[q].pc = "loop" /\ rq'[q] = s
  BY Before, BecomesIs DEF Going
<1> QED  BY <1>1, LoopLess, PanicLess

LEMMA DeeperLess ==
  ASSUME NEW q \in Requests, IInv,
         NEW h \in {"Logger", "Recovery", "Trace", "Metrics", "Ratelimit"},
         Turn(q, h), Becomes(q, NextOf(rq[q], h))
  PROVE  Less(rq[q], rq'[q])
<1> DEFINE r == rq[q]
           s == NextOf(r, h)
<1>1. r \in Context /\ Sound(r) /\ Going(r) /\ h = H(r)[r.index + 1]
  BY Before
<1>2. s \in Context /\ s.pc = "loop" /\ s.index = r.index + 1
      /\ s.stack = Append(r.stack, h)
  BY <1>1, NextKeeps DEF Going
<1>3. Len(s.stack) = Len(r.stack) + 1 /\ Len(r.stack) \in Nat /\ s.index > r.index
  BY <1>1, <1>2, FieldsOf
<1>4. Becomes(q, s)
  OBVIOUS
<1> HIDE DEF s
<1> QED  BY <1>2, <1>3, <1>4, TurnLess

(* A handler aborts, with the answer r1.                                   *)
LEMMA AbortLess ==
  ASSUME NEW q \in Requests, IInv, NEW h, Turn(q, h), NEW r1 \in Context,
         r1.stack = rq[q].stack, Becomes(q, Return(Aborted(r1)))
  PROVE  Less(rq[q], rq'[q])
<1> DEFINE r == rq[q]
           r2 == Aborted(r1)
           s == Return(r2)
<1>1. r \in Context /\ r.index < 7 /\ r.index \in Nat /\ Len(r.stack) \in Nat
  BY Before, LeftIs
<1>2. Becomes(q, s)
  OBVIOUS
<1>3. r2 \in Context /\ r2.index = 63 /\ r2.stack = r1.stack
  BY AbortedIs
<1> HIDE DEF r2
<1>4. s \in Context /\ s.pc = "loop" /\ s.index = r2.index + 1 /\ s.stack = r2.stack
  BY <1>3, ReturnIs
<1> HIDE DEF s
<1>5. s.index > r.index /\ Len(s.stack) <= Len(r.stack) + 1
  BY <1>1, <1>3, <1>4
<1> QED  BY <1>2, <1>4, <1>5, TurnLess

LEMMA AnswerLess ==
  ASSUME NEW q \in Requests, IInv, NEW h, Turn(q, h), NEW st \in Statuses, Answer(q, st)
  PROVE  Less(rq[q], rq'[q])
<1> DEFINE r1 == [rq[q] EXCEPT !.status = st]
<1>1. r1 \in Context /\ r1.stack = rq[q].stack
  BY Before, StatusIs
<1>2. Becomes(q, Return(Aborted(r1)))
      \/ \E e \in {"other", "broken pipe"} : Becomes(q, Panic(r1, e))
  BY DEF Answer
<1> HIDE DEF r1
<1>3. ASSUME NEW e \in {"other", "broken pipe"}, Becomes(q, Panic(r1, e))
      PROVE  Less(rq[q], rq'[q])
  <2> DEFINE t == Panic(r1, e)
  <2>1. t \in Context /\ t.pc = "unwind" /\ t.stack = rq[q].stack
    BY <1>1 DEF Panic, Context
  <2>2. Becomes(q, t)
    BY <1>3
  <2> HIDE DEF t
  <2> QED  BY <2>1, <2>2, TurnLess
<1>4. ASSUME Becomes(q, Return(Aborted(r1)))  PROVE Less(rq[q], rq'[q])
  BY <1>1, <1>4, AbortLess
<1> QED  BY <1>2, <1>3, <1>4, Zenon

LEMMA AcceptLess ==
  ASSUME NEW q \in Requests, IInv, JwtAccepts(q)
  PROVE  Less(rq[q], rq'[q])
<1> DEFINE r == rq[q]
           s == Return([r EXCEPT !.claims = TRUE])
<1>1. r \in Context /\ Turn(q, "Jwt") /\ Becomes(q, s)
  BY Before DEF JwtAccepts
<1>2. s \in Context /\ s.pc = "loop" /\ s.index = r.index + 1 /\ s.stack = r.stack
  BY <1>1, AcceptedIs
<1> HIDE DEF s
<1>3. s.index > r.index /\ Len(s.stack) <= Len(r.stack) + 1
  <2>1. r.index \in Nat /\ Len(r.stack) \in Nat
    BY <1>1, FieldsOf
  <2>2. Len(s.stack) = Len(r.stack)
    BY <1>2
  <2> QED  BY <1>2, <2>1, <2>2
<1> QED  BY <1>1, <1>2, <1>3, TurnLess

LEMMA WorkLess ==
  ASSUME NEW q \in Requests, IInv, Work(q)
  PROVE  Less(rq[q], rq'[q])
<1> DEFINE r == rq[q]
           s == [r EXCEPT !.pc = "body", !.stack = Append(r.stack, "handler")]
<1>1. r \in Context /\ r.pc = "loop" /\ Going(r)
  BY Before DEF Work, Going
<1>2. "handler" \in Stack
  BY DEF Stack
<1>3. /\ Append(r.stack, "handler") \in Seq(Stack)
      /\ Len(Append(r.stack, "handler")) = Len(r.stack) + 1
  BY <1>1, <1>2, FieldsOf, PushIs
<1>4. s \in Context /\ s.pc = "body" /\ s.ops = r.ops /\ Len(s.stack) = Len(r.stack) + 1
  BY <1>1, <1>3 DEF Context, Stack
<1>5. rq'[q] = s
  <2>1. Becomes(q, s)
    BY <1>1 DEF Work, Context
  <2> QED  BY <1>4, <2>1, Before, BecomesIs
<1> HIDE DEF s
<1>6. /\ Left(r) = 2 * Len(r.stack) + 1 + 3 * (7 - r.index) + 3 * MaxOps
      /\ Left(s) = 2 * Len(s.stack) + 1 + 3 * (MaxOps - s.ops)
      /\ MaxOps \in Nat /\ s.ops \in 0..MaxOps /\ Len(r.stack) \in Nat
      /\ r.index \in Nat /\ r.index < 7
  BY <1>1, <1>4, LeftIs
<1>7. Left(s) \in Nat /\ Left(s) < Left(r)
  <2> DEFINE d == Len(r.stack)
             k == s.ops
             i == r.index
  <2>1. /\ Left(r) = 2 * d + 1 + 3 * (7 - i) + 3 * MaxOps
        /\ Left(s) = 2 * (d + 1) + 1 + 3 * (MaxOps - k)
        /\ MaxOps \in Nat /\ k \in 0..MaxOps /\ d \in Nat /\ i \in Nat /\ i < 7
    BY <1>4, <1>6
  <2> HIDE DEF d, k, i
  <2> QED  BY <2>1
<1> QED  BY <1>5, <1>7 DEF Less

(* The top handler returns from r1 to the loop that called it.             *)
LEMMA ReturnLess ==
  ASSUME NEW q \in Requests, IInv, NEW r1 \in Context, Becomes(q, Return(Pop(r1))),
         rq[q].pc \in {"loop", "body", "unwind"}, r1.index + 1 >= N(r1.route),
         r1.stack = rq[q].stack, Len(rq[q].stack) >= 1
  PROVE  Less(rq[q], rq'[q])
<1> DEFINE r2 == Pop(r1)
           s == Return(r2)
<1>1. rq[q] \in Context /\ Becomes(q, s)
  BY Before
<1>2. r2 \in Context /\ r2.index = r1.index /\ r2.route = r1.route
      /\ r2.stack = SubSeq(r1.stack, 1, Len(r1.stack) - 1)
  BY PopRecordIs DEF SameRest
<1> HIDE DEF r2
<1>3. s \in Context /\ s.pc = "loop" /\ s.index = r1.index + 1 /\ s.route = r1.route
      /\ s.stack = SubSeq(r1.stack, 1, Len(r1.stack) - 1)
  BY <1>2, ReturnIs DEF SameRest
<1> HIDE DEF s
<1>4. Len(s.stack) = Len(rq[q].stack) - 1
  BY <1>1, <1>3, FieldsOf, PopIs
<1>5. rq'[q] = s
  BY <1>1, <1>3, Before, BecomesIs
<1>6. ~Going(s)
  <2>1. N(s.route) \in 4..7 /\ s.index \in Nat /\ s.index >= N(s.route)
    BY <1>3, FieldsOf
  <2> QED  BY <2>1 DEF Going
<1> QED  BY <1>1, <1>3, <1>4, <1>5, <1>6, PopLess

(* Every step of a request brings it closer to its end.                    *)
LEMMA ServeLess ==
  ASSUME NEW q \in Requests, IInv, Serve(q)
  PROVE  Less(rq[q], rq'[q])
<1> DEFINE r == rq[q]
<1>0. r \in Context /\ Sound(r) /\ TypeOK /\ Len(H(r)) = N(r.route) /\ N(r.route) \in 4..7
  BY Before, FieldsOf
<1>14. r.pc = "unwind" => Len(r.stack) >= 1
  BY <1>0, FieldsOf DEF Sound, PcInv
<1>1. CASE PassOn(q) \/ Trace(q) \/ Admit(q)
  BY <1>1, DeeperLess DEF PassOn, Trace, Admit
<1>2. CASE JwtRefuses(q) \/ TooMany(q) \/ NoRoute(q)
  <2>1. 200 \in Statuses /\ 404 \in Statuses /\ 429 \in Statuses
    BY DEF Statuses
  <2>2. CASE JwtRefuses(q)
    BY <2>1, <2>2, AnswerLess DEF JwtRefuses
  <2>3. CASE TooMany(q)
    BY <2>1, <2>3, AnswerLess DEF TooMany, Answer
  <2>4. CASE NoRoute(q)
    BY <2>1, <2>4, AnswerLess DEF NoRoute
  <2> QED  BY <1>2, <2>2, <2>3, <2>4
<1>3. CASE Reply(q)
  <2>1. PICK st \in {200, 500} : Becomes(q, Return(Pop([r EXCEPT !.status = st])))
    BY <1>3 DEF Reply
  <2> DEFINE r1 == [r EXCEPT !.status = st]
  <2>2. r1 \in Context /\ r1.index = r.index /\ r1.stack = r.stack /\ r1.route = r.route
    <3>1. st \in Statuses
      BY DEF Statuses
    <3> QED  BY <1>0, <3>1, StatusIs
  <2>3. r.pc = "body" /\ r.index + 1 >= N(r.route) /\ Len(r.stack) >= 1
    BY <1>0, <1>3, FieldsOf DEF Reply, Sound, PcInv
  <2>4. Becomes(q, Return(Pop(r1)))
    BY <2>1
  <2> HIDE DEF r1
  <2> QED  BY <2>2, <2>3, <2>4, ReturnLess
<1>4. ASSUME NEW r1 \in Context, NEW e, Becomes(q, Panic(r1, e)), r1.stack = r.stack,
             e \in {"other", "broken pipe"}, r.pc \in {"loop", "body", "conn"}
      PROVE  Less(r, rq'[q])
  <2> DEFINE s == Panic(r1, e)
  <2>1. s \in Context /\ s.pc = "unwind" /\ s.stack = r.stack
    BY <1>4 DEF Panic, Context
  <2>2. Becomes(q, s)
    BY <1>4
  <2> HIDE DEF s
  <2>3. rq'[q] = s
    BY <1>0, <2>1, <2>2, BecomesIs
  <2> QED  BY <1>0, <1>4, <2>1, <2>3, PanicLess
<1>5. CASE HandlerPanics(q)
  BY <1>0, <1>4, <1>5 DEF HandlerPanics
<1>6. ASSUME NEW s \in Context, Becomes(q, s), s.stack = r.stack,
             \/ r.pc = "body" /\ s.pc \in {"body", "wait"} /\ s.ops = r.ops + 1
             \/ r.pc = "wait" /\ s.pc = "conn" /\ s.ops = r.ops
             \/ r.pc = "conn" /\ s.pc = "body" /\ s.ops = r.ops
      PROVE  Less(r, rq'[q])
  BY <1>0, <1>6, BecomesIs, QueryLess
<1>7. CASE StartOp(q)
  <2> DEFINE r1 == [r EXCEPT !.ops = @ + 1]
             w  == [r1 EXCEPT !.pc = "wait"]
  <2>1. r.pc = "body" /\ (Becomes(q, r1) \/ Becomes(q, Panic(r1, "other"))
                          \/ Becomes(q, w))
    BY <1>7 DEF StartOp
  <2>2. r1 \in Context /\ r1.pc = "body" /\ r1.stack = r.stack /\ r1.ops = r.ops + 1
    <3>1. r.ops < MaxOps
      BY <1>7 DEF StartOp
    <3>2. r.ops \in 0..MaxOps /\ MaxOps \in Nat
      BY <1>0, LimitsAssumption DEF Context
    <3>3. r.ops + 1 \in 0..MaxOps
      BY <3>1, <3>2
    <3> QED  BY <1>0, <2>1, <3>3 DEF Context
  <2> HIDE DEF r1
  <2>3. w \in Context /\ w.pc = "wait" /\ w.stack = r.stack /\ w.ops = r.ops + 1
    BY <2>2 DEF Context
  <2> HIDE DEF w
  <2> QED  BY <1>4, <1>6, <2>1, <2>2, <2>3
<1>8. CASE TakeConn(q)
  <2> DEFINE s == [r EXCEPT !.pc = "conn"]
  <2>1. s \in Context /\ s.pc = "conn" /\ s.stack = r.stack /\ s.ops = r.ops
    BY <1>0 DEF Context
  <2>2. r.pc = "wait" /\ Becomes(q, s)
    BY <1>8 DEF TakeConn
  <2> HIDE DEF s
  <2> QED  BY <1>6, <2>1, <2>2
<1>9. CASE FinishOp(q)
  <2> DEFINE s == [r EXCEPT !.pc = "body"]
  <2>1. s \in Context /\ s.pc = "body" /\ s.stack = r.stack /\ s.ops = r.ops
    BY <1>0 DEF Context
  <2>2. r.pc = "conn" /\ (Becomes(q, s) \/ Becomes(q, Panic(r, "other")))
    BY <1>9 DEF FinishOp
  <2> HIDE DEF s
  <2> QED  BY <1>0, <1>4, <1>6, <2>1, <2>2
<1>10. CASE Leave(q)
  <2> DEFINE r1 == [r EXCEPT
                     !.logged  = IF Top(q) = "Logger" THEN Append(@, r.status) ELSE @,
                     !.counted = IF Counts(q) THEN Append(@, r.status) ELSE @]
  <2>1. r.pc = "loop" /\ r.index >= N(r.route) /\ r.stack # <<>>
        /\ Becomes(q, Return(Pop(r1)))
    BY <1>0, <1>10 DEF Leave, Back, Handlers, H
  <2>2. r1 \in Context /\ r1.stack = r.stack /\ r1.index = r.index /\ r1.route = r.route
    <3>1. r.status \in Statuses /\ r.logged \in Seq(Statuses)
          /\ r.counted \in Seq(Statuses)
      BY <1>0 DEF Context
    <3>2. Append(r.logged, r.status) \in Seq(Statuses)
          /\ Append(r.counted, r.status) \in Seq(Statuses)
      BY <3>1
    <3> QED  BY <1>0, <3>1, <3>2 DEF Context
  <2> HIDE DEF r1
  <2>3. Len(r.stack) >= 1 /\ r1.index + 1 >= N(r.route)
    BY <1>0, <2>1, <2>2, FieldsOf
  <2> QED  BY <2>1, <2>2, <2>3, ReturnLess
<1>11. CASE Unwind(q)
  <2> DEFINE s == Pop(r)
  <2>1. r.pc = "unwind" /\ Becomes(q, s) /\ Len(r.stack) >= 1
    BY <1>0, <1>11, FieldsOf DEF Unwind, Sound, PcInv
  <2>2. s \in Context /\ s.pc = r.pc /\ s.stack = SubSeq(r.stack, 1, Len(r.stack) - 1)
    BY <1>0, <2>1, PopRecordIs
  <2> HIDE DEF s
  <2>3. Len(s.stack) = Len(r.stack) - 1
    BY <1>0, <2>1, <2>2, FieldsOf, PopIs
  <2>4. rq'[q] = s
    BY <1>0, <2>1, <2>2, BecomesIs
  <2>5. Left(r) = 2 * Len(r.stack) /\ Left(s) = 2 * Len(s.stack) /\ Len(s.stack) \in Nat
    BY <1>0, <2>1, <2>2, LeftIs
  <2> QED  BY <2>1, <2>3, <2>4, <2>5, FieldsOf DEF Less
<1>12. CASE Recover(q)
  <2> DEFINE r0 == IF rq[q].panic = "broken pipe" THEN rq[q]
                   ELSE [rq[q] EXCEPT !.status = 500]
             r1 == Aborted(r0)
  <2>1. r.pc = "unwind" /\ Becomes(q, Return(Pop(r1))) /\ Len(r.stack) >= 1
    <3>1. r.pc = "unwind" /\ Becomes(q, Return(Pop(r1)))
      BY <1>12 DEF Recover
    <3>2. Len(r.stack) >= 1
      BY <1>14, <3>1
    <3> QED  BY <3>1, <3>2
  <2>2. r0 \in Context /\ r0.stack = r.stack
    <3>1. 500 \in Statuses
      BY DEF Statuses
    <3> DEFINE u == [rq[q] EXCEPT !.status = 500]
    <3>2. u \in Context /\ u.stack = r.stack
      BY <1>0, <3>1, StatusIs
    <3>3. r0 \in {r, u}
      OBVIOUS
    <3> HIDE DEF u, r0
    <3> QED  BY <1>0, <3>2, <3>3
  <2> HIDE DEF r0
  <2>3. r1 \in Context /\ r1.index = 63 /\ r1.stack = r.stack
    BY <2>2, AbortedIs
  <2> HIDE DEF r1
  <2>4. r1.index + 1 >= N(r1.route)
    <3>1. N(r1.route) \in 4..7
      BY <2>3, FieldsOf
    <3> QED  BY <2>3, <3>1
  <2> QED  BY <2>1, <2>3, <2>4, ReturnLess
<1>13. CASE Ends(q)
  <2> DEFINE s == [r EXCEPT !.pc = "done"]
  <2>1. /\ s \in Context /\ s.pc = "done" /\ Becomes(q, s) /\ r.pc = "loop"
        /\ r.index >= N(r.route)
    BY <1>0, <1>13 DEF Ends, Handlers, H, Context
  <2> HIDE DEF s
  <2>2. rq'[q] = s
    BY <1>0, <2>1, BecomesIs
  <2>3. ~Going(r) /\ Len(r.stack) \in Nat
    BY <1>0, <2>1, FieldsOf DEF Going
  <2>4. Left(r) = 2 * Len(r.stack) + 1 /\ Left(s) = 0
    BY <1>0, <2>1, <2>3, LeftIs
  <2> QED  BY <2>2, <2>3, <2>4 DEF Less
<1>15. CASE CountPanics(q)
  BY <1>0, <1>4, <1>15 DEF CountPanics, Back
<1> QED
  BY <1>1, <1>2, <1>3, <1>5, <1>7, <1>8, <1>9, <1>10, <1>11, <1>12, <1>13, <1>15,
     AcceptLess, WorkLess
  DEF Serve

(* A request is done after at most 3 steps for every query and 23 more,    *)
(* however it ends: every step of it takes one off, and no other request   *)
(* puts one on.  (What EveryRequestAnswered needs of the handlers; that    *)
(* the steps are taken is the fairness.)                                   *)
THEOREM StepsRunOut ==
  Spec => [][\A q \in Requests : Arrive(q) \/ Serve(q) =>
               /\ Left(rq'[q]) \in Nat /\ Left(rq'[q]) < Left(rq[q])
               /\ \A p \in Requests \ {q} : Left(rq'[p]) = Left(rq[p])]_vars
<1> DEFINE Step(q) == /\ Left(rq'[q]) \in Nat /\ Left(rq'[q]) < Left(rq[q])
                      /\ \A p \in Requests \ {q} : Left(rq'[p]) = Left(rq[p])
<1>1. ASSUME IInv, NEW q \in Requests, Arrive(q)
      PROVE  Less(rq[q], rq'[q])
  <2>1. rq[q] \in Context /\ rq[q].pc = "new" /\ rq[q].stack = <<>> /\ rq[q].index = 0
    BY <1>1, Before DEF Arrive, Sound, PcInv
  <2>2. PICK route \in Routes, path \in {"/metrics", "other"} :
          Becomes(q, [rq[q] EXCEPT !.pc = "loop", !.route = route, !.path = path,
                        !.status = IF route = "noRoute" THEN 404 ELSE 200])
    BY <1>1 DEF Arrive
  <2>3. rq'[q].pc = "loop" /\ rq'[q].index = rq[q].index /\ rq'[q].stack = rq[q].stack
    <3> DEFINE s == [rq[q] EXCEPT !.pc = "loop", !.route = route, !.path = path,
                                  !.status = IF route = "noRoute" THEN 404 ELSE 200]
    <3>1. s.pc = "loop" /\ s.index = rq[q].index /\ s.stack = rq[q].stack
      BY <2>1 DEF Context
    <3>2. Becomes(q, s) /\ rq \in [Requests -> Context]
      BY <1>1, <2>2 DEF IInv, TypeOK
    <3> HIDE DEF s
    <3>3. rq'[q] = s
      BY <3>2 DEF Becomes
    <3> QED  BY <3>1, <3>3
  <2>4. rq'[q] \in Context
    BY <1>1, ArriveGood DEF Good, TypeOK
  <2>5. /\ Left(rq[q]) = 3 * MaxOps + 23 /\ MaxOps \in Nat /\ Len(rq'[q].stack) = 0
        /\ rq'[q].index = 0
    BY <2>1, <2>3, LeftIs
  <2>6. Left(rq'[q]) = 0 + 1 + 3 * (7 - 0) + 3 * MaxOps
    <3>1. Going(rq'[q])
      <4>1. N(rq'[q].route) \in 4..7
        BY <2>4, FieldsOf
      <4> QED  BY <2>3, <2>5, <4>1 DEF Going
    <3>2. Left(rq'[q]) = 2 * 0 + 1 + 3 * (7 - 0) + 3 * MaxOps
      BY <2>4, <2>5, <3>1, LeftIs
    <3> QED  BY <3>2
  <2>7. Left(rq'[q]) \in Nat /\ Left(rq'[q]) < Left(rq[q])
    BY <2>5, <2>6
  <2> QED  BY <2>7 DEF Less
<1>2. ASSUME IInv, NEW q \in Requests, Arrive(q) \/ Serve(q)
      PROVE  Step(q)
  <2>1. Less(rq[q], rq'[q])
    BY <1>1, <1>2, ServeLess
  <2>2. OthersKept(q)
    BY <1>2, ArriveGood, PassOnGood, TraceGood, JwtAcceptsGood, RefusesGood, AdmitGood,
       WorkGood, ReplyGood, HandlerPanicsGood, StartOpGood, TakeConnGood, FinishOpGood,
       LeaveGood, CountPanicsGood, UnwindGood, RecoverGood, EndsGood DEF Serve, Good
  <2>3. \A p \in Requests \ {q} : rq'[p] = rq[p]
    BY <1>2, <2>2 DEF OthersKept, IInv, TypeOK
  <2> QED  BY <2>1, <2>3 DEF Less
<1>3. IInv /\ [Next]_vars => [\A q \in Requests : Arrive(q) \/ Serve(q) => Step(q)]_vars
  BY <1>2
<1> QED  BY <1>3, Invariance, PTL DEF Spec

(* Nobody waits for ever because everybody waits: when a query waits for a *)
(* connection and there is none left, some request holds one and is not    *)
(* waiting itself (a request has one query at a time, whose rows are       *)
(* closed before the next).                                                *)
THEOREM HoldersDoNotWait ==
  Spec => [](\A q \in Requests : rq[q].pc = "wait" /\ ~(Cardinality(conns) < MaxConns) =>
               \E p \in Requests \ {q} : p \in conns /\ rq[p].pc = "conn")
<1>1. IInv => \A q \in Requests : rq[q].pc = "wait" /\ ~(Cardinality(conns) < MaxConns) =>
                \E p \in Requests \ {q} : p \in conns /\ rq[p].pc = "conn"
  <2> SUFFICES ASSUME IInv, NEW q \in Requests, rq[q].pc = "wait",
                      ~(Cardinality(conns) < MaxConns)
               PROVE  \E p \in Requests \ {q} : p \in conns /\ rq[p].pc = "conn"
    OBVIOUS
  <2>1. conns # {}
    <3>1. Cardinality({}) = 0
      BY FS_EmptySet
    <3>2. 0 < MaxConns
      BY LimitsAssumption
    <3> QED  BY <3>1, <3>2
  <2>2. \A p \in conns : p \in Requests /\ rq[p].pc = "conn"
    BY DEF IInv, TypeOK, GoodRequest, HeldInv
  <2> QED  BY <2>1, <2>2
<1> QED  BY <1>1, Invariance, PTL
=============================================================================
