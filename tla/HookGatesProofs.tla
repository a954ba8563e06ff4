--------------------------- MODULE HookGatesProofs ---------------------------
(***************************************************************************)
(* Theorems about HookGates, for every set of sessions, skills, plans and  *)
(* calls, every bound and every setting.                                   *)
(*                                                                         *)
(* All of them rest on one fact about the handlers: a step rewrites at     *)
(* most one bucket, and rewrites it in a way (Rewrites) that gives back a  *)
(* bucket, adds nothing unread, arms no empty manifest and loses no entry. *)
(* What eviction does to the other buckets is the same for every writer.   *)
(***************************************************************************)
EXTENDS HookGates, FiniteSetTheorems, TLAPS

Armed(b) == b.active => b.entries # {} /\ b.plan # NoPlan

Grows(old, b) ==
    old.entries # {} =>
        /\ old.entries \subseteq b.entries
        /\ \A e \in b.entries \ old.entries : e.justified

Rewrites(old, b) ==
    /\ b \in Bucket
    /\ Missing(b) \subseteq Missing(old)
    /\ Armed(old) => Armed(b)
    /\ Grows(old, b)
-----------------------------------------------------------------------------
(* Recency lists *)

\* A list of length n given by its entries is a sequence.
LEMMA FunctionIsSeq ==
    ASSUME NEW S, NEW n \in Nat, NEW f, f \in [1..n -> S]
    PROVE  f \in Seq(S) /\ Len(f) = n /\ DOMAIN f = 1..n
OBVIOUS

\* Removing a key leaves a list of the other keys, in their order.
LEMMA WithoutFacts ==
    ASSUME NEW S, NEW q \in Seq(S), NEW x
    PROVE  /\ Without(q, x) \in Seq(S)
           /\ Len(Without(q, x)) <= Len(q)
           /\ x \in Listed(q) => Len(Without(q, x)) = Len(q) - 1
           /\ NoRepeats(q) => /\ NoRepeats(Without(q, x))
                              /\ Listed(Without(q, x)) = Listed(q) \ {x}
<1> DEFINE w == Without(q, x)
<1>1. CASE x \notin Listed(q)
  BY <1>1 DEF Without, Listed
<1>2. CASE x \in Listed(q)
  <2> DEFINE k == CHOOSE i \in DOMAIN q : q[i] = x
  <2>1. k \in 1..Len(q) /\ q[k] = x
    BY <1>2 DEF Listed
  <2>2. w = [i \in 1..(Len(q) - 1) |-> IF i < k THEN q[i] ELSE q[i + 1]]
    BY <1>2 DEF Without
  <2> HIDE DEF k
  <2>3. w \in [1..(Len(q) - 1) -> S] /\ Len(q) - 1 \in Nat
    BY <2>1, <2>2
  <2>4. w \in Seq(S) /\ Len(w) = Len(q) - 1 /\ DOMAIN w = 1..(Len(q) - 1)
    BY <2>3, FunctionIsSeq
  <2>5. ASSUME NoRepeats(q)
        PROVE  NoRepeats(w) /\ Listed(w) = Listed(q) \ {x}
    <3>1. NoRepeats(w)
      BY <2>1, <2>2, <2>4, <2>5 DEF NoRepeats
    <3>2. ASSUME NEW i \in DOMAIN w
          PROVE  w[i] \in Listed(q) \ {x}
      BY <2>1, <2>2, <2>4, <2>5 DEF NoRepeats, Listed
    <3>3. ASSUME NEW j \in DOMAIN q, q[j] # x
          PROVE  \E i \in DOMAIN w : w[i] = q[j]
      <4>1. CASE j < k
        <5>1. j \in DOMAIN w /\ w[j] = q[j]
          BY <2>1, <2>2, <2>4, <4>1
        <5>2. QED BY <5>1
      <4>2. CASE j > k
        <5>1. j - 1 \in DOMAIN w /\ w[j - 1] = q[j]
          BY <2>1, <2>2, <2>4, <4>2
        <5>2. QED BY <5>1
      <4>3. QED BY <2>1, <3>3, <4>1, <4>2
    <3>4. QED BY <3>1, <3>2, <3>3 DEF Listed
  <2>6. QED BY <2>3, <2>4, <2>5
<1>3. QED BY <1>1, <1>2

\* Cutting a list to its newest keys keeps it a list of some of its keys,
\* the last one among them.
LEMMA NewestFacts ==
    ASSUME NEW S, NEW q \in Seq(S), NEW bound \in Nat \ {0}
    PROVE  /\ Newest(q, bound) \in Seq(S)
           /\ Len(Newest(q, bound)) <= bound
           /\ Listed(Newest(q, bound)) \subseteq Listed(q)
           /\ NoRepeats(q) => NoRepeats(Newest(q, bound))
           /\ Len(q) > 0 => q[Len(q)] \in Listed(Newest(q, bound))
<1> DEFINE w == Newest(q, bound)
           cut == Len(q) - bound
<1>1. CASE Len(q) <= bound
  BY <1>1 DEF Newest, Listed
<1>2. CASE Len(q) > bound
  <2>1. w = [i \in 1..bound |-> q[i + cut]] /\ cut \in Nat
    BY <1>2 DEF Newest
  <2>2. \A i \in 1..bound : i + cut \in 1..Len(q)
    BY <1>2
  <2>3. w \in [1..bound -> S]
    BY <2>1, <2>2
  <2>4. w \in Seq(S) /\ Len(w) = bound /\ DOMAIN w = 1..bound
    BY <2>3, FunctionIsSeq
  <2>5. Listed(w) \subseteq Listed(q)
    BY <2>1, <2>2, <2>4 DEF Listed
  <2>6. NoRepeats(q) => NoRepeats(w)
    BY <2>1, <2>2, <2>4 DEF NoRepeats
  <2>7. bound \in DOMAIN w /\ w[bound] = q[Len(q)]
    BY <2>1, <2>4
  <2>8. QED BY <2>4, <2>5, <2>6, <2>7 DEF Listed
<1>3. QED BY <1>1, <1>2

\* Touching a key keeps a bounded list bounded and without repeats, stores
\* the key and brings no other key in.
THEOREM TouchedFacts ==
    ASSUME NEW S, NEW q \in Seq(S), NEW x \in S, NEW bound \in Nat \ {0}
    PROVE  /\ Touched(q, x, bound) \in Seq(S)
           /\ x \in Listed(Touched(q, x, bound))
           /\ NoRepeats(q) =>
                /\ RecencyList(Touched(q, x, bound), bound)
                /\ Listed(Touched(q, x, bound)) \subseteq Listed(q) \cup {x}
<1> DEFINE w == Without(q, x)
           v == Append(w, x)
<1>1. /\ w \in Seq(S)
      /\ NoRepeats(q) => NoRepeats(w) /\ Listed(w) = Listed(q) \ {x}
  BY WithoutFacts
<1> HIDE DEF w
<1>2. /\ v \in Seq(S) /\ Len(v) = Len(w) + 1 /\ v[Len(v)] = x
      /\ \A i \in 1..Len(w) : v[i] = w[i]
  BY <1>1
<1>3. NoRepeats(q) => NoRepeats(v) /\ Listed(v) = Listed(q) \cup {x}
  <2> SUFFICES ASSUME NoRepeats(q)
               PROVE  NoRepeats(v) /\ Listed(v) = Listed(q) \cup {x}
    OBVIOUS
  <2>1. DOMAIN v = 1..(Len(w) + 1) /\ DOMAIN w = 1..Len(w)
    BY <1>1, <1>2
  <2>2. \A i \in 1..Len(w) : w[i] # x
    BY <1>1, <2>1 DEF Listed
  <2>3. NoRepeats(v)
    BY <1>1, <1>2, <2>1, <2>2 DEF NoRepeats
  <2>4. Listed(v) = Listed(w) \cup {x}
    BY <1>1, <1>2, <2>1 DEF Listed
  <2>5. x \in Listed(q) \/ x \notin Listed(q)
    OBVIOUS
  <2>6. QED BY <1>1, <2>3, <2>4
<1>4. Touched(q, x, bound) = Newest(v, bound)
  BY DEF Touched, w
<1> HIDE DEF v
<1>5. QED
  BY <1>1, <1>2, <1>3, <1>4, NewestFacts DEF RecencyList

\* A map that has room for its keys, or already holds the key, loses none.
LEMMA TouchingLosesNone ==
    ASSUME NEW S, NEW q \in Seq(S), NEW x \in S, NEW bound \in Nat \ {0},
           RecencyList(q, bound),
           x \in Listed(q) \/ Len(q) < bound
    PROVE  Listed(Touched(q, x, bound)) = Listed(q) \cup {x}
<1> DEFINE w == Without(q, x)
           v == Append(w, x)
<1>1. /\ w \in Seq(S) /\ Len(w) <= Len(q)
      /\ x \in Listed(q) => Len(w) = Len(q) - 1
      /\ Listed(w) = Listed(q) \ {x}
  BY WithoutFacts DEF RecencyList
<1> HIDE DEF w
<1>2. /\ v \in Seq(S) /\ Len(v) = Len(w) + 1 /\ v[Len(v)] = x
      /\ \A i \in 1..Len(w) : v[i] = w[i]
  BY <1>1
<1>3. Len(v) <= bound
  BY <1>1, <1>2 DEF RecencyList
<1>4. DOMAIN v = 1..(Len(w) + 1) /\ DOMAIN w = 1..Len(w)
  BY <1>1, <1>2
<1>5. Listed(v) = Listed(w) \cup {x}
  BY <1>1, <1>2, <1>4 DEF Listed
<1>6. Touched(q, x, bound) = v
  BY <1>3 DEF Touched, Newest, w
<1>7. QED BY <1>1, <1>5, <1>6
-----------------------------------------------------------------------------
(* The store *)

\* The bucket of a session that is not stored is a bucket.
LEMMA EmptyBucketType == EmptyBucket \in Bucket
BY DEF EmptyBucket, Bucket

\* A write stores its session with the new bucket; every other session keeps
\* its bucket while it is stored, and is empty when it is not.
LEMMA WriteFacts ==
    ASSUME StoreTypeOK, NEW s \in Sessions, NEW b \in Bucket, Write(s, b)
    PROVE  /\ StoreTypeOK'
           /\ s \in Listed(order') /\ bucket'[s] = b
           /\ \A t \in Sessions \ {s} :
                bucket'[t] = IF t \in Listed(order') THEN bucket[t] ELSE EmptyBucket
           /\ NoRepeats(order) => RecencyList(order', MaxSessions)
           /\ NoRepeats(order) => Listed(order') \subseteq Listed(order) \cup {s}
<1>1. /\ order' \in Seq(Sessions)
      /\ s \in Listed(order')
      /\ NoRepeats(order) => /\ RecencyList(order', MaxSessions)
                             /\ Listed(order') \subseteq Listed(order) \cup {s}
  BY TouchedFacts, StoreAssumption DEF StoreTypeOK, Write
<1>2. bucket' \in [Sessions -> Bucket]
  BY EmptyBucketType DEF StoreTypeOK, Write
<1>3. QED
  BY <1>1, <1>2 DEF StoreTypeOK, Write

\* Clearing a session keeps the types, leaves the session empty and the other
\* buckets alone; in a list without repeats the session is gone.
LEMMA ClearFacts ==
    ASSUME StoreTypeOK, NEW s \in Sessions, Clear(s)
    PROVE  /\ StoreTypeOK'
           /\ bucket' = [bucket EXCEPT ![s] = EmptyBucket]
           /\ NoRepeats(order) => /\ NoRepeats(order')
                                  /\ Listed(order') = Listed(order) \ {s}
           /\ Len(order') <= Len(order)
<1>1. order \in Seq(Sessions) /\ order' = Without(order, s)
  BY DEF StoreTypeOK, Clear
<1>2. /\ order' \in Seq(Sessions) /\ Len(order') <= Len(order)
      /\ NoRepeats(order) => NoRepeats(order') /\ Listed(order') = Listed(order) \ {s}
  BY <1>1, WithoutFacts
<1>3. bucket' \in [Sessions -> Bucket]
  BY EmptyBucketType DEF StoreTypeOK, Clear
<1>4. QED BY <1>2, <1>3 DEF StoreTypeOK, Clear

\* A server that has just started has an empty and sound store.
LEMMA ForgetFacts ==
    /\ StoreInit => StoreTypeOK /\ StoreSound
    /\ Forget => (StoreTypeOK /\ StoreSound)' /\ Listed(order') = {}
<1>1. Listed(<<>>) = {} /\ RecencyList(<<>>, MaxSessions) /\ <<>> \in Seq(Sessions)
  BY StoreAssumption DEF Listed, RecencyList, NoRepeats
<1> DEFINE empty == [s \in Sessions |-> EmptyBucket]
<1>2. empty \in [Sessions -> Bucket] /\ \A s \in Sessions : empty[s] = EmptyBucket
  BY EmptyBucketType
<1>3. StoreInit => StoreTypeOK /\ StoreSound
  BY <1>1, <1>2 DEF StoreInit, StoreTypeOK, StoreSound
<1>4. Forget => (StoreTypeOK /\ StoreSound)' /\ Listed(order') = {}
  BY <1>1, <1>2 DEF Forget, StoreTypeOK, StoreSound, Stored
<1>5. QED BY <1>3, <1>4
-----------------------------------------------------------------------------
(* What the handlers do to a bucket *)

\* The skills a prompt requires are artifacts of the corpus.
LEMMA RequiredAreSkills ==
    ASSUME TypeOK, NEW s \in Sessions, NEW scored \in Scored(s),
           NEW req \in CapRequired(Forced, scored)
    PROVE  req \subseteq Skills
<1>1. CachedMatches(s) \subseteq Skills
  <2>1. CASE bucket[s].plan = NoPlan
    BY <2>1 DEF CachedMatches
  <2>2. CASE bucket[s].plan # NoPlan
    <3>1. bucket[s].plan \in PlanPaths
      BY <2>2 DEF TypeOK, StoreTypeOK, Bucket
    <3>2. planEntry[bucket[s].plan].matches \subseteq Skills
      BY <3>1 DEF TypeOK, CacheTypeOK, PlanEntry
    <3>3. QED BY <2>2, <3>2 DEF CachedMatches
  <2>3. QED BY <2>1, <2>2
<1>2. scored \subseteq Skills
  BY <1>1 DEF Scored
<1>3. Forced \subseteq Skills
  BY GateAssumption DEF Forced
<1>4. QED BY <1>2, <1>3 DEF CapRequired

\* A delivery requires exactly what it marks read, and leaves the plan alone.
LEMMA DeliveredRewrites ==
    ASSUME NEW old \in Bucket, NEW req \in SUBSET Skills
    PROVE  Rewrites(old, Delivered(old, req))
BY DEF Rewrites, Delivered, BeginTurn, Bucket, Missing, Armed, Grows

\* A turn that only begins requires nothing and leaves the plan alone.
LEMMA BeginTurnRewrites ==
    ASSUME NEW old \in Bucket
    PROVE  Rewrites(old, BeginTurn(old))
BY DEF Rewrites, BeginTurn, Bucket, Missing, Armed, Grows

\* Blocking a stop only sets the latch.
LEMMA BlockedRewrites ==
    ASSUME NEW old \in Bucket
    PROVE  Rewrites(old, [old EXCEPT !.blocked = TRUE])
BY DEF Rewrites, Bucket, Missing, Armed, Grows

\* The kept fields of a bucket, by which the later handlers know it.
SamePlan(old, b) ==
    /\ b.required = old.required /\ b.read = old.read
    /\ b.entries = old.entries /\ b.active = old.active /\ b.plan = old.plan

\* Counting an edit adds to the budget and touches nothing else.
LEMMA RecordedFacts ==
    ASSUME TypeOK, NEW old \in Bucket, NEW c \in Calls
    PROVE  /\ Recorded(old, c) \in Bucket
           /\ SamePlan(old, Recorded(old, c))
           /\ Recorded(old, c).retrieved = old.retrieved
           /\ Recorded(old, c).seen = old.seen
<1>1. call[c].paths \subseteq Paths
  BY GateAssumption DEF TypeOK, Call
<1>2. CASE Counts(c)
  <2> DEFINE b == [old EXCEPT !.mutations = old.mutations + 1,
                              !.files = old.files \cup call[c].paths]
  <2>1. Recorded(old, c) = b
    BY <1>2 DEF Recorded
  <2>2. old.mutations + 1 \in Nat /\ old.files \cup call[c].paths \subseteq Paths
    BY <1>1 DEF Bucket
  <2>3. b \in Bucket
    BY <2>2 DEF Bucket
  <2>4. SamePlan(old, b) /\ b.retrieved = old.retrieved /\ b.seen = old.seen
    BY DEF Bucket, SamePlan
  <2>5. QED BY <2>1, <2>3, <2>4
<1>3. CASE ~Counts(c)
  BY <1>3 DEF Recorded, SamePlan
<1>4. QED BY <1>2, <1>3

\* Capturing a manifest never loses an entry, adds later ones only with a
\* justification, and arms the gate only with entries.
LEMMA CapturedFacts ==
    ASSUME NEW old \in Bucket, NEW body \in Bodies, NEW full \in BOOLEAN
    PROVE  LET b == Captured(old, body, full)
           IN  /\ b \in Bucket
               /\ b.required = old.required /\ b.read = old.read
               /\ b.retrieved = old.retrieved /\ b.seen = old.seen
               /\ b.plan = old.plan
               /\ Grows(old, b)
               /\ (old.active => old.entries # {}) => (b.active => b.entries # {})
<1> DEFINE b == Captured(old, body, full)
<1>1. FilesToTouch[body] \in SUBSET ManifestEntry
  BY GateAssumption
<1>2. Extension(old, body) \subseteq FilesToTouch[body]
      /\ \A e \in Extension(old, body) : e.justified
  BY DEF Extension
<1>3. CASE FilesToTouch[body] = {} /\ ~full /\ old.entries # {}
  BY <1>3 DEF Captured, Grows
<1>4. CASE FilesToTouch[body] = {} /\ ~(~full /\ old.entries # {})
  <2>1. b = [old EXCEPT !.active = FALSE]
    BY <1>4 DEF Captured
  <2>2. QED BY <2>1 DEF Bucket, Grows
<1>5. CASE FilesToTouch[body] # {} /\ old.entries = {}
  <2>1. b = [old EXCEPT !.entries = FilesToTouch[body], !.active = TRUE]
    BY <1>5 DEF Captured
  <2>2. QED BY <1>1, <1>5, <2>1 DEF Bucket, Grows
<1>6. CASE FilesToTouch[body] # {} /\ old.entries # {}
  <2>1. b = [old EXCEPT !.entries = old.entries \cup Extension(old, body), !.active = TRUE]
    BY <1>6 DEF Captured
  <2>2. old.entries \cup Extension(old, body) \in SUBSET ManifestEntry
    BY <1>1, <1>2 DEF Bucket
  <2>3. QED BY <1>2, <1>6, <2>1, <2>2 DEF Bucket, Grows
<1>7. QED BY <1>3, <1>4, <1>5, <1>6

\* What a plan report leaves: the manifest captured, the edit counted, the
\* plan made the session's active one.
LEMMA AfterPlanChainFacts ==
    ASSUME TypeOK, NEW c \in Calls, call[c].session \in Sessions,
           NEW p \in PlanPaths, NEW body \in Bodies, NEW full \in BOOLEAN
    PROVE  LET old == bucket[call[c].session]
               b == AfterPlanChain(c, p, body, full)
           IN  /\ Rewrites(old, b)
               /\ b.required = old.required /\ b.read = old.read
               /\ b.retrieved = old.retrieved /\ b.seen = old.seen
<1> DEFINE old == bucket[call[c].session]
           mid == Captured(old, body, full)
           rec == Recorded(mid, c)
           b == AfterPlanChain(c, p, body, full)
<1>1. old \in Bucket
  BY DEF TypeOK, StoreTypeOK
<1>2. /\ mid \in Bucket
      /\ mid.required = old.required /\ mid.read = old.read
      /\ mid.retrieved = old.retrieved /\ mid.seen = old.seen
      /\ Grows(old, mid)
      /\ (old.active => old.entries # {}) => (mid.active => mid.entries # {})
  BY <1>1, CapturedFacts
<1>3. /\ rec \in Bucket /\ SamePlan(mid, rec)
      /\ rec.retrieved = mid.retrieved /\ rec.seen = mid.seen
  BY <1>2, RecordedFacts
<1>4. b = [rec EXCEPT !.plan = p]
  BY DEF AfterPlanChain
<1> HIDE DEF old, mid, rec, b
<1>5. /\ b \in Bucket
      /\ b.required = rec.required /\ b.read = rec.read
      /\ b.entries = rec.entries /\ b.active = rec.active
      /\ b.retrieved = rec.retrieved /\ b.seen = rec.seen
      /\ b.plan = p
  BY <1>3, <1>4 DEF Bucket
<1>6. p # NoPlan
  BY StoreAssumption
<1>7. Rewrites(old, b)
  BY <1>2, <1>3, <1>5, <1>6 DEF Rewrites, SamePlan, Missing, Armed, Grows
<1>8. QED BY <1>2, <1>3, <1>5, <1>7 DEF SamePlan, old, b

\* Serving the skills a plan newly matches requires and reads the same ids.
LEMMA ServedRewrites ==
    ASSUME NEW old, NEW b \in Bucket, Rewrites(old, b), NEW ids \in SUBSET Skills
    PROVE  LET d == [b EXCEPT !.required = b.required \cup ids, !.read = b.read \cup ids]
           IN  Rewrites(old, d) /\ d.retrieved = b.retrieved /\ d.seen = b.seen
<1> DEFINE d == [b EXCEPT !.required = b.required \cup ids, !.read = b.read \cup ids]
<1>1. /\ d \in Bucket
      /\ d.required = b.required \cup ids /\ d.read = b.read \cup ids
      /\ d.entries = b.entries /\ d.active = b.active /\ d.plan = b.plan
      /\ d.retrieved = b.retrieved /\ d.seen = b.seen
  BY DEF Bucket
<1> HIDE DEF d
<1>2. Rewrites(old, d)
  BY <1>1 DEF Rewrites, Missing, Armed, Grows
<1>3. QED BY <1>1, <1>2 DEF d
-----------------------------------------------------------------------------
(* Every step rewrites at most one bucket *)

StoreStep ==
    \/ UNCHANGED storeVars
    \/ Forget
    \/ \E s \in Sessions : Clear(s)
    \/ \E s \in Sessions : \E b \in Bucket : Rewrites(bucket[s], b) /\ Write(s, b)

\* A step of the hooks leaves the store alone, forgets it, clears a session,
\* or rewrites one session's bucket.
LEMMA StepRewrites ==
    ASSUME TypeOK, GateNext
    PROVE  StoreStep
<1>1. \A s \in Sessions : bucket[s] \in Bucket
  BY DEF TypeOK, StoreTypeOK
<1>2. ASSUME NEW s \in Sessions, PromptServed(s)
      PROVE  StoreStep
  <2>0. PICK scored \in Scored(s) : \E req \in CapRequired(Forced, scored) :
            Write(s, Delivered(bucket[s], req))
    BY <1>2 DEF PromptServed
  <2>1. PICK req \in CapRequired(Forced, scored) : Write(s, Delivered(bucket[s], req))
    BY <2>0
  <2>2. Rewrites(bucket[s], Delivered(bucket[s], req))
    BY <1>1, RequiredAreSkills, DeliveredRewrites
  <2>3. QED BY <2>1, <2>2 DEF StoreStep, Rewrites
<1>3. ASSUME NEW s \in Sessions, PromptReleased(s)
      PROVE  StoreStep
  <2>1. Rewrites(bucket[s], Delivered(bucket[s], {}))
    BY <1>1, DeliveredRewrites
  <2>2. QED BY <1>3, <2>1 DEF PromptReleased, StoreStep, Rewrites
<1>4. ASSUME NEW s \in Sessions, PromptBroken(s)
      PROVE  StoreStep
  BY <1>1, <1>4, BeginTurnRewrites DEF PromptBroken, StoreStep, Rewrites
<1>5. ASSUME NEW s \in Sessions, SessionEnd(s)
      PROVE  StoreStep
  BY <1>5 DEF SessionEnd, StoreStep
<1>6. ASSUME NEW s \in Sessions, NEW c \in Calls, NEW ps \in TouchSets,
             PreToolUse(c, s, ps) \/ PreToolUseUnanswered(c, s, ps)
      PROVE  StoreStep
  BY <1>6 DEF PreToolUse, PreToolUseUnanswered, Start, StoreStep
<1>7. ASSUME NEW s \in Sessions, Stop(s)
      PROVE  StoreStep
  BY <1>1, <1>7, BlockedRewrites DEF Stop, StoreStep, Rewrites
<1>8. ASSUME NEW c \in Calls, CallStep(c)
      PROVE  StoreStep
  <2> DEFINE s == call[c].session
  <2>1. Reported(c) => s \in Sessions
    BY DEF Reported, TypeOK, Call
  <2>2. CASE ToolApplies(c) \/ ToolFails(c) \/ PostToolUseLost(c)
    BY <2>2 DEF ToolApplies, ToolFails, PostToolUseLost, StoreStep
  <2>3. CASE PostToolUse(c)
    <3>1. s \in Sessions
      BY <2>1, <2>3 DEF PostToolUse
    <3>2. Rewrites(bucket[s], Recorded(bucket[s], c))
      BY <1>1, <3>1, RecordedFacts DEF Rewrites, SamePlan, Missing, Armed, Grows
    <3>3. QED BY <2>3, <3>1, <3>2 DEF PostToolUse, StoreStep, Rewrites
  <2>4. ASSUME NEW p \in PlanPaths, NEW body \in Bodies, NEW full \in BOOLEAN,
               PostPlanQuiet(c, p, body, full)
        PROVE  StoreStep
    <3>1. s \in Sessions
      BY <2>1, <2>4 DEF PostPlanQuiet, PlanReport
    <3>2. Rewrites(bucket[s], AfterPlanChain(c, p, body, full))
      BY <3>1, AfterPlanChainFacts
    <3>3. QED BY <2>4, <3>1, <3>2 DEF PostPlanQuiet, StoreStep, Rewrites
  <2>5. ASSUME NEW p \in PlanPaths, NEW body \in Bodies,
               PostPlanSurfaced(c, p, body)
        PROVE  StoreStep
    <3> DEFINE b == AfterPlanChain(c, p, body, TRUE)
    <3>1. s \in Sessions
      BY <2>1, <2>5 DEF PostPlanSurfaced, PlanReport
    <3>2. PICK ids \in Surfaced(p, body) :
              Write(s, [b EXCEPT !.required = @ \cup ids, !.read = @ \cup ids])
      BY <2>5 DEF PostPlanSurfaced
    <3>3. ids \in SUBSET Skills
      BY GateAssumption DEF Surfaced, NewMatches
    <3>4. Rewrites(bucket[s], b) /\ b \in Bucket
      BY <3>1, AfterPlanChainFacts DEF Rewrites
    <3> HIDE DEF b
    <3>5. Rewrites(bucket[s], [b EXCEPT !.required = b.required \cup ids,
                                        !.read = b.read \cup ids])
      BY <3>3, <3>4, ServedRewrites
    <3>6. QED BY <3>1, <3>2, <3>5 DEF StoreStep, Rewrites
  <2>6. ASSUME NEW p \in PlanPaths, NEW body \in Bodies,
               PostPlanAborted(c, p, body)
        PROVE  StoreStep
    BY <2>6 DEF PostPlanAborted, StoreStep
  <2>7. QED BY <1>8, <2>2, <2>3, <2>4, <2>5, <2>6 DEF CallStep
<1>9. ASSUME Restart
      PROVE  StoreStep
  BY <1>9 DEF Restart, StoreStep
<1>10. QED
  BY <1>2, <1>3, <1>4, <1>5, <1>6, <1>7, <1>8, <1>9 DEF GateNext, HookStep
-----------------------------------------------------------------------------
(* Types *)

\* A step of the store keeps its types.
LEMMA StoreStepTypes ==
    ASSUME StoreTypeOK, StoreStep
    PROVE  StoreTypeOK'
<1>1. CASE UNCHANGED storeVars
  BY <1>1 DEF StoreTypeOK, storeVars
<1>2. CASE Forget
  BY <1>2, ForgetFacts
<1>3. CASE \E s \in Sessions : Clear(s)
  BY <1>3, ClearFacts
<1>4. CASE \E s \in Sessions : \E b \in Bucket : Rewrites(bucket[s], b) /\ Write(s, b)
  BY <1>4, WriteFacts
<1>5. QED BY <1>1, <1>2, <1>3, <1>4 DEF StoreStep

\* Upserting a plan keeps the types of the cache.
LEMMA UpsertTypes ==
    ASSUME CacheTypeOK, NEW p \in PlanPaths, NEW body \in Bodies,
           NEW hits \in SUBSET Skills, Upsert(p, body, hits)
    PROVE  CacheTypeOK'
<1>1. planOrder' \in Seq(PlanPaths)
  BY TouchedFacts, CacheAssumption DEF CacheTypeOK, Upsert
<1>2. EmptyEntry \in PlanEntry
  BY DEF EmptyEntry, PlanEntry
<1>3. \A q \in PlanPaths : planEntry[q] \in PlanEntry /\ planEntry[q].matches \subseteq Skills
  BY DEF CacheTypeOK, PlanEntry
<1>4. [body |-> body, matches |-> planEntry[p].matches \cup hits] \in PlanEntry
  BY <1>3 DEF PlanEntry
<1>5. planEntry' \in [PlanPaths -> PlanEntry]
  BY <1>2, <1>3, <1>4 DEF Upsert
<1>6. QED BY <1>1, <1>5 DEF CacheTypeOK

\* The cache of a server that has just started has its type.
LEMMA EmptyCacheTypes ==
    (CacheInit => CacheTypeOK) /\ (CacheForget => CacheTypeOK')
<1>1. EmptyEntry \in PlanEntry
  BY DEF PlanEntry, EmptyEntry
<1>2. <<>> \in Seq(PlanPaths)
  OBVIOUS
<1>3. [p \in PlanPaths |-> EmptyEntry] \in [PlanPaths -> PlanEntry]
  BY <1>1
<1>4. QED BY <1>2, <1>3 DEF CacheInit, CacheForget, CacheTypeOK

\* A step of the hooks keeps the types of the plan cache.
LEMMA StepCacheTypes ==
    ASSUME TypeOK, GateNext
    PROVE  CacheTypeOK'
<1>1. CASE UNCHANGED cacheVars
  BY <1>1 DEF TypeOK, CacheTypeOK, cacheVars
<1>2. ASSUME NEW c \in Calls, NEW p \in PlanPaths, NEW body \in Bodies,
             PostPlanSurfaced(c, p, body)
      PROVE  CacheTypeOK'
  <2>1. Hits[body] \in SUBSET Skills
    BY GateAssumption
  <2>2. QED BY <1>2, <2>1, UpsertTypes DEF PostPlanSurfaced, TypeOK
<1>3. CASE Restart
  BY <1>3, EmptyCacheTypes DEF Restart
<1>4. QED
  BY <1>1, <1>2, <1>3
     DEF GateNext, HookStep, CallStep, PromptServed, PromptReleased, PromptBroken,
         SessionEnd, PreToolUse, PreToolUseUnanswered, Start, Stop, ToolApplies,
         ToolFails, PostToolUse, PostPlanQuiet, PostPlanAborted, PostToolUseLost,
         cacheVars

\* A step keeps the types of the agent's calls and of the history of turns.
LEMMA StepAgentTypes ==
    ASSUME TypeOK, GateNext
    PROVE  call' \in [Calls -> Call] /\ turn' \in [Sessions -> Turn]
<1> DEFINE Goal == call' \in [Calls -> Call] /\ turn' \in [Sessions -> Turn]
<1>1. /\ call \in [Calls -> Call] /\ turn \in [Sessions -> Turn]
      /\ NoCall \in Call
      /\ \A how \in {"new", "served", "released", "broken"} : NewTurn(how) \in Turn
  BY DEF TypeOK, NoCall, Call, CallPhases, NewTurn, Turn
<1>2. CASE UNCHANGED <<call, turn>>
  BY <1>1, <1>2
<1>3. ASSUME NEW s \in Sessions, UNCHANGED call,
             NEW how \in {"new", "served", "released", "broken"},
             turn' = [turn EXCEPT ![s] = NewTurn(how)]
      PROVE  Goal
  BY <1>1, <1>3
<1>4. ASSUME NEW s \in Sessions, NEW c \in Calls, NEW ps \in TouchSets,
             NEW gated \in BOOLEAN, Start(c, s, ps, gated)
      PROVE  Goal
  <2>1. [session |-> s, paths |-> ps, phase |-> "running", gated |-> gated] \in Call
    BY DEF Call, CallPhases
  <2>2. QED BY <1>1, <1>4, <2>1 DEF Start
<1>5. ASSUME NEW s \in Sessions, Stop(s)
      PROVE  Goal
  <2>1. [turn[s] EXCEPT !.stops = Smaller(2, turn[s].stops + 1)] \in Turn
    BY <1>1 DEF Turn, Smaller
  <2>2. QED BY <1>1, <1>5, <2>1 DEF Stop
<1>6. ASSUME NEW c \in Calls, ToolApplies(c)
      PROVE  Goal
  <2> DEFINE s == call[c].session
  <2>1. s \in Sessions /\ call[c].paths \subseteq Paths
    BY <1>1, <1>6, GateAssumption DEF ToolApplies, Call
  <2>2. [call[c] EXCEPT !.phase = "applied"] \in Call
    BY <1>1 DEF Call, CallPhases
  <2>3. [turn[s] EXCEPT !.edits = turn[s].edits + 1,
                        !.touched = turn[s].touched \cup call[c].paths] \in Turn
    <3>1. PICK t \in Turn : t = turn[s]
      BY <1>1, <2>1
    <3>2. t.edits + 1 \in Nat /\ t.touched \cup call[c].paths \subseteq Paths
      BY <2>1 DEF Turn
    <3>3. [t EXCEPT !.edits = t.edits + 1,
                    !.touched = t.touched \cup call[c].paths] \in Turn
      BY <3>2 DEF Turn
    <3>4. QED BY <3>1, <3>3
  <2>4. turn' = [turn EXCEPT ![s] = [turn[s] EXCEPT
                    !.edits = turn[s].edits + 1,
                    !.touched = turn[s].touched \cup call[c].paths]]
    BY <1>1, <1>6, <2>1 DEF ToolApplies
  <2>5. call' = [call EXCEPT ![c] = [call[c] EXCEPT !.phase = "applied"]]
    BY <1>1, <1>6 DEF ToolApplies
  <2> HIDE DEF s
  <2>6. QED BY <1>1, <2>1, <2>2, <2>3, <2>4, <2>5
<1>7. ASSUME NEW c \in Calls, ToolFails(c)
      PROVE  Goal
  <2>1. [call[c] EXCEPT !.phase = "failed"] \in Call
    BY <1>1 DEF Call, CallPhases
  <2>2. QED BY <1>1, <1>7, <2>1 DEF ToolFails
<1>8. ASSUME NEW c \in Calls, Retire(c)
      PROVE  Goal
  BY <1>1, <1>8 DEF Retire
<1>9. ASSUME NEW s \in Sessions, HookStep(s)
      PROVE  Goal
  <2>1. CASE PromptServed(s)
    BY <1>3, <2>1 DEF PromptServed
  <2>2. CASE PromptReleased(s)
    BY <1>3, <2>2 DEF PromptReleased
  <2>3. CASE PromptBroken(s)
    BY <1>3, <2>3 DEF PromptBroken
  <2>4. CASE SessionEnd(s)
    BY <1>3, <2>4 DEF SessionEnd
  <2>5. ASSUME NEW c \in Calls, NEW ps \in TouchSets,
               PreToolUse(c, s, ps) \/ PreToolUseUnanswered(c, s, ps)
        PROVE  Goal
    BY <1>4, <2>5 DEF PreToolUse, PreToolUseUnanswered
  <2>6. QED BY <1>9, <2>1, <2>2, <2>3, <2>4, <2>5 DEF HookStep
<1>10. ASSUME NEW c \in Calls, CallStep(c)
       PROVE  Goal
  <2>1. ToolApplies(c) \/ ToolFails(c) \/ Retire(c)
    BY <1>10 DEF CallStep, PostToolUse, PostToolUseLost, PostPlanQuiet,
                 PostPlanSurfaced, PostPlanAborted, PlanReport
  <2>2. QED BY <1>6, <1>7, <1>8, <2>1
<1>11. QED
  BY <1>2, <1>5, <1>9, <1>10 DEF GateNext, Restart

\* Type correctness: in every reachable state the variables have their types.
THEOREM Typing == GateSpec => []TypeOK
<1>1. GateInit => TypeOK
  BY ForgetFacts, EmptyCacheTypes
     DEF GateInit, TypeOK, NoCall, Call, CallPhases, NewTurn, Turn
<1>2. TypeOK /\ [GateNext]_gateVars => TypeOK'
  <2>1. ASSUME TypeOK, GateNext PROVE TypeOK'
    <3>1. StoreTypeOK'
      BY <2>1, StepRewrites, StoreStepTypes DEF TypeOK
    <3>2. granularity' \in Granularities
      BY <2>1 DEF TypeOK, GateNext, Restart
    <3>3. QED BY <2>1, <3>1, <3>2, StepCacheTypes, StepAgentTypes DEF TypeOK
  <2>2. ASSUME TypeOK, UNCHANGED gateVars PROVE TypeOK'
    BY <2>2 DEF gateVars, TypeOK, StoreTypeOK, CacheTypeOK
  <2>3. QED BY <2>1, <2>2
<1>3. QED BY <1>1, <1>2, PTL DEF GateSpec
-----------------------------------------------------------------------------
(* The store and the plan *)

\* A step of the store keeps it within its bound and leaves nothing behind.
LEMMA StoreStepSound ==
    ASSUME StoreTypeOK, StoreSound, StoreStep
    PROVE  StoreSound'
<1>1. NoRepeats(order) /\ Len(order) <= MaxSessions /\ Len(order) \in Nat
      /\ MaxSessions \in Nat
  BY StoreAssumption DEF StoreTypeOK, StoreSound, RecencyList
<1>2. CASE UNCHANGED storeVars
  BY <1>2 DEF StoreSound, Stored, storeVars
<1>3. CASE Forget
  BY <1>3, ForgetFacts
<1>4. ASSUME NEW s \in Sessions, Clear(s)
      PROVE  StoreSound'
  <2>1. order' \in Seq(Sessions) /\ Len(order') <= MaxSessions
    BY <1>1, <1>4, ClearFacts DEF StoreTypeOK
  <2>2. QED BY <1>1, <1>4, <2>1, ClearFacts
            DEF StoreSound, StoreTypeOK, RecencyList, Stored
<1>5. ASSUME NEW s \in Sessions, NEW b \in Bucket, Write(s, b)
      PROVE  StoreSound'
  BY <1>1, <1>5, WriteFacts DEF StoreSound, Stored
<1>6. QED BY <1>2, <1>3, <1>4, <1>5 DEF StoreStep

\* What every store step does to the bucket of one session: keeps it, empties
\* it (then the session is no longer stored), or rewrites it.
LEMMA BucketStep ==
    ASSUME StoreTypeOK, StoreSound, StoreStep, NEW t \in Sessions
    PROVE  \/ bucket'[t] = bucket[t]
           \/ bucket'[t] = EmptyBucket /\ t \notin Listed(order')
           \/ Rewrites(bucket[t], bucket'[t])
<1>1. NoRepeats(order)
  BY DEF StoreSound, RecencyList
<1>2. CASE UNCHANGED storeVars
  BY <1>2 DEF storeVars
<1>3. CASE Forget
  BY <1>3, ForgetFacts DEF Forget
<1>4. ASSUME NEW s \in Sessions, Clear(s)
      PROVE  bucket'[t] = bucket[t] \/ (bucket'[t] = EmptyBucket /\ t \notin Listed(order'))
  <2>1. bucket' = [bucket EXCEPT ![s] = EmptyBucket] /\ s \notin Listed(order')
    BY <1>1, <1>4, ClearFacts
  <2>2. QED BY <2>1 DEF StoreTypeOK
<1>5. ASSUME NEW s \in Sessions, NEW b \in Bucket, Rewrites(bucket[s], b), Write(s, b)
      PROVE  \/ bucket'[t] = bucket[t]
             \/ bucket'[t] = EmptyBucket /\ t \notin Listed(order')
             \/ Rewrites(bucket[t], bucket'[t])
  BY <1>5, WriteFacts
<1>6. QED BY <1>2, <1>3, <1>4, <1>5 DEF StoreStep

\* The store stays within MAX_SESSIONS, whatever the hooks do, and keeps
\* nothing of a session it evicted or cleared.
THEOREM StoreStaysSound == GateSpec => []StoreSound
<1>1. GateInit => StoreSound
  BY ForgetFacts DEF GateInit
<1>2. TypeOK /\ StoreSound /\ [GateNext]_gateVars => StoreSound'
  <2>1. ASSUME TypeOK, StoreSound, GateNext PROVE StoreSound'
    BY <2>1, StepRewrites, StoreStepSound DEF TypeOK
  <2>2. ASSUME StoreSound, UNCHANGED gateVars PROVE StoreSound'
    BY <2>2 DEF gateVars, StoreSound, Stored
  <2>3. QED BY <2>1, <2>2
<1>3. QED BY <1>1, <1>2, Typing, PTL DEF GateSpec

\* A step of the hooks, or a stutter, as one session's bucket sees it.
LEMMA StepOnBucket ==
    ASSUME TypeOK, StoreSound, [GateNext]_gateVars, NEW t \in Sessions
    PROVE  \/ bucket'[t] = bucket[t]
           \/ bucket'[t] = EmptyBucket /\ t \notin Listed(order')
           \/ Rewrites(bucket[t], bucket'[t])
<1>1. CASE GateNext
  BY <1>1, StepRewrites, BucketStep DEF TypeOK
<1>2. CASE UNCHANGED gateVars
  BY <1>2 DEF gateVars
<1>3. QED BY <1>1, <1>2

\* What hooks require of a session they have served: the read gate and the
\* stop block never trip on a session only hooks write to.
THEOREM NothingStaysUnread == GateSpec => []NothingUnread
<1>1. GateInit => NothingUnread
  BY DEF GateInit, StoreInit, NothingUnread, EmptyBucket, Missing
<1>2. ASSUME TypeOK, StoreSound, NothingUnread, [GateNext]_gateVars
      PROVE  NothingUnread'
  <2>1. Missing(EmptyBucket) = {}
    BY DEF EmptyBucket, Missing
  <2>2. ASSUME NEW t \in Sessions PROVE Missing(bucket'[t]) = {}
    BY <1>2, <2>1, StepOnBucket DEF NothingUnread, Rewrites
  <2>3. QED BY <2>2 DEF NothingUnread, Missing
<1>3. QED BY <1>1, <1>2, Typing, StoreStaysSound, PTL DEF GateSpec

\* An active manifest gate has entries to enforce and a plan they are from.
THEOREM ManifestStaysArmed == GateSpec => []ManifestArmed
<1>1. GateInit => ManifestArmed
  BY DEF GateInit, StoreInit, ManifestArmed, EmptyBucket
<1>2. ASSUME TypeOK, StoreSound, ManifestArmed, [GateNext]_gateVars
      PROVE  ManifestArmed'
  <2>1. Armed(EmptyBucket)
    BY DEF EmptyBucket, Armed
  <2>2. ASSUME NEW t \in Sessions PROVE Armed(bucket'[t])
    <3>1. Armed(bucket[t])
      BY <1>2 DEF ManifestArmed, Armed
    <3>2. QED BY <1>2, <2>1, <3>1, StepOnBucket DEF Rewrites
  <2>3. QED BY <2>2 DEF ManifestArmed, Armed
<1>3. QED BY <1>1, <1>2, Typing, StoreStaysSound, PTL DEF GateSpec

\* While a session is stored its manifest loses no entry and gains, once it
\* has any, only justified ones.
THEOREM ManifestGrowth == GateSpec => ManifestOnlyGrowsByJustification
<1>1. ASSUME TypeOK, StoreSound, [GateNext]_gateVars
      PROVE  ManifestKept
  BY <1>1, StepOnBucket DEF ManifestKept, Rewrites, Grows
<1>2. QED
  BY <1>1, Typing, StoreStaysSound, PTL DEF GateSpec, ManifestOnlyGrowsByJustification
-----------------------------------------------------------------------------
(* Receipts *)

\* A write whose bucket keeps the receipt, in a step that keeps the turns.
LEMMA ReceiptKept ==
    ASSUME StoreTypeOK, ReceiptIsOfThisTurn, NEW s \in Sessions, NEW b \in Bucket,
           Write(s, b), UNCHANGED turn,
           b.retrieved = bucket[s].retrieved, b.seen = bucket[s].seen
    PROVE  ReceiptIsOfThisTurn'
<1>1. ~EmptyBucket.seen
  BY DEF EmptyBucket
<1>2. \A t \in Sessions : \/ ~bucket'[t].seen
                          \/ /\ bucket'[t].seen = bucket[t].seen
                             /\ bucket'[t].retrieved = bucket[t].retrieved
  BY <1>1, WriteFacts
<1>3. QED BY <1>2 DEF ReceiptIsOfThisTurn

\* A prompt of session s: the other sessions keep turn and receipt, or are
\* forgotten.
LEMMA ReceiptRenewed ==
    ASSUME TypeOK, ReceiptIsOfThisTurn, NEW s \in Sessions, NEW b \in Bucket,
           Write(s, b), NEW how \in {"new", "served", "released", "broken"},
           turn' = [turn EXCEPT ![s] = NewTurn(how)],
           b.seen => (b.retrieved <=> how \in {"served", "released"})
    PROVE  ReceiptIsOfThisTurn'
<1>1. ~EmptyBucket.seen
  BY DEF EmptyBucket
<1>2. /\ bucket'[s] = b
      /\ \A t \in Sessions \ {s} : bucket'[t] = bucket[t] \/ bucket'[t] = EmptyBucket
  BY WriteFacts DEF TypeOK
<1>3. /\ turn'[s].outcome = how
      /\ \A t \in Sessions \ {s} : turn'[t] = turn[t]
  BY DEF TypeOK, NewTurn
<1>4. QED BY <1>1, <1>2, <1>3 DEF ReceiptIsOfThisTurn

\* A step that keeps the store and every turn's outcome keeps the receipts.
LEMMA ReceiptUntouched ==
    ASSUME ReceiptIsOfThisTurn, UNCHANGED bucket,
           \A t \in Sessions : turn'[t].outcome = turn[t].outcome
    PROVE  ReceiptIsOfThisTurn'
BY DEF ReceiptIsOfThisTurn

\* With delivery evidence, a session has a receipt exactly when its current
\* prompt was answered: no receipt of an earlier turn ever opens the gate.
THEOREM ReceiptStaysOfThisTurn == GateSpec => []ReceiptIsOfThisTurn
<1> DEFINE Inv == ReceiptIsOfThisTurn
<1>1. GateInit => Inv
  BY DEF GateInit, StoreInit, ReceiptIsOfThisTurn, EmptyBucket
<1>2. ASSUME TypeOK, StoreSound, Inv, GateNext
      PROVE  Inv'
  <2>1. \A s \in Sessions : bucket[s] \in Bucket
    BY <1>2 DEF TypeOK, StoreTypeOK
  <2>2. ASSUME NEW s \in Sessions, PromptServed(s) PROVE Inv'
    <3>1. PICK scored \in Scored(s) : \E req \in CapRequired(Forced, scored) :
              Write(s, Delivered(bucket[s], req))
      BY <2>2 DEF PromptServed
    <3>2. PICK req \in CapRequired(Forced, scored) : Write(s, Delivered(bucket[s], req))
      BY <3>1
    <3>3. Delivered(bucket[s], req) \in Bucket
      BY <1>2, <2>1, RequiredAreSkills, DeliveredRewrites DEF Rewrites
    <3>4. Delivered(bucket[s], req).retrieved
      BY <2>1 DEF Delivered, BeginTurn, Bucket
    <3>5. QED BY <1>2, <2>2, <3>2, <3>3, <3>4, ReceiptRenewed DEF PromptServed
  <2>3. ASSUME NEW s \in Sessions, PromptReleased(s) PROVE Inv'
    <3>1. Delivered(bucket[s], {}) \in Bucket
      BY <2>1, DeliveredRewrites DEF Rewrites
    <3>2. Delivered(bucket[s], {}).retrieved
      BY <2>1 DEF Delivered, BeginTurn, Bucket
    <3>3. QED BY <1>2, <2>3, <3>1, <3>2, ReceiptRenewed DEF PromptReleased
  <2>4. ASSUME NEW s \in Sessions, PromptBroken(s) PROVE Inv'
    <3>1. CASE Stored(s)
      <4>1. BeginTurn(bucket[s]) \in Bucket /\ ~BeginTurn(bucket[s]).retrieved
        <5>1. BeginTurn(bucket[s]) \in Bucket
          BY <2>1, BeginTurnRewrites DEF Rewrites
        <5>2. QED BY <2>1, <5>1 DEF BeginTurn, Bucket
      <4>2. QED BY <1>2, <2>4, <3>1, <4>1, ReceiptRenewed DEF PromptBroken
    <3>2. CASE ~Stored(s)
      <4>1. bucket' = bucket /\ ~bucket[s].seen
        BY <1>2, <2>4, <3>2 DEF PromptBroken, storeVars, StoreSound, EmptyBucket
      <4>2. \A t \in Sessions \ {s} : turn'[t] = turn[t]
        BY <1>2, <2>4 DEF PromptBroken, TypeOK
      <4>3. QED BY <1>2, <4>1, <4>2 DEF ReceiptIsOfThisTurn
    <3>3. QED BY <3>1, <3>2
  <2>5. ASSUME NEW s \in Sessions, SessionEnd(s) PROVE Inv'
    <3>1. bucket' = [bucket EXCEPT ![s] = EmptyBucket]
      BY <2>5 DEF SessionEnd, Clear
    <3>2. \A t \in Sessions \ {s} : turn'[t] = turn[t] /\ bucket'[t] = bucket[t]
      BY <1>2, <2>5, <3>1 DEF SessionEnd, TypeOK, StoreTypeOK
    <3>3. ~bucket'[s].seen
      BY <1>2, <3>1 DEF TypeOK, StoreTypeOK, EmptyBucket
    <3>4. QED BY <1>2, <3>2, <3>3 DEF ReceiptIsOfThisTurn
  <2>6. ASSUME NEW s \in Sessions, NEW c \in Calls, NEW ps \in TouchSets,
               PreToolUse(c, s, ps) \/ PreToolUseUnanswered(c, s, ps)
        PROVE  Inv'
    BY <1>2, <2>6, ReceiptUntouched
       DEF PreToolUse, PreToolUseUnanswered, Start, storeVars
  <2>7. ASSUME NEW s \in Sessions, Stop(s) PROVE Inv'
    <3>1. [bucket[s] EXCEPT !.blocked = TRUE] \in Bucket
      BY <2>1, BlockedRewrites DEF Rewrites
    <3>2. /\ [bucket[s] EXCEPT !.blocked = TRUE].seen = bucket[s].seen
          /\ [bucket[s] EXCEPT !.blocked = TRUE].retrieved = bucket[s].retrieved
      BY <2>1 DEF Bucket
    <3>3. \A t \in Sessions : turn'[t].outcome = turn[t].outcome
      BY <1>2, <2>7 DEF Stop, TypeOK, Turn
    <3>4. \A t \in Sessions : \/ ~bucket'[t].seen
                              \/ /\ bucket'[t].seen = bucket[t].seen
                                 /\ bucket'[t].retrieved = bucket[t].retrieved
      <4>1. ~EmptyBucket.seen
        BY DEF EmptyBucket
      <4>2. QED BY <1>2, <2>7, <3>1, <3>2, <4>1, WriteFacts DEF Stop, TypeOK
    <3>5. QED BY <1>2, <3>3, <3>4 DEF ReceiptIsOfThisTurn
  <2>8. ASSUME NEW c \in Calls, CallStep(c) PROVE Inv'
    <3> DEFINE s == call[c].session
    <3>1. Reported(c) => s \in Sessions
      BY <1>2 DEF Reported, TypeOK, Call
    <3>2. CASE ToolApplies(c)
      <4>1. \A t \in Sessions : turn'[t].outcome = turn[t].outcome
        BY <1>2, <3>2 DEF ToolApplies, TypeOK, Turn
      <4>2. QED BY <1>2, <3>2, <4>1, ReceiptUntouched DEF ToolApplies, storeVars
    <3>3. CASE ToolFails(c) \/ PostToolUseLost(c)
      BY <1>2, <3>3, ReceiptUntouched DEF ToolFails, PostToolUseLost, Retire, storeVars
    <3>4. CASE PostToolUse(c)
      <4>1. s \in Sessions
        BY <3>1, <3>4 DEF PostToolUse
      <4>2. CASE Counts(c)
        BY <1>2, <2>1, <3>4, <4>1, <4>2, RecordedFacts, ReceiptKept
           DEF PostToolUse, Retire, TypeOK
      <4>3. CASE ~Counts(c)
        BY <1>2, <3>4, <4>3, ReceiptUntouched DEF PostToolUse, Retire, storeVars
      <4>4. QED BY <4>2, <4>3
    <3>5. ASSUME NEW p \in PlanPaths, NEW body \in Bodies, NEW full \in BOOLEAN,
                 PostPlanQuiet(c, p, body, full)
          PROVE  Inv'
      <4> DEFINE b == AfterPlanChain(c, p, body, full)
      <4>1. s \in Sessions
        BY <3>1, <3>5 DEF PostPlanQuiet, PlanReport
      <4>2. b \in Bucket /\ b.retrieved = bucket[s].retrieved /\ b.seen = bucket[s].seen
        BY <1>2, <4>1, AfterPlanChainFacts DEF Rewrites
      <4>3. Write(s, b) /\ UNCHANGED turn
        BY <3>5 DEF PostPlanQuiet, PlanReport, Retire
      <4> HIDE DEF b, s
      <4>4. QED BY <1>2, <4>1, <4>2, <4>3, ReceiptKept DEF TypeOK
    <3>6. ASSUME NEW p \in PlanPaths, NEW body \in Bodies, PostPlanSurfaced(c, p, body)
          PROVE  Inv'
      <4> DEFINE b == AfterPlanChain(c, p, body, TRUE)
      <4>1. s \in Sessions
        BY <3>1, <3>6 DEF PostPlanSurfaced, PlanReport
      <4>2. PICK ids \in Surfaced(p, body) :
                Write(s, [b EXCEPT !.required = @ \cup ids, !.read = @ \cup ids])
        BY <3>6 DEF PostPlanSurfaced
      <4>3. ids \in SUBSET Skills
        BY GateAssumption DEF Surfaced, NewMatches
      <4>4. /\ Rewrites(bucket[s], b) /\ b \in Bucket
            /\ b.retrieved = bucket[s].retrieved /\ b.seen = bucket[s].seen
        BY <1>2, <4>1, AfterPlanChainFacts DEF Rewrites
      <4>5. UNCHANGED turn
        BY <3>6 DEF PostPlanSurfaced, PlanReport, Retire
      <4> DEFINE d == [b EXCEPT !.required = b.required \cup ids, !.read = b.read \cup ids]
      <4> HIDE DEF b, s
      <4>6. d \in Bucket /\ d.retrieved = b.retrieved /\ d.seen = b.seen
        BY <4>3, <4>4, ServedRewrites DEF Rewrites
      <4>7. Write(s, d)
        BY <4>2
      <4> HIDE DEF d
      <4>8. QED BY <1>2, <4>1, <4>4, <4>5, <4>6, <4>7, ReceiptKept DEF TypeOK
    <3>7. ASSUME NEW p \in PlanPaths, NEW body \in Bodies, PostPlanAborted(c, p, body)
          PROVE  Inv'
      BY <1>2, <3>7, ReceiptUntouched DEF PostPlanAborted, PlanReport, Retire, storeVars
    <3>8. QED BY <2>8, <3>2, <3>3, <3>4, <3>5, <3>6, <3>7 DEF CallStep
  <2>9. ASSUME Restart PROVE Inv'
    BY <2>9 DEF Restart, Forget, ReceiptIsOfThisTurn, EmptyBucket
  <2>10. QED
    BY <1>2, <2>2, <2>3, <2>4, <2>5, <2>6, <2>7, <2>8, <2>9 DEF GateNext, HookStep
<1>3. ASSUME Inv, UNCHANGED gateVars PROVE Inv'
  BY <1>3 DEF gateVars, ReceiptIsOfThisTurn
<1>4. QED BY <1>1, <1>2, <1>3, Typing, StoreStaysSound, PTL DEF GateSpec
-----------------------------------------------------------------------------
(* The plan cache: a step leaves it alone, forgets it, or upserts one plan *)
(* with the matches of the text it stores.                                 *)

CacheStep ==
    \/ UNCHANGED cacheVars
    \/ CacheForget
    \/ \E p \in PlanPaths, body \in Bodies : Upsert(p, body, Hits[body])

\* Of the hooks only the surfacing of a plan and a restart write the cache.
LEMMA StepOnCache ==
    ASSUME GateNext
    PROVE  CacheStep
<1>1. CASE Restart
  BY <1>1 DEF Restart, CacheStep
<1>2. ASSUME NEW c \in Calls, NEW p \in PlanPaths, NEW body \in Bodies,
             PostPlanSurfaced(c, p, body)
      PROVE  CacheStep
  BY <1>2 DEF PostPlanSurfaced, CacheStep
<1>3. CASE UNCHANGED cacheVars
  BY <1>3 DEF CacheStep
<1>4. QED
  BY <1>1, <1>2, <1>3
     DEF GateNext, HookStep, CallStep, PromptServed, PromptReleased, PromptBroken,
         SessionEnd, PreToolUse, PreToolUseUnanswered, Start, Stop, ToolApplies,
         ToolFails, PostToolUse, PostPlanQuiet, PostPlanAborted, PostToolUseLost

\* An upsert stores its plan with the new text and the merged matches; every
\* other plan keeps its entry or has none.
LEMMA UpsertFacts ==
    ASSUME CacheTypeOK, NEW p \in PlanPaths, NEW body, NEW hits, Upsert(p, body, hits)
    PROVE  /\ planEntry'[p] = [body |-> body, matches |-> planEntry[p].matches \cup hits]
           /\ \A q \in PlanPaths \ {p} :
                planEntry'[q] = IF q \in Listed(planOrder') THEN planEntry[q] ELSE EmptyEntry
           /\ p \in Listed(planOrder')
           /\ NoRepeats(planOrder) => RecencyList(planOrder', MaxPlans)
           /\ NoRepeats(planOrder) => Listed(planOrder') \subseteq Listed(planOrder) \cup {p}
<1>1. /\ p \in Listed(planOrder')
      /\ NoRepeats(planOrder) => /\ RecencyList(planOrder', MaxPlans)
                                 /\ Listed(planOrder') \subseteq Listed(planOrder) \cup {p}
  BY TouchedFacts, CacheAssumption DEF CacheTypeOK, Upsert
<1>2. QED BY <1>1 DEF Upsert

\* The cache stays within MAX_PLANS and an evicted plan leaves no entry, so a
\* plan that is saved again is retrieved for from nothing.
THEOREM CacheStaysSound == GateSpec => []CacheSound
<1>1. Listed(<<>>) = {} /\ RecencyList(<<>>, MaxPlans)
  BY CacheAssumption DEF Listed, RecencyList, NoRepeats
<1>2. GateInit => CacheSound
  BY <1>1 DEF GateInit, CacheInit, CacheSound
<1>3. ASSUME TypeOK, CacheSound, [GateNext]_gateVars
      PROVE  CacheSound'
  <2>1. CASE UNCHANGED cacheVars
    BY <1>3, <2>1 DEF cacheVars, CacheSound
  <2>2. CASE CacheForget
    BY <1>1, <2>2 DEF CacheForget, CacheSound
  <2>3. ASSUME NEW p \in PlanPaths, NEW body \in Bodies, Upsert(p, body, Hits[body])
        PROVE  CacheSound'
    BY <1>3, <2>3, UpsertFacts DEF TypeOK, CacheSound, RecencyList
  <2>4. QED BY <1>3, <2>1, <2>2, <2>3, StepOnCache DEF CacheStep, gateVars, cacheVars
<1>4. QED BY <1>2, <1>3, Typing, PTL DEF GateSpec

\* The text a cached plan is known by has been retrieved for: the check for
\* an unchanged text never skips a retrieval that is still owed.
THEOREM CacheNeverAhead == GateSpec => []CacheNotAhead
<1>1. GateInit => CacheNotAhead
  BY DEF GateInit, CacheInit, CacheNotAhead, EmptyEntry
<1>2. ASSUME TypeOK, CacheNotAhead, [GateNext]_gateVars
      PROVE  CacheNotAhead'
  <2>1. CASE UNCHANGED cacheVars
    BY <1>2, <2>1 DEF cacheVars, CacheNotAhead
  <2>2. CASE CacheForget
    BY <2>2 DEF CacheForget, CacheNotAhead, EmptyEntry
  <2>3. ASSUME NEW p \in PlanPaths, NEW body \in Bodies, Upsert(p, body, Hits[body])
        PROVE  CacheNotAhead'
    <3>1. /\ planEntry'[p].body = body
          /\ Hits[body] \subseteq planEntry'[p].matches
      <4>1. planEntry'[p] = [body |-> body, matches |-> planEntry[p].matches \cup Hits[body]]
        BY <1>2, <2>3, UpsertFacts DEF TypeOK
      <4>2. QED BY <4>1
    <3>2. ASSUME NEW q \in PlanPaths \ {p}
          PROVE  planEntry'[q] = planEntry[q] \/ planEntry'[q].body = NoBody
      <4>1. EmptyEntry.body = NoBody
        BY DEF EmptyEntry
      <4>2. QED BY <1>2, <2>3, <4>1, UpsertFacts DEF TypeOK
    <3>3. QED BY <1>2, <3>1, <3>2 DEF CacheNotAhead
  <2>4. QED BY <1>2, <2>1, <2>2, <2>3, StepOnCache DEF CacheStep, gateVars, cacheVars
<1>3. QED BY <1>1, <1>2, Typing, PTL DEF GateSpec
-----------------------------------------------------------------------------
(***************************************************************************)
(* The edit budget: what it counts was done in this turn, as long as no    *)
(* prompt arrives during a call; and in an orderly world the budget holds  *)
(* as documented.  Both rest on BudgetStep, which says of every step of    *)
(* the system what it does to the budgets, the turns and the calls.        *)
(***************************************************************************)

SameBudget(old, b) == b.mutations = old.mutations /\ b.files = old.files
NoBudgetUsed(b) == b.mutations = 0 /\ b.files = {}

\* A session that was stored and that the write of another one pushed out.
Evicted(t) ==
    /\ Stored(t) /\ t \notin Listed(order')
    /\ \E s \in Sessions \ {t} : order' = Touched(order, s, MaxSessions)

\* What happens to the sessions a step is not about.
Quiet(t) ==
    \/ SameBudget(bucket[t], bucket'[t])
    \/ Evicted(t) /\ NoBudgetUsed(bucket'[t])

SameTurn(t) == turn'[t].edits = turn[t].edits /\ turn'[t].touched = turn[t].touched

TurnBegins(s) ==
    /\ TurnMayChange(s)
    /\ NoBudgetUsed(bucket'[s])
    /\ turn'[s].edits = 0 /\ turn'[s].touched = {}
    /\ \A t \in Sessions \ {s} : Quiet(t) /\ SameTurn(t)
    /\ UNCHANGED <<call, granularity>>

CallBegins(c, s, ps) ==
    /\ call[c] = NoCall
    /\ "parallel" \in Environment \/ InFlight(s) = {}
    /\ "hook_down" \in Environment \/ ~BudgetGateDenies(bucket[s], ps)
    /\ \E gated \in BOOLEAN :
            call' = [call EXCEPT ![c] = [session |-> s, paths |-> ps,
                                         phase |-> "running", gated |-> gated]]
    /\ UNCHANGED <<bucket, turn, granularity>>

\* A report counts the edit, or there was none to count, or it got lost.
CallEnds(c, s) ==
    /\ Reported(c) /\ call[c].session = s
    /\ call' = [call EXCEPT ![c] = NoCall]
    /\ \A t \in Sessions \ {s} : Quiet(t)
    /\ \/ /\ SameBudget(bucket[s], bucket'[s])
          /\ ~Counts(c) \/ Environment \cap {"post_lost", "audit_error"} # {}
       \/ /\ Counts(c)
          /\ bucket'[s].mutations = bucket[s].mutations + 1
          /\ bucket'[s].files = bucket[s].files \cup call[c].paths
    /\ UNCHANGED <<turn, granularity>>

BudgetsKept ==
    /\ \A t \in Sessions : Quiet(t) /\ SameTurn(t)
    /\ UNCHANGED <<call, granularity>>

BudgetStep ==
    \/ \E s \in Sessions : TurnBegins(s)
    \/ \E c \in Calls, s \in Sessions, ps \in TouchSets : CallBegins(c, s, ps)
    \/ \E c \in Calls : (ToolApplies(c) \/ ToolFails(c)) /\ UNCHANGED granularity
    \/ \E c \in Calls, s \in Sessions : CallEnds(c, s)
    \/ BudgetsKept
    \/ "restart" \in Environment /\ (\A t \in Sessions : NoBudgetUsed(bucket'[t]))
            /\ UNCHANGED <<call, turn>>
-----------------------------------------------------------------------------
(* What each handler does to a budget *)

LEMMA EmptyBudget == NoBudgetUsed(EmptyBucket)
BY DEF NoBudgetUsed, EmptyBucket

\* A write for one session leaves the budgets of the others, or evicts them.
LEMMA WriteIsQuiet ==
    ASSUME StoreTypeOK, StoreSound, NEW s \in Sessions, NEW b \in Bucket, Write(s, b)
    PROVE  bucket'[s] = b /\ \A t \in Sessions \ {s} : Quiet(t)
<1>1. /\ bucket'[s] = b
      /\ \A t \in Sessions \ {s} :
            bucket'[t] = IF t \in Listed(order') THEN bucket[t] ELSE EmptyBucket
  BY WriteFacts
<1>2. order' = Touched(order, s, MaxSessions)
  BY DEF Write
<1>3. ASSUME NEW t \in Sessions \ {s} PROVE Quiet(t)
  <2>1. CASE bucket'[t] = bucket[t]
    BY <2>1 DEF Quiet, SameBudget
  <2>2. CASE bucket'[t] # bucket[t]
    <3>1. t \notin Listed(order') /\ bucket'[t] = EmptyBucket /\ Stored(t)
      BY <1>1, <1>3, <2>2 DEF StoreSound
    <3>2. QED BY <1>2, <1>3, <3>1, EmptyBudget DEF Quiet, Evicted
  <2>3. QED BY <2>1, <2>2
<1>4. QED BY <1>1, <1>3

\* A turn that begins, with or without a delivery, has used nothing.
LEMMA TurnUsesNothing ==
    ASSUME NEW old \in Bucket, NEW req \in SUBSET Skills
    PROVE  /\ Delivered(old, req) \in Bucket /\ NoBudgetUsed(Delivered(old, req))
           /\ BeginTurn(old) \in Bucket /\ NoBudgetUsed(BeginTurn(old))
BY DEF Delivered, BeginTurn, Bucket, NoBudgetUsed

\* A turn that begins with a write for its session.
LEMMA BeginsByWriting ==
    ASSUME TypeOK, StoreSound, NEW s \in Sessions, TurnMayChange(s),
           NEW b \in Bucket, NoBudgetUsed(b), Write(s, b), NEW how,
           turn' = [turn EXCEPT ![s] = NewTurn(how)],
           UNCHANGED <<call, granularity>>
    PROVE  TurnBegins(s)
<1>1. bucket'[s] = b /\ \A t \in Sessions \ {s} : Quiet(t)
  BY WriteIsQuiet DEF TypeOK
<1>2. /\ turn'[s].edits = 0 /\ turn'[s].touched = {}
      /\ \A t \in Sessions \ {s} : SameTurn(t)
  BY DEF TypeOK, NewTurn, SameTurn
<1>3. QED BY <1>1, <1>2 DEF TurnBegins

\* What the plan chain does to the budget is what recording does.
LEMMA ChainCounts ==
    ASSUME TypeOK, NEW c \in Calls, NEW s \in Sessions, call[c].session = s,
           NEW p \in PlanPaths, NEW body \in Bodies, NEW full \in BOOLEAN
    PROVE  /\ AfterPlanChain(c, p, body, full) \in Bucket
           /\ SameBudget(Recorded(bucket[s], c), AfterPlanChain(c, p, body, full))
<1> DEFINE old == bucket[s]
           mid == Captured(old, body, full)
           rec == Recorded(mid, c)
           b == AfterPlanChain(c, p, body, full)
<1>1. b \in Bucket /\ b = [rec EXCEPT !.plan = p]
  BY AfterPlanChainFacts DEF AfterPlanChain, Rewrites
<1>2. old \in Bucket
  BY DEF TypeOK, StoreTypeOK
<1>3. mid \in Bucket /\ SameBudget(old, mid)
  <2>1. mid \in Bucket
    BY <1>2, CapturedFacts
  <2>2. SameBudget(old, mid)
    <3> HIDE DEF old
    <3>1. QED BY <1>2 DEF Captured, SameBudget, Bucket
  <2>3. QED BY <2>1, <2>2
<1>4. rec \in Bucket
  BY <1>3, RecordedFacts
<1>5. SameBudget(rec, b)
  <2> HIDE DEF rec, b
  <2>1. QED BY <1>1, <1>4 DEF SameBudget, Bucket
<1>6. SameBudget(Recorded(old, c), rec)
  <2> HIDE DEF old, mid
  <2>1. QED BY <1>2, <1>3 DEF Recorded, SameBudget, Bucket
<1>7. QED BY <1>1, <1>5, <1>6 DEF SameBudget

\* Recording counts the edit of an applied call, and nothing else.
LEMMA RecordingCounts ==
    ASSUME TypeOK, NEW old \in Bucket, NEW c \in Calls
    PROVE  /\ ~Counts(c) => SameBudget(old, Recorded(old, c))
           /\ Counts(c) => /\ Recorded(old, c).mutations = old.mutations + 1
                           /\ Recorded(old, c).files = old.files \cup call[c].paths
<1>1. CASE ~Counts(c)
  BY <1>1 DEF Recorded, SameBudget
<1>2. CASE Counts(c)
  <2>1. Recorded(old, c) = [old EXCEPT !.mutations = old.mutations + 1,
                                       !.files = old.files \cup call[c].paths]
    BY <1>2 DEF Recorded
  <2>2. QED BY <1>2, <2>1 DEF Bucket
<1>3. QED BY <1>1, <1>2

\* A report that writes the bucket with the edit recorded in it.
LEMMA EndsByWriting ==
    ASSUME TypeOK, StoreSound, NEW c \in Calls, NEW s \in Sessions,
           Reported(c), call[c].session = s, Retire(c), UNCHANGED granularity,
           NEW b \in Bucket, SameBudget(Recorded(bucket[s], c), b), Write(s, b)
    PROVE  CallEnds(c, s)
<1>1. bucket[s] \in Bucket
  BY DEF TypeOK, StoreTypeOK
<1>2. bucket'[s] = b /\ \A t \in Sessions \ {s} : Quiet(t)
  BY WriteIsQuiet DEF TypeOK
<1>3. \/ SameBudget(bucket[s], bucket'[s]) /\ ~Counts(c)
      \/ /\ Counts(c)
         /\ bucket'[s].mutations = bucket[s].mutations + 1
         /\ bucket'[s].files = bucket[s].files \cup call[c].paths
  BY <1>1, <1>2, RecordingCounts DEF SameBudget
<1>4. QED BY <1>2, <1>3 DEF CallEnds, Retire

\* A report that leaves the store alone.
LEMMA EndsUnrecorded ==
    ASSUME NEW c \in Calls, NEW s \in Sessions,
           Reported(c), call[c].session = s, UNCHANGED <<bucket, turn, granularity>>,
           call' = [call EXCEPT ![c] = NoCall],
           ~Counts(c) \/ Environment \cap {"post_lost", "audit_error"} # {}
    PROVE  CallEnds(c, s)
BY DEF CallEnds, Quiet, SameBudget

\* Every step of the system is one of the budget steps.
LEMMA StepOnBudget ==
    ASSUME TypeOK, StoreSound, GateNext
    PROVE  BudgetStep
<1>1. \A s \in Sessions : bucket[s] \in Bucket
  BY DEF TypeOK, StoreTypeOK
<1>2. ASSUME NEW s \in Sessions, PromptServed(s), UNCHANGED granularity
      PROVE  TurnBegins(s)
  <2>1. PICK scored \in Scored(s) : \E req \in CapRequired(Forced, scored) :
            Write(s, Delivered(bucket[s], req))
    BY <1>2 DEF PromptServed
  <2>2. PICK req \in CapRequired(Forced, scored) : Write(s, Delivered(bucket[s], req))
    BY <2>1
  <2>3. req \in SUBSET Skills
    BY RequiredAreSkills
  <2>4. QED
    BY <1>1, <1>2, <2>2, <2>3, TurnUsesNothing, BeginsByWriting DEF PromptServed
<1>3. ASSUME NEW s \in Sessions, PromptReleased(s), UNCHANGED granularity
      PROVE  TurnBegins(s)
  BY <1>1, <1>3, TurnUsesNothing, BeginsByWriting DEF PromptReleased
<1>4. ASSUME NEW s \in Sessions, PromptBroken(s), UNCHANGED granularity
      PROVE  TurnBegins(s)
  <2>1. CASE Stored(s)
    BY <1>1, <1>4, <2>1, TurnUsesNothing, BeginsByWriting DEF PromptBroken
  <2>2. CASE ~Stored(s)
    <3>1. UNCHANGED storeVars /\ UNCHANGED call /\ TurnMayChange(s)
      BY <1>4, <2>2 DEF PromptBroken
    <3>2. bucket' = bucket /\ NoBudgetUsed(bucket'[s])
      BY <2>2, <3>1, EmptyBudget DEF storeVars, StoreSound
    <3>3. /\ turn'[s].edits = 0 /\ turn'[s].touched = {}
          /\ \A t \in Sessions \ {s} : SameTurn(t)
      BY <1>4 DEF PromptBroken, TypeOK, NewTurn, SameTurn
    <3>4. QED BY <1>4, <3>1, <3>2, <3>3 DEF TurnBegins, Quiet, SameBudget
  <2>3. QED BY <2>1, <2>2
<1>5. ASSUME NEW s \in Sessions, SessionEnd(s), UNCHANGED granularity
      PROVE  TurnBegins(s)
  <2>1. bucket' = [bucket EXCEPT ![s] = EmptyBucket]
    BY <1>5 DEF SessionEnd, Clear
  <2>2. /\ NoBudgetUsed(bucket'[s])
        /\ \A t \in Sessions \ {s} : bucket'[t] = bucket[t]
    BY <2>1, EmptyBudget DEF TypeOK, StoreTypeOK
  <2>3. /\ turn'[s].edits = 0 /\ turn'[s].touched = {}
        /\ \A t \in Sessions \ {s} : SameTurn(t)
    BY <1>5 DEF SessionEnd, TypeOK, NewTurn, SameTurn
  <2>4. QED BY <1>5, <2>2, <2>3 DEF SessionEnd, TurnBegins, Quiet, SameBudget
<1>6. ASSUME NEW s \in Sessions, NEW c \in Calls, NEW ps \in TouchSets,
             PreToolUse(c, s, ps) \/ PreToolUseUnanswered(c, s, ps),
             UNCHANGED granularity
      PROVE  CallBegins(c, s, ps)
  BY <1>6 DEF PreToolUse, PreToolUseUnanswered, Start, Denied, CallBegins, storeVars
<1>7. ASSUME NEW s \in Sessions, Stop(s), UNCHANGED granularity
      PROVE  BudgetsKept
  <2> DEFINE b == [bucket[s] EXCEPT !.blocked = TRUE]
  <2>1. b \in Bucket /\ SameBudget(bucket[s], b)
    BY <1>1 DEF Bucket, SameBudget
  <2>2. Write(s, b) /\ UNCHANGED call
    BY <1>7 DEF Stop
  <2>3. \A t \in Sessions : SameTurn(t)
    BY <1>7 DEF Stop, TypeOK, Turn, SameTurn
  <2> HIDE DEF b
  <2>4. bucket'[s] = b /\ \A t \in Sessions \ {s} : Quiet(t)
    BY <2>1, <2>2, WriteIsQuiet DEF TypeOK
  <2>5. \A t \in Sessions : Quiet(t)
    BY <2>1, <2>4 DEF Quiet
  <2>6. QED BY <1>7, <2>2, <2>3, <2>5 DEF BudgetsKept
<1>8. ASSUME NEW c \in Calls, CallStep(c), UNCHANGED granularity
      PROVE  BudgetStep
  <2>1. CASE ToolApplies(c) \/ ToolFails(c)
    BY <1>8, <2>1 DEF BudgetStep
  <2>2. ASSUME Reported(c)
        PROVE  \E s \in Sessions : call[c].session = s
    BY <2>2 DEF Reported, TypeOK, Call
  <2>3. SUFFICES ASSUME NEW s \in Sessions, call[c].session = s,
                        ~ToolApplies(c), ~ToolFails(c)
                 PROVE  CallEnds(c, s)
    <3>1. ~ToolApplies(c) /\ ~ToolFails(c) => Reported(c)
      BY <1>8 DEF CallStep, PostToolUse, PostToolUseLost, PostPlanQuiet,
                  PostPlanSurfaced, PostPlanAborted, PlanReport
    <3>2. QED BY <2>1, <2>2, <2>3, <3>1 DEF BudgetStep
  <2>4. CASE PostToolUse(c)
    <3>1. Reported(c) /\ Retire(c)
      BY <2>4 DEF PostToolUse
    <3>2. CASE Counts(c)
      <4>1. Recorded(bucket[s], c) \in Bucket /\ Write(s, Recorded(bucket[s], c))
        BY <1>1, <2>3, <2>4, <3>2, RecordedFacts DEF PostToolUse
      <4>2. QED BY <1>8, <2>3, <3>1, <4>1, EndsByWriting DEF SameBudget
    <3>3. CASE ~Counts(c)
      BY <1>8, <2>3, <2>4, <3>1, <3>3, EndsUnrecorded DEF PostToolUse, Retire, storeVars
    <3>4. QED BY <3>2, <3>3
  <2>5. CASE PostToolUseLost(c)
    BY <1>8, <2>3, <2>5, EndsUnrecorded DEF PostToolUseLost, Retire, storeVars
  <2>6. ASSUME NEW p \in PlanPaths, NEW body \in Bodies, NEW full \in BOOLEAN,
               PostPlanQuiet(c, p, body, full)
        PROVE  CallEnds(c, s)
    <3>1. /\ Reported(c) /\ Retire(c)
          /\ Write(s, AfterPlanChain(c, p, body, full))
      BY <2>3, <2>6 DEF PostPlanQuiet, PlanReport
    <3>2. QED BY <1>8, <2>3, <3>1, ChainCounts, EndsByWriting
  <2>7. ASSUME NEW p \in PlanPaths, NEW body \in Bodies, PostPlanSurfaced(c, p, body)
        PROVE  CallEnds(c, s)
    <3> DEFINE b == AfterPlanChain(c, p, body, TRUE)
    <3>1. PICK ids \in Surfaced(p, body) :
              Write(s, [b EXCEPT !.required = @ \cup ids, !.read = @ \cup ids])
      BY <2>3, <2>7 DEF PostPlanSurfaced
    <3>2. ids \in SUBSET Skills
      BY GateAssumption DEF Surfaced, NewMatches
    <3>3. b \in Bucket /\ SameBudget(Recorded(bucket[s], c), b)
      BY <2>3, ChainCounts
    <3> DEFINE d == [b EXCEPT !.required = b.required \cup ids, !.read = b.read \cup ids]
    <3> HIDE DEF b
    <3>4. d \in Bucket /\ SameBudget(b, d)
      BY <3>2, <3>3 DEF Bucket, SameBudget
    <3>5. Write(s, d)
      BY <3>1
    <3> HIDE DEF d
    <3>6. Reported(c) /\ Retire(c)
      BY <2>7 DEF PostPlanSurfaced, PlanReport
    <3>7. SameBudget(Recorded(bucket[s], c), d)
      BY <3>3, <3>4 DEF SameBudget
    <3>8. QED BY <1>8, <2>3, <3>4, <3>5, <3>6, <3>7, EndsByWriting
  <2>8. ASSUME NEW p \in PlanPaths, NEW body \in Bodies, PostPlanAborted(c, p, body)
        PROVE  CallEnds(c, s)
    BY <1>8, <2>3, <2>8, EndsUnrecorded DEF PostPlanAborted, PlanReport, Retire, storeVars
  <2>9. QED BY <1>8, <2>3, <2>4, <2>5, <2>6, <2>7, <2>8 DEF CallStep
<1>9. ASSUME Restart
      PROVE  BudgetStep
  <2>1. \A t \in Sessions : NoBudgetUsed(bucket'[t])
    BY <1>9, EmptyBudget DEF Restart, Forget
  <2>2. QED BY <1>9, <2>1 DEF Restart, BudgetStep
<1>10. QED
  BY <1>2, <1>3, <1>4, <1>5, <1>6, <1>7, <1>8, <1>9 DEF GateNext, HookStep, BudgetStep
-----------------------------------------------------------------------------
(* What is counted was done in this turn *)

Pending(s) == {c \in Calls : call[c].session = s /\ call[c].phase = "applied"}

\* The edits counted and those whose report is still to come were done in
\* this turn.  BudgetIsOfThisTurn alone is not inductive: it says nothing of
\* the reports under way.
CountedHere(s) ==
    /\ bucket[s].mutations + Cardinality(Pending(s)) <= turn[s].edits
    /\ bucket[s].files \subseteq turn[s].touched
    /\ \A c \in Pending(s) : call[c].paths \subseteq turn[s].touched

NoPromptDuringCalls == "overlap" \notin Environment /\ IsFiniteSet(Calls)

LEMMA CountTypes ==
    ASSUME TypeOK, IsFiniteSet(Calls), NEW s \in Sessions
    PROVE  /\ bucket[s].mutations \in Nat /\ turn[s].edits \in Nat
           /\ Cardinality(Pending(s)) \in Nat /\ IsFiniteSet(Pending(s))
<1>1. bucket[s] \in Bucket /\ turn[s] \in Turn
  BY DEF TypeOK, StoreTypeOK
<1>2. bucket[s].mutations \in Nat /\ turn[s].edits \in Nat
  BY <1>1 DEF Bucket, Turn
<1>3. Pending(s) \in SUBSET Calls
  BY DEF Pending
<1>4. IsFiniteSet(Pending(s)) /\ Cardinality(Pending(s)) \in Nat
  BY <1>3, FS_Subset, FS_CardinalityType
<1>5. QED BY <1>2, <1>4

\* A session whose turn and pending calls stay as they are.
LEMMA CountUndisturbed ==
    ASSUME TypeOK, IsFiniteSet(Calls), NEW t \in Sessions, CountedHere(t),
           Quiet(t), SameTurn(t), Pending(t)' = Pending(t),
           \A c \in Pending(t) : call'[c].paths = call[c].paths
    PROVE  CountedHere(t)'
<1> DEFINE n == Cardinality(Pending(t))
<1>1. bucket[t].mutations \in Nat /\ n \in Nat
  BY CountTypes
<1>2. n' = n
  BY DEF n
<1>3. /\ bucket'[t].mutations \in {0, bucket[t].mutations}
      /\ bucket'[t].files \subseteq bucket[t].files
  BY DEF Quiet, SameBudget, NoBudgetUsed
<1>4. turn'[t].edits \in Nat /\ turn'[t].edits = turn[t].edits
      /\ turn'[t].touched = turn[t].touched
  BY CountTypes DEF SameTurn
<1>5. bucket[t].mutations + n <= turn[t].edits
  BY DEF CountedHere
<1>6. bucket'[t].mutations + n' <= turn'[t].edits
  <2> HIDE DEF n
  <2>1. QED BY <1>1, <1>2, <1>3, <1>4, <1>5
<1>7. QED BY <1>3, <1>4, <1>6 DEF CountedHere

LEMMA CountStep ==
    ASSUME NoPromptDuringCalls, TypeOK, BudgetStep, \A s \in Sessions : CountedHere(s)
    PROVE  \A s \in Sessions : CountedHere(s)'
<1>1. IsFiniteSet(Calls) /\ call \in [Calls -> Call] /\ NoSession \notin Sessions
      /\ turn \in [Sessions -> Turn]
  BY GateAssumption DEF NoPromptDuringCalls, TypeOK
<1>2. ASSUME NEW s \in Sessions, TurnBegins(s), NEW t \in Sessions
      PROVE  CountedHere(t)'
  <2>1. call' = call
    BY <1>2 DEF TurnBegins
  <2>2. CASE t = s
    <3>1. Pending(s)' = {}
      BY <1>2, <2>1 DEF TurnBegins, TurnMayChange, NoPromptDuringCalls, InFlight, Pending
    <3>2. Cardinality(Pending(s))' = 0
      BY <3>1, FS_EmptySet
    <3>3. QED BY <1>2, <2>2, <3>1, <3>2 DEF TurnBegins, NoBudgetUsed, CountedHere
  <2>3. CASE t # s
    <3>1. Quiet(t) /\ SameTurn(t) /\ Pending(t)' = Pending(t)
      BY <1>2, <2>1, <2>3 DEF TurnBegins, Pending
    <3>2. QED BY <1>1, <2>1, <3>1, CountUndisturbed
  <2>4. QED BY <2>2, <2>3
<1>3. ASSUME NEW c \in Calls, NEW s \in Sessions, NEW ps \in TouchSets,
             CallBegins(c, s, ps), NEW t \in Sessions
      PROVE  CountedHere(t)'
  <2>1. /\ call[c] = NoCall /\ call'[c].phase = "running"
        /\ \A d \in Calls \ {c} : call'[d] = call[d]
    BY <1>1, <1>3 DEF CallBegins
  <2>2. Pending(t)' = Pending(t) /\ c \notin Pending(t)
    BY <1>1, <2>1 DEF Pending, NoCall
  <2>3. Quiet(t) /\ SameTurn(t)
    BY <1>3 DEF CallBegins, Quiet, SameBudget, SameTurn
  <2>4. \A d \in Pending(t) : call'[d].paths = call[d].paths
    BY <2>1, <2>2 DEF Pending
  <2>5. QED BY <1>1, <2>2, <2>3, <2>4, CountUndisturbed
<1>4. ASSUME NEW c \in Calls, ToolFails(c), NEW t \in Sessions
      PROVE  CountedHere(t)'
  <2>1. /\ call[c].phase = "running" /\ call'[c].phase = "failed"
        /\ \A d \in Calls \ {c} : call'[d] = call[d]
    BY <1>1, <1>4 DEF ToolFails, Call
  <2>2. Pending(t)' = Pending(t) /\ c \notin Pending(t)
    BY <2>1 DEF Pending
  <2>3. Quiet(t) /\ SameTurn(t)
    BY <1>4 DEF ToolFails, storeVars, Quiet, SameBudget, SameTurn
  <2>4. \A d \in Pending(t) : call'[d].paths = call[d].paths
    BY <2>1, <2>2 DEF Pending
  <2>5. QED BY <1>1, <2>2, <2>3, <2>4, CountUndisturbed
<1>5. ASSUME NEW c \in Calls, ToolApplies(c), NEW t \in Sessions
      PROVE  CountedHere(t)'
  <2>1. PICK s : s = call[c].session /\ s \in Sessions
    BY <1>1, <1>5 DEF ToolApplies, Call
  <2>2. /\ call[c].phase = "running" /\ call'[c].phase = "applied"
        /\ call'[c].session = s /\ call'[c].paths = call[c].paths
        /\ \A d \in Calls \ {c} : call'[d] = call[d]
    BY <1>1, <1>5, <2>1 DEF ToolApplies, Call
  <2>3. bucket' = bucket
    BY <1>5 DEF ToolApplies, storeVars
  <2>4. CASE t = s
    <3>1. Pending(s)' = Pending(s) \cup {c} /\ c \notin Pending(s)
      BY <2>1, <2>2 DEF Pending
    <3>2. Cardinality(Pending(s))' = Cardinality(Pending(s)) + 1
      BY <1>1, <2>1, <3>1, CountTypes, FS_AddElement
    <3>3. /\ turn'[s].edits = turn[s].edits + 1
          /\ turn'[s].touched = turn[s].touched \cup call[c].paths
      <4>1. turn' = [turn EXCEPT ![s].edits = @ + 1,
                                 ![s].touched = @ \cup call[c].paths]
        BY <1>5, <2>1 DEF ToolApplies
      <4>2. QED BY <1>1, <2>1, <4>1 DEF Turn
    <3>4. bucket'[s].mutations + Cardinality(Pending(s))' <= turn'[s].edits
      BY <1>1, <2>1, <2>3, <3>2, <3>3, CountTypes DEF CountedHere
    <3>5. bucket'[s].files \subseteq turn'[s].touched
      BY <2>1, <2>3, <3>3 DEF CountedHere
    <3>6. \A d \in Pending(s)' : call'[d].paths \subseteq turn'[s].touched
      BY <2>1, <2>2, <3>1, <3>3 DEF CountedHere, Pending
    <3>7. QED BY <2>4, <3>4, <3>5, <3>6 DEF CountedHere
  <2>5. CASE t # s
    <3>1. SameTurn(t)
      BY <1>1, <1>5, <2>1, <2>5 DEF ToolApplies, SameTurn, Turn
    <3>2. Pending(t)' = Pending(t) /\ c \notin Pending(t)
      BY <2>1, <2>2, <2>5 DEF Pending
    <3>3. \A d \in Pending(t) : call'[d].paths = call[d].paths
      BY <2>2, <3>2 DEF Pending
    <3>4. QED
      BY <1>1, <2>3, <3>1, <3>2, <3>3, CountUndisturbed DEF Quiet, SameBudget
  <2>6. QED BY <2>4, <2>5
<1>6. ASSUME NEW c \in Calls, NEW s \in Sessions, CallEnds(c, s), NEW t \in Sessions
      PROVE  CountedHere(t)'
  <2>1. /\ call[c].session = s /\ call'[c].session \notin Sessions
        /\ \A d \in Calls \ {c} : call'[d] = call[d]
    BY <1>1, <1>6 DEF CallEnds, NoCall
  <2>2. \A u \in Sessions : Pending(u)' = Pending(u) \ {c} /\ SameTurn(u)
    BY <1>6, <2>1 DEF CallEnds, Pending, SameTurn
  <2>3. CASE t = s
    <3>1. Cardinality(Pending(s) \ {c}) =
            IF c \in Pending(s) THEN Cardinality(Pending(s)) - 1
            ELSE Cardinality(Pending(s))
      BY <1>1, CountTypes, FS_RemoveElement
    <3>2. Counts(c) => c \in Pending(s)
      BY <2>1 DEF Counts, Pending
    <3>3. \/ SameBudget(bucket[s], bucket'[s])
          \/ /\ c \in Pending(s)
             /\ bucket'[s].mutations = bucket[s].mutations + 1
             /\ bucket'[s].files = bucket[s].files \cup call[c].paths
      BY <1>6, <3>2 DEF CallEnds
    <3>4. turn'[s].edits = turn[s].edits /\ turn'[s].touched = turn[s].touched
      BY <2>2 DEF SameTurn
    <3>5. bucket'[s].mutations + Cardinality(Pending(s))' <= turn'[s].edits
      <4> DEFINE m == bucket[s].mutations
                 k == Cardinality(Pending(s))
                 k2 == Cardinality(Pending(s) \ {c})
      <4>1. Cardinality(Pending(s))' = k2
        BY <2>2
      <4>2. m \in Nat /\ k \in Nat /\ turn[s].edits \in Nat /\ m + k <= turn[s].edits
        BY <1>1, CountTypes DEF CountedHere
      <4>3. k2 = IF c \in Pending(s) THEN k - 1 ELSE k
        BY <3>1
      <4>4. bucket'[s].mutations = m \/ (c \in Pending(s) /\ bucket'[s].mutations = m + 1)
        BY <3>3 DEF SameBudget
      <4> HIDE DEF m, k, k2
      <4>5. QED BY <3>4, <4>1, <4>2, <4>3, <4>4
    <3>6. bucket'[s].files \subseteq turn'[s].touched
      BY <3>3, <3>4 DEF CountedHere, SameBudget
    <3>7. \A d \in Pending(s)' : call'[d].paths \subseteq turn'[s].touched
      <4>1. ASSUME NEW d \in Pending(s) \ {c}
            PROVE  call'[d].paths \subseteq turn'[s].touched
        <5>1. d \in Pending(s) /\ call'[d] = call[d]
          BY <2>1 DEF Pending
        <5>2. QED BY <1>1, <3>4, <5>1 DEF CountedHere
      <4>2. QED BY <2>2, <4>1
    <3>8. QED BY <2>3, <3>5, <3>6, <3>7 DEF CountedHere
  <2>4. CASE t # s
    <3>1. Quiet(t) /\ c \notin Pending(t)
      BY <1>6, <2>1, <2>4 DEF CallEnds, Pending
    <3>2. Pending(t)' = Pending(t) /\ \A d \in Pending(t) : call'[d].paths = call[d].paths
      BY <2>1, <2>2, <3>1 DEF Pending
    <3>3. QED BY <1>1, <2>2, <3>1, <3>2, CountUndisturbed
  <2>5. QED BY <2>3, <2>4
<1>7. ASSUME BudgetsKept, NEW t \in Sessions
      PROVE  CountedHere(t)'
  BY <1>1, <1>7, CountUndisturbed DEF BudgetsKept, Pending
<1>8. ASSUME \A t \in Sessions : NoBudgetUsed(bucket'[t]), UNCHANGED <<call, turn>>,
             NEW t \in Sessions
      PROVE  CountedHere(t)'
  <2>1. Cardinality(Pending(t))' = Cardinality(Pending(t))
    BY <1>8 DEF Pending
  <2>2. 0 + Cardinality(Pending(t)) <= turn[t].edits
    BY <1>1, CountTypes DEF CountedHere
  <2>3. QED BY <1>8, <2>1, <2>2 DEF CountedHere, NoBudgetUsed, Pending
<1>9. QED
  BY <1>2, <1>3, <1>4, <1>5, <1>6, <1>7, <1>8 DEF BudgetStep

\* A step that changes nothing is a budget step too.
LEMMA StutterOnBudget ==
    ASSUME UNCHANGED gateVars
    PROVE  BudgetStep
BY DEF gateVars, BudgetStep, BudgetsKept, Quiet, SameBudget, SameTurn

\* "every prompt grants a fresh budget" (edit_budget_gate/store.py): as long
\* as no prompt arrives during a call, whatever runs in parallel, fails, gets
\* lost or is forgotten, no edit of an earlier turn is held against this one.
THEOREM BudgetStaysOfThisTurn ==
    ASSUME NoPromptDuringCalls
    PROVE  GateSpec => []BudgetIsOfThisTurn
<1> DEFINE Inv == \A s \in Sessions : CountedHere(s)
<1>1. GateInit => Inv
  <2>1. SUFFICES ASSUME GateInit, NEW s \in Sessions PROVE CountedHere(s)
    OBVIOUS
  <2>2. Pending(s) = {}
    BY <2>1, GateAssumption DEF GateInit, Pending, NoCall
  <2>3. Cardinality(Pending(s)) = 0
    BY <2>2, FS_EmptySet
  <2>4. NoBudgetUsed(bucket[s]) /\ turn[s].edits = 0
    BY <2>1, EmptyBudget DEF GateInit, StoreInit, NewTurn
  <2>5. QED BY <2>2, <2>3, <2>4 DEF CountedHere, NoBudgetUsed
<1>2. TypeOK /\ StoreSound /\ Inv /\ [GateNext]_gateVars => Inv'
  BY CountStep, StepOnBudget, StutterOnBudget
<1>3. TypeOK /\ Inv => BudgetIsOfThisTurn
  <2>1. SUFFICES ASSUME TypeOK, Inv, NEW s \in Sessions
                 PROVE  /\ bucket[s].mutations <= turn[s].edits
                        /\ bucket[s].files \subseteq turn[s].touched
    BY DEF BudgetIsOfThisTurn
  <2>2. /\ bucket[s].mutations \in Nat /\ turn[s].edits \in Nat
        /\ Cardinality(Pending(s)) \in Nat
    BY <2>1, CountTypes DEF NoPromptDuringCalls
  <2>3. QED BY <2>1, <2>2 DEF CountedHere
<1>4. QED BY <1>1, <1>2, <1>3, Typing, StoreStaysSound, PTL DEF GateSpec
-----------------------------------------------------------------------------
(* An orderly world: the budget holds as documented *)

AtMostOne(ps) == \A p, q \in ps : p = q

\* One call at a time, no prompt during one, every request answered, a store
\* with room for every session, and calls that touch one file.
OrderlyWorld ==
    /\ Environment \subseteq {"prompt_error"}
    /\ IsFiniteSet(Sessions) /\ Cardinality(Sessions) <= MaxSessions
    /\ \A ps \in TouchSets : AtMostOne(ps)

\* A store with room for every session evicts none.
LEMMA RoomForAll ==
    ASSUME OrderlyWorld, TypeOK, StoreSound, NEW t \in Sessions, Quiet(t)
    PROVE  SameBudget(bucket[t], bucket'[t])
<1>1. SUFFICES ASSUME Evicted(t) PROVE FALSE
  BY DEF Quiet
<1>2. PICK s \in Sessions \ {t} : order' = Touched(order, s, MaxSessions)
  BY <1>1 DEF Evicted
<1>3. order \in Seq(Sessions) /\ RecencyList(order, MaxSessions)
  BY DEF TypeOK, StoreTypeOK, StoreSound
<1>4. s \in Listed(order) \/ Len(order) < MaxSessions
  <2>1. SUFFICES ASSUME s \notin Listed(order) PROVE Len(order) < MaxSessions
    OBVIOUS
  <2> DEFINE others == Sessions \ {s}
             places == 1..Len(order)
  <2>2. IsFiniteSet(others) /\ Cardinality(others) = Cardinality(Sessions) - 1
    BY FS_RemoveElement DEF OrderlyWorld
  <2>3. order \in Injection(places, others)
    <3>1. DOMAIN order = places /\ \A i \in places : order[i] \in others
      BY <1>3, <2>1 DEF Listed
    <3>2. order = [i \in places |-> order[i]]
      BY <1>3, <3>1
    <3>3. order \in [places -> others]
      BY <3>1, <3>2
    <3>4. \A i, j \in places : order[i] = order[j] => i = j
      BY <1>3, <3>1 DEF RecencyList, NoRepeats
    <3>5. QED BY <3>3, <3>4 DEF Injection, IsInjective
  <2>4. Cardinality(places) <= Cardinality(others)
    BY <2>2, <2>3, FS_Injection
  <2>5. Len(order) \in Nat
    BY <1>3
  <2>6. Cardinality(places) = Len(order)
    <3>1. /\ 1 > Len(order) => Cardinality(places) = 0
          /\ ~(1 > Len(order)) => Cardinality(places) = Len(order) - 1 + 1
      BY <2>5, FS_Interval
    <3> HIDE DEF places
    <3>2. QED BY <2>5, <3>1
  <2>7. Cardinality(Sessions) \in Nat /\ MaxSessions \in Nat
    BY FS_CardinalityType, StoreAssumption DEF OrderlyWorld
  <2>8. QED BY <2>2, <2>4, <2>5, <2>6, <2>7 DEF OrderlyWorld
<1>5. Listed(order') = Listed(order) \cup {s}
  BY <1>2, <1>3, <1>4, TouchingLosesNone, StoreAssumption
<1>6. QED BY <1>1, <1>5 DEF Evicted, Stored

\* The edits of a turn against what is counted: with no call in flight all
\* are counted; a call in flight was let through on a budget not yet used.
WithinEdits(s) ==
    /\ turn[s].edits <= 1
    /\ InFlight(s) = {} => turn[s].edits <= bucket[s].mutations
    /\ \A c \in InFlight(s) :
            /\ bucket[s].mutations = 0
            /\ call[c].phase # "applied" => turn[s].edits = 0

\* The files of a turn against what is counted, in the same way.
WithinFiles(s) ==
    /\ AtMostOne(turn[s].touched)
    /\ InFlight(s) = {} => turn[s].touched = bucket[s].files
    /\ \A c \in InFlight(s) :
            /\ AtMostOne(turn[s].touched \cup call[c].paths)
            /\ turn[s].touched = IF call[c].phase = "applied"
                                 THEN bucket[s].files \cup call[c].paths
                                 ELSE bucket[s].files

WithinBudget(s) ==
    /\ \A c, d \in InFlight(s) : c = d
    /\ granularity = "function" => WithinEdits(s)
    /\ granularity = "file" => WithinFiles(s)

\* A session whose budget, turn and calls stay as they are.
LEMMA WithinUndisturbed ==
    ASSUME NEW t \in Sessions, WithinBudget(t), UNCHANGED granularity,
           SameBudget(bucket[t], bucket'[t]), SameTurn(t),
           InFlight(t)' = InFlight(t), \A c \in InFlight(t) : call'[c] = call[c]
    PROVE  WithinBudget(t)'
BY DEF WithinBudget, WithinEdits, WithinFiles, SameBudget, SameTurn

\* A turn that begins has used nothing and has no call in flight.
LEMMA WithinAtStart ==
    ASSUME OrderlyWorld, NEW s \in Sessions, TurnBegins(s)
    PROVE  WithinBudget(s)'
<1>1. InFlight(s)' = {}
  BY DEF OrderlyWorld, TurnBegins, TurnMayChange, InFlight
<1>2. /\ bucket'[s].mutations = 0 /\ bucket'[s].files = {}
      /\ turn'[s].edits = 0 /\ turn'[s].touched = {}
  BY DEF TurnBegins, NoBudgetUsed
<1>3. QED BY <1>1, <1>2 DEF WithinBudget, WithinEdits, WithinFiles, AtMostOne

LEMMA OrderlyStep ==
    ASSUME OrderlyWorld, TypeOK, StoreSound, BudgetStep,
           \A s \in Sessions : WithinBudget(s)
    PROVE  \A s \in Sessions : WithinBudget(s)'
<1>1. /\ call \in [Calls -> Call] /\ NoSession \notin Sessions
      /\ turn \in [Sessions -> Turn]
      /\ \A s \in Sessions : bucket[s].mutations \in Nat /\ turn[s].edits \in Nat
  BY GateAssumption DEF TypeOK, StoreTypeOK, Bucket, Turn
<1>2. ASSUME NEW s \in Sessions, TurnBegins(s), NEW t \in Sessions
      PROVE  WithinBudget(t)'
  <2>1. CASE t = s
    BY <1>2, <2>1, WithinAtStart
  <2>2. CASE t # s
    <3>1. SameBudget(bucket[t], bucket'[t]) /\ SameTurn(t)
      BY <1>2, <2>2, RoomForAll DEF TurnBegins
    <3>2. UNCHANGED <<call, granularity>>
      BY <1>2 DEF TurnBegins
    <3>3. QED BY <3>1, <3>2, WithinUndisturbed DEF InFlight
  <2>3. QED BY <2>1, <2>2
<1>3. ASSUME NEW c \in Calls, NEW s \in Sessions, NEW ps \in TouchSets,
             CallBegins(c, s, ps), NEW t \in Sessions
      PROVE  WithinBudget(t)'
  <2>1. /\ call[c].session \notin Sessions /\ call'[c].session = s
        /\ call'[c].phase = "running" /\ call'[c].paths = ps
        /\ \A d \in Calls \ {c} : call'[d] = call[d]
    BY <1>1, <1>3 DEF CallBegins, NoCall
  <2>2. UNCHANGED <<bucket, turn, granularity>>
    BY <1>3 DEF CallBegins
  <2>3. CASE t = s
    <3>1. InFlight(s) = {} /\ InFlight(s)' = {c}
      BY <1>3, <2>1 DEF CallBegins, OrderlyWorld, InFlight
    <3>2. ~BudgetGateDenies(bucket[s], ps)
      BY <1>3 DEF CallBegins, OrderlyWorld
    <3>3. granularity = "function" => WithinEdits(s)'
      <4>1. SUFFICES ASSUME granularity = "function" PROVE WithinEdits(s)'
        OBVIOUS
      <4>2. turn[s].edits <= bucket[s].mutations /\ ~(bucket[s].mutations >= 1)
        BY <3>1, <3>2, <4>1 DEF WithinBudget, WithinEdits, BudgetGateDenies
      <4>3. turn[s].edits = 0 /\ bucket[s].mutations = 0
        BY <1>1, <4>2
      <4>4. QED BY <2>2, <3>1, <4>3 DEF WithinEdits
    <3>4. granularity = "file" => WithinFiles(s)'
      <4>1. SUFFICES ASSUME granularity = "file" PROVE WithinFiles(s)'
        OBVIOUS
      <4>2. /\ AtMostOne(turn[s].touched) /\ turn[s].touched = bucket[s].files
            /\ bucket[s].files = {} \/ ps \subseteq bucket[s].files
        BY <3>1, <3>2, <4>1 DEF WithinBudget, WithinFiles, BudgetGateDenies
      <4>3. AtMostOne(turn[s].touched \cup ps)
        BY <4>2 DEF AtMostOne, OrderlyWorld
      <4>4. QED BY <2>1, <2>2, <3>1, <4>2, <4>3 DEF WithinFiles
    <3>5. QED BY <2>2, <2>3, <3>1, <3>3, <3>4 DEF WithinBudget
  <2>4. CASE t # s
    <3>1. InFlight(t)' = InFlight(t) /\ \A d \in InFlight(t) : call'[d] = call[d]
      BY <2>1, <2>4 DEF InFlight
    <3>2. QED BY <2>2, <3>1, WithinUndisturbed DEF SameBudget, SameTurn
  <2>5. QED BY <2>3, <2>4
\* A call that goes from one phase to another.
<1>4. ASSUME NEW c \in Calls, ToolApplies(c) \/ ToolFails(c), UNCHANGED granularity,
             NEW t \in Sessions
      PROVE  WithinBudget(t)'
  <2>1. PICK s : s = call[c].session /\ s \in Sessions
    BY <1>1, <1>4 DEF ToolApplies, ToolFails, Call
  <2>2. /\ call[c].phase = "running" /\ call'[c].session = s
        /\ call'[c].paths = call[c].paths
        /\ \A d \in Calls \ {c} : call'[d] = call[d]
    BY <1>1, <1>4, <2>1 DEF ToolApplies, ToolFails, Call
  <2>3. bucket' = bucket /\ \A u \in Sessions : InFlight(u)' = InFlight(u)
    BY <1>4, <2>1, <2>2 DEF ToolApplies, ToolFails, storeVars, InFlight
  <2>4. CASE t = s
    <3>1. InFlight(s) = {c}
      BY <2>1 DEF WithinBudget, InFlight
    <3>2. granularity = "function" =>
              turn[s].edits = 0 /\ bucket[s].mutations = 0
      BY <2>1, <2>2, <3>1 DEF WithinBudget, WithinEdits
    <3>3. granularity = "file" => /\ turn[s].touched = bucket[s].files
                                  /\ AtMostOne(turn[s].touched)
                                  /\ AtMostOne(turn[s].touched \cup call[c].paths)
      BY <2>1, <2>2, <3>1 DEF WithinBudget, WithinFiles
    <3>4. CASE ToolApplies(c)
      <4>1. /\ call'[c].phase = "applied"
            /\ turn'[s].edits = turn[s].edits + 1
            /\ turn'[s].touched = turn[s].touched \cup call[c].paths
        BY <1>1, <2>1, <3>4 DEF ToolApplies, Turn, Call
      <4>2. QED
        BY <1>4, <2>1, <2>2, <2>3, <2>4, <3>1, <3>2, <3>3, <4>1
           DEF WithinBudget, WithinEdits, WithinFiles
    <3>5. CASE ToolFails(c)
      <4>1. call'[c].phase = "failed" /\ turn' = turn
        BY <1>1, <3>5 DEF ToolFails, Call
      <4>2. QED
        BY <1>4, <2>1, <2>2, <2>3, <2>4, <3>1, <3>2, <3>3, <4>1
           DEF WithinBudget, WithinEdits, WithinFiles
    <3>6. QED BY <1>4, <3>4, <3>5
  <2>5. CASE t # s
    <3>1. SameTurn(t) /\ \A d \in InFlight(t) : call'[d] = call[d]
      BY <1>1, <1>4, <2>1, <2>2, <2>5 DEF ToolApplies, ToolFails, SameTurn, Turn, InFlight
    <3>2. QED BY <1>4, <2>3, <3>1, WithinUndisturbed DEF SameBudget
  <2>6. QED BY <2>4, <2>5
<1>5. ASSUME NEW c \in Calls, NEW s \in Sessions, CallEnds(c, s), NEW t \in Sessions
      PROVE  WithinBudget(t)'
  <2>1. /\ call[c].session = s /\ call'[c].session \notin Sessions
        /\ \A d \in Calls \ {c} : call'[d] = call[d]
        /\ UNCHANGED <<turn, granularity>>
    BY <1>1, <1>5 DEF CallEnds, NoCall
  <2>2. CASE t = s
    <3>1. InFlight(s) = {c} /\ InFlight(s)' = {}
      BY <2>1 DEF WithinBudget, InFlight
    <3>2. Counts(c) <=> granularity # "none" /\ call[c].phase = "applied"
      BY DEF Counts
    <3>3. \/ SameBudget(bucket[s], bucket'[s]) /\ ~Counts(c)
          \/ /\ Counts(c)
             /\ bucket'[s].mutations = bucket[s].mutations + 1
             /\ bucket'[s].files = bucket[s].files \cup call[c].paths
      BY <1>5 DEF CallEnds, OrderlyWorld
    <3>4. granularity = "function" => WithinEdits(s)'
      <4>1. SUFFICES ASSUME granularity = "function" PROVE WithinEdits(s)'
        OBVIOUS
      <4>2. /\ turn[s].edits <= 1 /\ bucket[s].mutations = 0
            /\ call[c].phase # "applied" => turn[s].edits = 0
        BY <3>1, <4>1 DEF WithinBudget, WithinEdits
      <4>3. turn'[s].edits <= bucket'[s].mutations
        BY <2>1, <3>2, <3>3, <4>1, <4>2 DEF SameBudget
      <4>4. QED BY <2>1, <3>1, <4>2, <4>3 DEF WithinEdits
    <3>5. granularity = "file" => WithinFiles(s)'
      <4>1. SUFFICES ASSUME granularity = "file" PROVE WithinFiles(s)'
        OBVIOUS
      <4>2. /\ AtMostOne(turn[s].touched)
            /\ turn[s].touched = IF call[c].phase = "applied"
                                 THEN bucket[s].files \cup call[c].paths
                                 ELSE bucket[s].files
        BY <3>1, <4>1 DEF WithinBudget, WithinFiles
      <4>3. turn'[s].touched = bucket'[s].files
        BY <2>1, <3>2, <3>3, <4>1, <4>2 DEF SameBudget
      <4>4. QED BY <2>1, <3>1, <4>2, <4>3 DEF WithinFiles
    <3>6. QED BY <2>1, <2>2, <3>1, <3>4, <3>5 DEF WithinBudget
  <2>3. CASE t # s
    <3>1. SameBudget(bucket[t], bucket'[t])
      BY <1>5, <2>3, RoomForAll DEF CallEnds
    <3>2. InFlight(t)' = InFlight(t) /\ \A d \in InFlight(t) : call'[d] = call[d]
      BY <2>1, <2>3 DEF InFlight
    <3>3. QED BY <2>1, <3>1, <3>2, WithinUndisturbed DEF SameTurn
  <2>4. QED BY <2>2, <2>3
<1>6. ASSUME BudgetsKept, NEW t \in Sessions
      PROVE  WithinBudget(t)'
  <2>1. /\ SameBudget(bucket[t], bucket'[t]) /\ SameTurn(t)
        /\ UNCHANGED <<call, granularity>>
    BY <1>6, RoomForAll DEF BudgetsKept
  <2>2. QED BY <2>1, WithinUndisturbed DEF InFlight
<1>7. "restart" \notin Environment
  BY DEF OrderlyWorld
<1>8. QED
  BY <1>2, <1>3, <1>4, <1>5, <1>6, <1>7 DEF BudgetStep

LEMMA AtMostOneCounts ==
    ASSUME NEW ps, AtMostOne(ps)
    PROVE  Cardinality(ps) <= 1
<1>1. CASE ps = {}
  BY <1>1, FS_EmptySet
<1>2. CASE ps # {}
  <2>1. PICK p \in ps : ps = {p}
    BY <1>2 DEF AtMostOne
  <2>2. Cardinality({p}) = 1
    BY FS_Singleton
  <2>3. QED BY <2>1, <2>2
<1>3. QED BY <1>1, <1>2

LEMMA OrderlyInvariant ==
    ASSUME OrderlyWorld
    PROVE  GateSpec => [](\A s \in Sessions : WithinBudget(s))
<1> DEFINE Inv == \A s \in Sessions : WithinBudget(s)
<1>1. GateInit => Inv
  <2>1. SUFFICES ASSUME GateInit, NEW s \in Sessions PROVE WithinBudget(s)
    OBVIOUS
  <2>2. InFlight(s) = {}
    BY <2>1, GateAssumption DEF GateInit, InFlight, NoCall
  <2>3. /\ bucket[s].mutations = 0 /\ bucket[s].files = {}
        /\ turn[s].edits = 0 /\ turn[s].touched = {}
    BY <2>1, EmptyBudget DEF GateInit, StoreInit, NewTurn, NoBudgetUsed
  <2>4. QED BY <2>2, <2>3 DEF WithinBudget, WithinEdits, WithinFiles, AtMostOne
<1>2. TypeOK /\ StoreSound /\ Inv /\ [GateNext]_gateVars => Inv'
  BY OrderlyStep, StepOnBudget, StutterOnBudget
<1>3. QED BY <1>1, <1>2, Typing, StoreStaysSound, PTL DEF GateSpec

\* "function: the second mutating call in a turn is denied"
\* (edit_budget_gate/gate.py): in an orderly world a turn applies one edit at
\* most, whatever plans it writes, whichever calls fail and however often a
\* prompt breaks.
THEOREM OrderlyTurnsEditOnce ==
    ASSUME OrderlyWorld
    PROVE  GateSpec => []OneEditPerTurn
<1>1. (\A s \in Sessions : WithinBudget(s)) => OneEditPerTurn
  BY DEF OneEditPerTurn, WithinBudget, WithinEdits
<1>2. QED BY <1>1, OrderlyInvariant, PTL

\* "file: ... a second distinct file is denied" (edit_budget_gate/gate.py), in
\* the same world.
THEOREM OrderlyTurnsTouchOneFile ==
    ASSUME OrderlyWorld
    PROVE  GateSpec => []OneFilePerTurn
<1>1. (\A s \in Sessions : WithinBudget(s)) => OneFilePerTurn
  BY AtMostOneCounts DEF OneFilePerTurn, WithinBudget, WithinFiles
<1>2. QED BY <1>1, OrderlyInvariant, PTL
=============================================================================
