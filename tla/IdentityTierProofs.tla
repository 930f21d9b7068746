------------------------- MODULE IdentityTierProofs -------------------------
(* Theorems about IdentityTier, for any visitors, addresses, cookies, devices, *)
(* jobs and requests.                                                          *)
EXTENDS IdentityTier, TLAPS

-----------------------------------------------------------------------------
(* Records *)

LEMMA NoRowIsNone ==
    /\ NoRow \notin Rows /\ NoRow.email = None
    /\ None \notin Addresses /\ None # "webhook"
BY TierAssumption DEF NoRow, Rows, Sources

LEMMA IdleTyped == IdleJob \in Job /\ IdleRequest \in Request
BY DEF IdleJob, IdleRequest, Job, Request, Statuses, Bases, Sources, NoRow

LEMMA ConstantSets ==
    /\ {"anonymous", "candidate", "identified", "merged", "unresolvable", "vpn_filtered"} = Statuses
    /\ {"guess", "raced", "sound"} = Bases
BY DEF Statuses, Bases

\* Telling others that a record they have read was written changes nothing else
\* of what they hold, and leaves alone those who have not read it.
LEMMA RacedJobs ==
    ASSUME TypeOK, NEW me, NEW W, NEW r \in Resolvers
    PROVE  LET j == JobsRaced(me, W)[r]
           IN  /\ j \in Job
               /\ j \in {job[r], [job[r] EXCEPT !.raced = TRUE]}
               /\ r = me => j = job[r]
               /\ r # me /\ ~j.raced =>
                    job[r].visitor \notin W /\ job[r].origin \notin W /\ j = job[r]
<1>1. job[r] \in Job
  BY DEF TypeOK
<1>2. JobsRaced(me, W)[r] =
        IF r # me /\ {job[r].visitor, job[r].origin} \intersect W # {}
        THEN [job[r] EXCEPT !.raced = TRUE] ELSE job[r]
  BY DEF JobsRaced
<1>3. [job[r] EXCEPT !.raced = TRUE] \in Job /\ [job[r] EXCEPT !.raced = TRUE].raced
  BY <1>1 DEF Job
<1>4. QED
  BY <1>1, <1>2, <1>3

LEMMA RacedRequests ==
    ASSUME TypeOK, NEW me, NEW W, NEW o \in Owners
    PROVE  LET q == RequestsRaced(me, W)[o]
           IN  /\ q \in Request
               /\ q \in {request[o], [request[o] EXCEPT !.raced = TRUE]}
               /\ o = me => q = request[o]
               /\ o # me /\ ~q.raced => request[o].visitor \notin W /\ q = request[o]
<1>1. request[o] \in Request
  BY DEF TypeOK
<1>2. RequestsRaced(me, W)[o] =
        IF o # me /\ request[o].visitor \in W
        THEN [request[o] EXCEPT !.raced = TRUE] ELSE request[o]
  BY DEF RequestsRaced
<1>3. [request[o] EXCEPT !.raced = TRUE] \in Request /\ [request[o] EXCEPT !.raced = TRUE].raced
  BY <1>1 DEF Request
<1>4. QED
  BY <1>1, <1>2, <1>3

LEMMA RacedTyped ==
    ASSUME TypeOK, NEW me, NEW W
    PROVE  /\ JobsRaced(me, W) \in [Resolvers -> Job]
           /\ RequestsRaced(me, W) \in [Owners -> Request]
<1>1. \A r \in Resolvers : JobsRaced(me, W)[r] \in Job
  BY RacedJobs
<1>2. \A o \in Owners : RequestsRaced(me, W)[o] \in Request
  BY RacedRequests
<1>3. /\ JobsRaced(me, W) = [r \in Resolvers |-> JobsRaced(me, W)[r]]
      /\ RequestsRaced(me, W) = [o \in Owners |-> RequestsRaced(me, W)[o]]
  BY DEF JobsRaced, RequestsRaced
<1>4. QED
  BY <1>1, <1>2, <1>3

-----------------------------------------------------------------------------
(* What others hold outlasts a write to the records of W *)

JobKept(r) ==
    job[r].at # "idle" => JobHolds(job[r]) /\ (~job[r].raced => JobUnraced(job[r]))
RequestKept(o) == request[o].at # "idle" => RequestHolds(request[o])

\* Nothing but the records of W is written, and no row goes away.
WritesOnly(W) ==
    /\ \A v \in Visitors \ W : row'[v] = row[v] /\ status'[v] = status[v]
    /\ \A v \in Visitors : HasRow(v) => HasRow(v)'

LEMMA OtherJobs ==
    ASSUME TypeOK, NEW me, NEW W, WritesOnly(W),
           NEW r \in Resolvers, r # me, JobKept(r), job'[r] = JobsRaced(me, W)[r]
    PROVE  JobKept(r)'
<1>0. PICK j : j = JobsRaced(me, W)[r]
  OBVIOUS
<1>1. SUFFICES ASSUME j.at # "idle"
      PROVE  JobHolds(j)' /\ (~j.raced => JobUnraced(j)')
  BY <1>0 DEF JobKept, JobHolds, JobUnraced, HasRow
<1>2. /\ job[r] \in Job
      /\ j \in {job[r], [job[r] EXCEPT !.raced = TRUE]}
      /\ ~j.raced => job[r].visitor \notin W /\ job[r].origin \notin W /\ j = job[r]
  BY <1>0, RacedJobs DEF TypeOK
<1>3. /\ j.at = job[r].at /\ j.visitor = job[r].visitor /\ j.loaded = job[r].loaded
      /\ j.source = job[r].source /\ j.origin = job[r].origin /\ j.email = job[r].email
      /\ j.basis = job[r].basis /\ j.into = job[r].into /\ j.stored = job[r].stored
  BY <1>2 DEF Job
<1>4. JobHolds(job[r]) /\ (~job[r].raced => JobUnraced(job[r]))
  BY <1>1, <1>3 DEF JobKept
<1>5. JobHolds(j)'
  BY <1>3, <1>4 DEF JobHolds, WritesOnly
<1>6. ASSUME ~j.raced PROVE JobUnraced(j)'
  <2>1. JobUnraced(job[r]) /\ j = job[r] /\ job[r].visitor \notin W /\ job[r].origin \notin W
    BY <1>2, <1>4, <1>6
  <2>2. j.visitor \in Visitors \ W
    BY <1>4, <2>1 DEF JobHolds
  <2>3. j.at = "verify" \/ (j.at = "dedupe" /\ j.source \in {"origin", "device"})
            => j.origin \in Visitors \ W
    BY <1>4, <2>1 DEF JobHolds
  <2>4. row'[j.visitor] = row[j.visitor] /\ status'[j.visitor] = status[j.visitor]
    BY <2>2 DEF WritesOnly
  <2>5. j.at = "verify" \/ (j.at = "dedupe" /\ j.source \in {"origin", "device"})
            => row'[j.origin] = row[j.origin]
    BY <2>3 DEF WritesOnly
  <2>6. JobUnraced(j)
    BY <2>1
  <2>7. QED
    BY <2>4, <2>5, <2>6 DEF JobUnraced
<1>7. QED
  BY <1>5, <1>6

LEMMA OtherRequests ==
    ASSUME TypeOK, NEW me, NEW W, WritesOnly(W),
           NEW o \in Owners, o # me, RequestKept(o), request'[o] = RequestsRaced(me, W)[o]
    PROVE  RequestKept(o)'
<1>0. PICK q : q = RequestsRaced(me, W)[o]
  OBVIOUS
<1>1. SUFFICES ASSUME q.at # "idle" PROVE RequestHolds(q)'
  BY <1>0 DEF RequestKept, RequestHolds, HasRow
<1>2. /\ request[o] \in Request
      /\ q \in {request[o], [request[o] EXCEPT !.raced = TRUE]}
      /\ ~q.raced => request[o].visitor \notin W /\ q = request[o]
  BY <1>0, RacedRequests DEF TypeOK
<1>3. /\ q.at = request[o].at /\ q.visitor = request[o].visitor
      /\ q.typed = request[o].typed /\ q.stored = request[o].stored
  BY <1>2 DEF Request
<1>4. RequestHolds(request[o])
  BY <1>1, <1>3 DEF RequestKept
<1>5. QED
  BY <1>2, <1>3, <1>4 DEF RequestHolds, WritesOnly

-----------------------------------------------------------------------------
(* Steps that write nothing but what one job or one request holds *)

LEMMA JobMove ==
    ASSUME TierInv, NEW r \in Resolvers, NEW x \in Job, Goto(r, x),
           UNCHANGED <<status, canonical, row, captured, request, basis>>,
           x.at # "idle" => JobHolds(x) /\ (~x.raced => JobUnraced(x))
    PROVE  TierInv'
<1>1. TypeOK'
  BY DEF TierInv, TypeOK, Goto
<1>2. job' = [job EXCEPT ![r] = x] /\ job \in [Resolvers -> Job]
  BY DEF TierInv, TypeOK, Goto
<1>3. GuessesStayGuesses' /\ TiersHaveRows'
  BY DEF TierInv, GuessesStayGuesses, TiersHaveRows, HasRow
<1>4. RequestInv'
  BY DEF TierInv, RequestInv, RequestHolds, HasRow
<1>5. JobInv'
  <2> SUFFICES ASSUME NEW s \in Resolvers PROVE JobKept(s)'
    BY DEF JobInv, JobKept
  <2>1. CASE s = r
    <3>1. job'[s] = x
      BY <1>2, <2>1
    <3>2. QED
      BY <3>1 DEF JobKept, JobHolds, JobUnraced, HasRow
  <2>2. CASE s # r
    <3>1. job'[s] = job[s] /\ JobKept(s)
      BY <1>2, <2>2 DEF TierInv, JobInv, JobKept
    <3>2. QED
      BY <3>1 DEF JobKept, JobHolds, JobUnraced, HasRow
  <2>3. QED
    BY <2>1, <2>2
<1>6. QED
  BY <1>1, <1>3, <1>4, <1>5 DEF TierInv

LEMMA RequestMove ==
    ASSUME TierInv, NEW o \in Owners, NEW x \in Request, Ask(o, x),
           UNCHANGED <<status, canonical, row, captured, job, basis>>,
           x.at # "idle" => RequestHolds(x)
    PROVE  TierInv'
<1>1. TypeOK'
  BY DEF TierInv, TypeOK, Ask
<1>2. request' = [request EXCEPT ![o] = x] /\ request \in [Owners -> Request]
  BY DEF TierInv, TypeOK, Ask
<1>3. GuessesStayGuesses' /\ TiersHaveRows'
  BY DEF TierInv, GuessesStayGuesses, TiersHaveRows, HasRow
<1>4. JobInv'
  BY DEF TierInv, JobInv, JobHolds, JobUnraced, HasRow
<1>5. RequestInv'
  <2> SUFFICES ASSUME NEW s \in Owners PROVE RequestKept(s)'
    BY DEF RequestInv, RequestKept
  <2>1. CASE s = o
    <3>1. request'[s] = x
      BY <1>2, <2>1
    <3>2. QED
      BY <3>1 DEF RequestKept, RequestHolds, HasRow
  <2>2. CASE s # o
    <3>1. request'[s] = request[s] /\ RequestKept(s)
      BY <1>2, <2>2 DEF TierInv, RequestInv, RequestKept
    <3>2. QED
      BY <3>1 DEF RequestKept, RequestHolds, HasRow
  <2>3. QED
    BY <2>1, <2>2
<1>6. QED
  BY <1>1, <1>3, <1>4, <1>5 DEF TierInv

-----------------------------------------------------------------------------
(* Steps that write the records of visitors *)

LEMMA JobsAfterWrite ==
    ASSUME TierInv, NEW me, NEW W, WritesOnly(W),
           \A r \in Resolvers \ {me} : job'[r] = JobsRaced(me, W)[r],
           me \in Resolvers => JobKept(me)'
    PROVE  JobInv'
<1> SUFFICES ASSUME NEW r \in Resolvers PROVE JobKept(r)'
  BY DEF JobInv, JobKept
<1>1. CASE r = me
  BY <1>1
<1>2. CASE r # me
  <2>1. JobKept(r)
    BY DEF TierInv, JobInv, JobKept
  <2>2. QED
    BY <1>2, <2>1, OtherJobs DEF TierInv
<1>3. QED
  BY <1>1, <1>2

LEMMA RequestsAfterWrite ==
    ASSUME TierInv, NEW me, NEW W, WritesOnly(W),
           \A o \in Owners \ {me} : request'[o] = RequestsRaced(me, W)[o],
           me \in Owners => request'[me].at = "idle"
    PROVE  RequestInv'
<1> SUFFICES ASSUME NEW o \in Owners PROVE RequestKept(o)'
  BY DEF RequestInv, RequestKept
<1>1. CASE o = me
  BY <1>1 DEF RequestKept
<1>2. CASE o # me
  <2>1. RequestKept(o)
    BY DEF TierInv, RequestInv, RequestKept
  <2>2. QED
    BY <1>2, <2>1, OtherRequests DEF TierInv
<1>3. QED
  BY <1>1, <1>2

\* A job writes v's records and goes on with x.
LEMMA JobWritesKeep ==
    ASSUME TierInv, NEW r \in Resolvers, NEW v \in Visitors, NEW x \in Job,
           JobWrites(r, v, x), WritesOnly({v}), None \notin Resolvers \union Owners,
           x.at # "idle" => JobHolds(x)' /\ (~x.raced => JobUnraced(x)')
    PROVE  /\ job' \in [Resolvers -> Job]
           /\ request' \in [Owners -> Request]
           /\ JobInv'
           /\ RequestInv'
<1>1. job' = [JobsRaced(r, {v}) EXCEPT ![r] = x] /\ request' = RequestsRaced(None, {v})
  BY DEF JobWrites
<1>2. job' \in [Resolvers -> Job]
  <2>1. JobsRaced(r, {v}) \in [Resolvers -> Job]
    BY RacedTyped DEF TierInv
  <2>2. QED
    BY <1>1, <2>1
<1>3. job'[r] = x /\ \A s \in Resolvers \ {r} : job'[s] = JobsRaced(r, {v})[s]
  BY <1>1 DEF JobsRaced
<1>4. request' \in [Owners -> Request]
  BY <1>1, RacedTyped DEF TierInv
<1>5. JobKept(r)'
  BY <1>3 DEF JobKept, JobHolds, JobUnraced, HasRow
<1>6. JobInv'
  BY <1>3, <1>5, JobsAfterWrite
<1>7. RequestInv'
  BY <1>1, RequestsAfterWrite
<1>8. QED
  BY <1>2, <1>4, <1>6, <1>7

LEMMA RequestWritesKeep ==
    ASSUME TierInv, NEW o \in Owners, NEW v \in Visitors,
           RequestWrites(o, v), WritesOnly({v}), None \notin Resolvers \union Owners
    PROVE  /\ job' \in [Resolvers -> Job]
           /\ request' \in [Owners -> Request]
           /\ JobInv'
           /\ RequestInv'
<1>1. /\ job' = JobsRaced(None, {v})
      /\ request' = [RequestsRaced(o, {v}) EXCEPT ![o] = IdleRequest]
  BY DEF RequestWrites
<1>2. job' \in [Resolvers -> Job]
  BY <1>1, RacedTyped DEF TierInv
<1>3. request' \in [Owners -> Request]
  <2>1. RequestsRaced(o, {v}) \in [Owners -> Request]
    BY RacedTyped DEF TierInv
  <2>2. QED
    BY <1>1, <2>1, IdleTyped
<1>4. /\ request'[o] = IdleRequest
      /\ \A s \in Owners \ {o} : request'[s] = RequestsRaced(o, {v})[s]
  BY <1>1 DEF RequestsRaced
<1>5. JobInv'
  BY <1>1, JobsAfterWrite
<1>6. RequestInv'
  <2>1. request'[o].at = "idle"
    BY <1>4 DEF IdleRequest
  <2>2. QED
    BY <1>4, <2>1, RequestsAfterWrite
<1>7. QED
  BY <1>2, <1>3, <1>5, <1>6

-----------------------------------------------------------------------------
(* The steps of a job that only read *)

LEMMA BeginKeeps ==
    ASSUME TierInv, NEW r \in Resolvers, NEW v \in Visitors,
           LoadForSweep(r, v) \/ LoadForIdentify(r, v)
    PROVE  TierInv'
<1>1. PICK x : x = [IdleJob EXCEPT !.at = "origin", !.visitor = v, !.loaded = status[v]]
  OBVIOUS
<1>2. /\ x.at = "origin" /\ x.visitor = v /\ x.loaded = status[v]
      /\ x.source = None /\ ~x.raced
  BY <1>1 DEF IdleJob
<1>3. x \in Job
  BY <1>1, IdleTyped DEF TierInv, TypeOK, Job
<1>4. Goto(r, x) /\ UNCHANGED <<status, canonical, row, captured, request, basis>>
  BY <1>1 DEF LoadForSweep, LoadForIdentify, Begin
<1>5. status[v] # "identified"
  BY DEF LoadForSweep, LoadForIdentify
<1>6. JobHolds(x) /\ JobUnraced(x)
  BY <1>2, <1>5 DEF JobHolds, JobUnraced, TierInv, TiersHaveRows
<1>7. QED
  BY <1>3, <1>4, <1>6, JobMove

LEMMA WebhookKeeps ==
    ASSUME TierInv, NEW r \in Resolvers, NEW v \in Visitors, NEW a \in Addresses,
           LoadForWebhook(r, v, a)
    PROVE  TierInv'
<1>1. PICK x : x = [IdleJob EXCEPT !.at = "dedupe", !.visitor = v, !.loaded = status[v],
                                   !.source = "webhook", !.email = a]
  OBVIOUS
<1>2. /\ x.at = "dedupe" /\ x.visitor = v /\ x.loaded = status[v]
      /\ x.source = "webhook" /\ x.email = a /\ ~x.raced
  BY <1>1 DEF IdleJob
<1>3. x \in Job
  BY <1>1, IdleTyped DEF TierInv, TypeOK, Job, Sources
<1>4. Goto(r, x) /\ UNCHANGED <<status, canonical, row, captured, request, basis>>
  BY <1>1 DEF LoadForWebhook
<1>5. JobHolds(x) /\ JobUnraced(x)
  BY <1>2 DEF JobHolds, JobUnraced, TierInv, TiersHaveRows, Sources
<1>6. QED
  BY <1>3, <1>4, <1>5, JobMove

\* What every busy job knows of itself.
LEMMA Busy ==
    ASSUME TierInv, NEW r \in Resolvers, job[r].at # "idle"
    PROVE  /\ job[r] \in Job
           /\ JobHolds(job[r])
           /\ ~job[r].raced => JobUnraced(job[r])
BY DEF TierInv, TypeOK, JobInv

\* Going on to the next signal, with nothing but the visitor and its status.
LEMMA OnwardKeeps ==
    ASSUME TierInv, NEW r \in Resolvers, job[r].at # "idle", job[r].source # "webhook",
           NEW step \in {"origin", "captured", "device", "providers"}
    PROVE  LET x == Onward(r, step)
           IN  x \in Job /\ JobHolds(x) /\ (~x.raced => JobUnraced(x))
<1>1. PICK x : x = Onward(r, step)
  OBVIOUS
<1>2. /\ job[r] \in Job /\ JobHolds(job[r]) /\ (~job[r].raced => JobUnraced(job[r]))
  BY Busy
<1>3. /\ x.at = step /\ x.visitor = job[r].visitor /\ x.loaded = job[r].loaded
      /\ x.source = None /\ x.raced = job[r].raced
  BY <1>1, <1>2 DEF Onward, Job
<1>4. x \in Job
  BY <1>1, <1>2 DEF Onward, Job, Bases
<1>5. JobHolds(x)
  BY <1>2, <1>3 DEF JobHolds
<1>6. ~x.raced => JobUnraced(x)
  BY <1>2, <1>3 DEF JobUnraced
<1>7. QED
  BY <1>1, <1>4, <1>5, <1>6

\* A job with a match: what has to be known of it.
LEMMA MatchKeeps ==
    ASSUME TierInv, NEW r \in Resolvers, job[r].at # "idle", job[r].source # "webhook",
           NEW source \in Sources \ {"webhook"}, NEW w \in Visitors \union {None},
           NEW a \in Addresses, NEW b \in Bases,
           source = "captured" => b = "sound",
           source \in {"origin", "device"} =>
               w \in Visitors /\ (~job[r].raced => w # job[r].visitor /\ row[w].email = a)
    PROVE  LET x == Match(r, source, w, a, b)
           IN  x \in Job /\ JobHolds(x) /\ (~x.raced => JobUnraced(x))
<1>1. PICK x : x = Match(r, source, w, a, b)
  OBVIOUS
<1>2. /\ job[r] \in Job /\ JobHolds(job[r]) /\ (~job[r].raced => JobUnraced(job[r]))
  BY Busy
<1>3. /\ x.at = "dedupe" /\ x.visitor = job[r].visitor /\ x.loaded = job[r].loaded
      /\ x.source = source /\ x.origin = w /\ x.email = a /\ x.basis = b
      /\ x.raced = job[r].raced
  BY <1>1, <1>2 DEF Match, Job
<1>4. x \in Job
  BY <1>1, <1>2 DEF Match, Job
<1>5. JobHolds(x)
  BY <1>2, <1>3 DEF JobHolds
<1>6. ~x.raced => JobUnraced(x)
  BY <1>2, <1>3 DEF JobUnraced
<1>7. QED
  BY <1>1, <1>4, <1>5, <1>6

LEMMA ReadOriginKeeps ==
    ASSUME TierInv, NEW r \in Resolvers, ReadOrigin(r)
    PROVE  TierInv'
<1>1. job[r].at = "origin" /\ UNCHANGED <<status, canonical, row, captured, request, basis>>
  BY DEF ReadOrigin
<1>2. /\ job[r] \in Job /\ JobHolds(job[r]) /\ (~job[r].raced => JobUnraced(job[r]))
  BY <1>1, Busy
<1>3. CASE Goto(r, [job[r] EXCEPT !.at = "captured"])
  <2>1. PICK x : x = [job[r] EXCEPT !.at = "captured"]
    OBVIOUS
  <2>2. /\ x \in Job /\ x.at = "captured" /\ x.visitor = job[r].visitor
        /\ x.loaded = job[r].loaded /\ x.source = job[r].source /\ x.raced = job[r].raced
    BY <1>2, <2>1 DEF Job
  <2>3. JobHolds(x) /\ (~x.raced => JobUnraced(x))
    BY <1>1, <1>2, <2>2 DEF JobHolds, JobUnraced
  <2>4. QED
    BY <1>1, <1>3, <2>1, <2>2, <2>3, JobMove
<1>4. ASSUME NEW w \in Visitors, HasRow(w),
             Goto(r, [job[r] EXCEPT !.at = "verify", !.origin = w,
                                    !.email = row[w].email, !.basis = basis[w]])
      PROVE  TierInv'
  <2>1. PICK x : x = [job[r] EXCEPT !.at = "verify", !.origin = w,
                                    !.email = row[w].email, !.basis = basis[w]]
    OBVIOUS
  <2>2. row[w].email \in Addresses /\ basis[w] \in Bases
    BY <1>4 DEF TierInv, TypeOK, HasRow, Rows
  <2>3. /\ x \in Job /\ x.at = "verify" /\ x.visitor = job[r].visitor
        /\ x.loaded = job[r].loaded /\ x.source = job[r].source /\ x.raced = job[r].raced
        /\ x.origin = w /\ x.email = row[w].email
    BY <1>2, <2>1, <2>2 DEF Job
  <2>4. JobHolds(x) /\ (~x.raced => JobUnraced(x))
    BY <1>1, <1>2, <2>2, <2>3 DEF JobHolds, JobUnraced
  <2>5. QED
    BY <1>1, <1>4, <2>1, <2>3, <2>4, JobMove
<1>5. OriginOf(job[r].visitor) \in Visitors \union {None}
  <2>1. /\ job[r].visitor \in Visitors
        /\ Svid[job[r].visitor] \in Visitors \union {None}
        /\ canonical \in [Visitors -> Visitors \union {None}]
    BY <1>2, TierAssumption DEF JobHolds, TierInv, TypeOK
  <2>2. CASE Svid[job[r].visitor] \in {None, job[r].visitor}
    BY <2>2 DEF OriginOf
  <2>3. CASE Svid[job[r].visitor] \notin {None, job[r].visitor} /\ HasRow(Svid[job[r].visitor])
    BY <2>1, <2>3 DEF OriginOf
  <2>4. CASE Svid[job[r].visitor] \notin {None, job[r].visitor} /\ ~HasRow(Svid[job[r].visitor])
    BY <2>1, <2>4 DEF OriginOf
  <2>5. QED
    BY <2>2, <2>3, <2>4
<1>6. QED
  BY <1>3, <1>4, <1>5 DEF ReadOrigin

LEMMA CheckOriginKeeps ==
    ASSUME TierInv, NEW r \in Resolvers, CheckOrigin(r)
    PROVE  TierInv'
<1>1. job[r].at = "verify" /\ UNCHANGED <<status, canonical, row, captured, request, basis>>
  BY DEF CheckOrigin
<1>2. /\ job[r] \in Job /\ JobHolds(job[r]) /\ (~job[r].raced => JobUnraced(job[r]))
  BY <1>1, Busy
<1>3. CASE Goto(r, Onward(r, "captured"))
  <2>1. job[r].at # "idle" /\ job[r].source # "webhook"
    BY <1>1, <1>2, NoRowIsNone DEF JobHolds
  <2>2. QED
    BY <1>1, <1>3, <2>1, OnwardKeeps, JobMove
<1>4. ASSUME status[job[r].origin] = "identified",
             Goto(r, [job[r] EXCEPT !.at = "dedupe", !.source = "origin"])
      PROVE  TierInv'
  <2>1. PICK x : x = [job[r] EXCEPT !.at = "dedupe", !.source = "origin"]
    OBVIOUS
  <2>2. /\ x \in Job /\ x.at = "dedupe" /\ x.visitor = job[r].visitor
        /\ x.loaded = job[r].loaded /\ x.source = "origin" /\ x.raced = job[r].raced
        /\ x.origin = job[r].origin /\ x.email = job[r].email
    BY <1>2, <2>1 DEF Job, Sources
  <2>3. JobHolds(x)
    BY <1>1, <1>2, <2>2 DEF JobHolds, Sources
  <2>4. ~x.raced => JobUnraced(x)
    BY <1>1, <1>2, <1>4, <2>2, NoRowIsNone DEF JobHolds, JobUnraced
  <2>5. QED
    BY <1>1, <1>4, <2>1, <2>2, <2>3, <2>4, JobMove
<1>5. QED
  BY <1>3, <1>4 DEF CheckOrigin

\* A job that reads on has no match.
LEMMA NoMatchYet ==
    ASSUME TierInv, NEW r \in Resolvers,
           job[r].at \in {"origin", "verify", "captured", "device", "providers"}
    PROVE  job[r].at # "idle" /\ job[r].source # "webhook"
BY Busy, NoRowIsNone DEF JobHolds

LEMMA GiveUpKeeps ==
    ASSUME TierInv, NEW r \in Resolvers, Goto(r, IdleJob),
           UNCHANGED <<status, canonical, row, captured, request, basis>>
    PROVE  TierInv'
<1>1. IdleJob \in Job /\ IdleJob.at = "idle"
  BY IdleTyped DEF IdleJob
<1>2. QED
  BY <1>1, JobMove

LEMMA CheckCapturedKeeps ==
    ASSUME TierInv, NEW r \in Resolvers, CheckCaptured(r)
    PROVE  TierInv'
<1>1. job[r].at = "captured" /\ UNCHANGED <<status, canonical, row, captured, request, basis>>
  BY DEF CheckCaptured
<1>2. job[r].at # "idle" /\ job[r].source # "webhook"
  BY <1>1, NoMatchYet
<1>3. CASE Goto(r, Onward(r, "device"))
  BY <1>1, <1>2, <1>3, OnwardKeeps, JobMove
<1>4. ASSUME NEW a \in Addresses, Goto(r, Match(r, "captured", None, a, "sound"))
      PROVE  TierInv'
  <2>1. "captured" \in Sources \ {"webhook"} /\ "sound" \in Bases
    BY DEF Sources, Bases
  <2>2. LET x == Match(r, "captured", None, a, "sound")
        IN  x \in Job /\ JobHolds(x) /\ (~x.raced => JobUnraced(x))
    BY <1>2, <2>1, MatchKeeps
  <2>3. QED
    BY <1>1, <1>4, <2>2, JobMove
<1>5. QED
  BY <1>3, <1>4 DEF CheckCaptured

LEMMA AfterDeviceKeeps ==
    ASSUME TierInv, NEW r \in Resolvers, Goto(r, AfterDevice(r)),
           job[r].at # "idle", job[r].source # "webhook",
           UNCHANGED <<status, canonical, row, captured, request, basis>>
    PROVE  TierInv'
<1>1. CASE Goto(r, IdleJob)
  BY <1>1, GiveUpKeeps
<1>2. CASE Goto(r, Onward(r, "providers"))
  BY <1>2, OnwardKeeps, JobMove
<1>3. QED
  BY <1>1, <1>2 DEF AfterDevice

LEMMA CheckDeviceKeeps ==
    ASSUME TierInv, NEW r \in Resolvers, CheckDevice(r)
    PROVE  TierInv'
<1>1. job[r].at = "device" /\ UNCHANGED <<status, canonical, row, captured, request, basis>>
  BY DEF CheckDevice
<1>2. job[r].at # "idle" /\ job[r].source # "webhook"
  BY <1>1, NoMatchYet
<1>3. CASE Goto(r, AfterDevice(r))
  BY <1>1, <1>2, <1>3, AfterDeviceKeeps
<1>4. ASSUME NEW w \in DeviceMatches(job[r].visitor),
             Goto(r, Match(r, "device", w, row[w].email, basis[w]))
      PROVE  TierInv'
  <2>1. w \in Visitors /\ w # job[r].visitor /\ HasRow(w)
    BY <1>4 DEF DeviceMatches
  <2>2. row[w].email \in Addresses /\ basis[w] \in Bases
    BY <2>1 DEF TierInv, TypeOK, HasRow, Rows
  <2>3. "device" \in Sources \ {"webhook"} /\ "device" # "captured"
    BY DEF Sources
  <2>4. LET x == Match(r, "device", w, row[w].email, basis[w])
        IN  x \in Job /\ JobHolds(x) /\ (~x.raced => JobUnraced(x))
    BY <1>2, <2>1, <2>2, <2>3, MatchKeeps
  <2>5. QED
    BY <1>1, <1>4, <2>4, JobMove
<1>5. QED
  BY <1>3, <1>4 DEF CheckDevice

LEMMA ProviderMatchKeeps ==
    ASSUME TierInv, NEW r \in Resolvers, NEW source \in Sources, NEW a \in Addresses,
           ProviderMatch(r, source, a)
    PROVE  TierInv'
<1>1. /\ job[r].at = "providers" /\ source \in {"network", "paid_graph", "company"}
      /\ UNCHANGED <<status, canonical, row, captured, request, basis>>
      /\ Goto(r, Match(r, source, None, a, "guess"))
  BY DEF ProviderMatch
<1>2. job[r].at # "idle" /\ job[r].source # "webhook"
  BY <1>1, NoMatchYet
<1>3. /\ source \in Sources \ {"webhook"} /\ "guess" \in Bases
      /\ source # "captured" /\ source \notin {"origin", "device"}
  BY <1>1 DEF Bases
<1>4. LET x == Match(r, source, None, a, "guess")
      IN  x \in Job /\ JobHolds(x) /\ (~x.raced => JobUnraced(x))
  BY <1>2, <1>3, MatchKeeps
<1>5. QED
  BY <1>1, <1>4, JobMove

LEMMA AfterRaiseKeeps ==
    ASSUME TierInv, NEW r \in Resolvers, job[r].at = "dedupe", Goto(r, AfterRaise(r)),
           UNCHANGED <<status, canonical, row, captured, request, basis>>
    PROVE  TierInv'
<1>1. CASE job[r].source = "origin"
  BY <1>1, OnwardKeeps, JobMove DEF AfterRaise
<1>2. CASE job[r].source = "captured"
  BY <1>2, OnwardKeeps, JobMove DEF AfterRaise
<1>3. CASE job[r].source = "device"
  BY <1>3, AfterDeviceKeeps DEF AfterRaise
<1>4. CASE job[r].source = "network"
  BY <1>4, OnwardKeeps, JobMove DEF AfterRaise
<1>5. CASE job[r].source \notin {"origin", "captured", "device", "network"}
  BY <1>5, GiveUpKeeps DEF AfterRaise
<1>6. QED
  BY <1>1, <1>2, <1>3, <1>4, <1>5

\* Unraced, an inherited match finds the row it was read from.
LEMMA DedupeKeeps ==
    ASSUME TierInv, NEW r \in Resolvers, Dedupe(r)
    PROVE  TierInv'
<1> DEFINE holders == Holders(job[r].visitor, job[r].email)
<1>1. job[r].at = "dedupe" /\ UNCHANGED <<status, canonical, row, captured, request, basis>>
  BY DEF Dedupe
<1>2. /\ job[r] \in Job /\ JobHolds(job[r]) /\ (~job[r].raced => JobUnraced(job[r]))
  BY <1>1, Busy
<1>3. ASSUME holders = {}, Goto(r, [job[r] EXCEPT !.at = "save"])
      PROVE  TierInv'
  <2>1. PICK x : x = [job[r] EXCEPT !.at = "save"]
    OBVIOUS
  <2>2. /\ x \in Job /\ x.at = "save" /\ x.visitor = job[r].visitor
        /\ x.loaded = job[r].loaded /\ x.source = job[r].source /\ x.raced = job[r].raced
        /\ x.origin = job[r].origin /\ x.email = job[r].email /\ x.basis = job[r].basis
    BY <1>2, <2>1 DEF Job
  <2>3. JobHolds(x)
    BY <1>1, <1>2, <2>2 DEF JobHolds
  <2>4. ASSUME ~x.raced PROVE x.source \notin {"origin", "device"}
    BY <1>1, <1>2, <1>3, <2>2, <2>4 DEF JobHolds, JobUnraced, Holders
  <2>5. ~x.raced => JobUnraced(x)
    BY <1>1, <1>2, <2>2, <2>4 DEF JobUnraced
  <2>6. QED
    BY <1>1, <1>3, <2>1, <2>2, <2>3, <2>5, JobMove
<1>4. ASSUME NEW w \in holders, Goto(r, [job[r] EXCEPT !.at = "save", !.into = w])
      PROVE  TierInv'
  <2>1. PICK x : x = [job[r] EXCEPT !.at = "save", !.into = w]
    OBVIOUS
  <2>2. w \in Visitors /\ w # None
    BY TierAssumption DEF Holders
  <2>3. /\ x \in Job /\ x.at = "save" /\ x.visitor = job[r].visitor /\ x.into = w
        /\ x.loaded = job[r].loaded /\ x.source = job[r].source /\ x.raced = job[r].raced
        /\ x.origin = job[r].origin /\ x.email = job[r].email /\ x.basis = job[r].basis
    BY <1>2, <2>1, <2>2 DEF Job
  <2>4. JobHolds(x) /\ (~x.raced => JobUnraced(x))
    BY <1>1, <1>2, <2>2, <2>3 DEF JobHolds, JobUnraced
  <2>5. QED
    BY <1>1, <1>4, <2>1, <2>3, <2>4, JobMove
<1>5. CASE Goto(r, AfterRaise(r))
  BY <1>1, <1>5, AfterRaiseKeeps
<1>6. QED
  BY <1>3, <1>4, <1>5 DEF Dedupe

LEMMA ConflictKeeps ==
    ASSUME TierInv, NEW r \in Resolvers, Conflict(r)
    PROVE  TierInv'
<1>1. /\ job[r].at = "save" /\ job[r].into = None /\ HasRow(job[r].visitor)
      /\ UNCHANGED <<status, canonical, row, captured, request, basis>>
  BY DEF Conflict
<1>2. /\ job[r] \in Job /\ JobHolds(job[r]) /\ (~job[r].raced => JobUnraced(job[r]))
  BY <1>1, Busy
<1>3. PICK x : x = [job[r] EXCEPT !.at = "overwrite", !.stored = row[job[r].visitor]]
  OBVIOUS
<1>4. row[job[r].visitor] \in Rows
  BY <1>1, <1>2 DEF TierInv, TypeOK, HasRow, JobHolds
<1>5. /\ x \in Job /\ x.at = "overwrite" /\ x.visitor = job[r].visitor
      /\ x.loaded = job[r].loaded /\ x.source = job[r].source /\ x.raced = job[r].raced
      /\ x.origin = job[r].origin /\ x.email = job[r].email /\ x.basis = job[r].basis
      /\ x.stored = row[job[r].visitor]
  BY <1>2, <1>3, <1>4 DEF Job
<1>6. JobHolds(x)
  BY <1>1, <1>2, <1>4, <1>5 DEF JobHolds
<1>7. ~x.raced => JobUnraced(x)
  BY <1>1, <1>2, <1>5 DEF JobUnraced
<1>8. Goto(r, x)
  BY <1>3 DEF Conflict
<1>9. QED
  BY <1>1, <1>5, <1>6, <1>7, <1>8, JobMove

-----------------------------------------------------------------------------
(* The steps that write the records of one visitor *)

\* Status s, row w and basis b for visitor v: what they must be for a guess to
\* stay one and for a tier to have its row.
LEMMA RecordsKeep ==
    ASSUME TierInv, NEW v \in Visitors, NEW s \in Statuses,
           NEW w \in Rows \union {NoRow}, NEW b \in Bases,
           status' = [status EXCEPT ![v] = s],
           row' = [row EXCEPT ![v] = w],
           basis' = [basis EXCEPT ![v] = b],
           HasRow(v) \/ s \in {"candidate", "identified"} => w # NoRow,
           w # NoRow /\ b = "guess" =>
               w.provider = "company" \/ (w.provider = "graph" /\ s # "identified")
    PROVE  /\ status' \in [Visitors -> Statuses]
           /\ row' \in [Visitors -> Rows \union {NoRow}]
           /\ basis' \in [Visitors -> Bases]
           /\ GuessesStayGuesses'
           /\ TiersHaveRows'
           /\ WritesOnly({v})
<1>1. /\ status \in [Visitors -> Statuses]
      /\ row \in [Visitors -> Rows \union {NoRow}]
      /\ basis \in [Visitors -> Bases]
  BY DEF TierInv, TypeOK
<1>2. /\ status' \in [Visitors -> Statuses]
      /\ row' \in [Visitors -> Rows \union {NoRow}]
      /\ basis' \in [Visitors -> Bases]
  BY <1>1
<1>3. /\ status'[v] = s /\ row'[v] = w /\ basis'[v] = b
      /\ \A u \in Visitors \ {v} :
            status'[u] = status[u] /\ row'[u] = row[u] /\ basis'[u] = basis[u]
  BY <1>1
<1>4. WritesOnly({v})
  BY <1>3 DEF WritesOnly, HasRow
<1>5. TiersHaveRows'
  BY <1>3 DEF TierInv, TiersHaveRows, HasRow
<1>6. GuessesStayGuesses'
  BY <1>3 DEF TierInv, GuessesStayGuesses, HasRow
<1>7. QED
  BY <1>2, <1>4, <1>5, <1>6

\* A status that is no tier may be written over any other.
LEMMA StatusKeeps ==
    ASSUME TierInv, NEW v \in Visitors, NEW s \in Statuses,
           s \in {"candidate", "identified"} => s = status[v],
           status' = [status EXCEPT ![v] = s], UNCHANGED <<row, basis>>
    PROVE  /\ status' \in [Visitors -> Statuses]
           /\ row' \in [Visitors -> Rows \union {NoRow}]
           /\ basis' \in [Visitors -> Bases]
           /\ GuessesStayGuesses'
           /\ TiersHaveRows'
           /\ WritesOnly({v})
<1>1. /\ row[v] \in Rows \union {NoRow} /\ basis[v] \in Bases
      /\ row' = [row EXCEPT ![v] = row[v]] /\ basis' = [basis EXCEPT ![v] = basis[v]]
  BY DEF TierInv, TypeOK
<1>2. HasRow(v) \/ s \in {"candidate", "identified"} => row[v] # NoRow
  BY DEF TierInv, TiersHaveRows, HasRow
<1>3. row[v] # NoRow /\ basis[v] = "guess" =>
        row[v].provider = "company" \/ (row[v].provider = "graph" /\ s # "identified")
  BY DEF TierInv, GuessesStayGuesses, HasRow
<1>4. QED
  BY <1>1, <1>2, <1>3, RecordsKeep

LEMMA NamesApart == None \notin Resolvers \union Owners
BY TierAssumption

LEMMA LogAttemptKeeps ==
    ASSUME TierInv, NEW r \in Resolvers, LogAttempt(r)
    PROVE  TierInv'
<1>1. PICK v : v = job[r].visitor
  OBVIOUS
<1>2. PICK x : x = [job[r] EXCEPT !.loaded = "anonymous"]
  OBVIOUS
<1>3. /\ job[r].at = "providers" /\ status' = [status EXCEPT ![v] = "anonymous"]
      /\ JobWrites(r, v, x) /\ UNCHANGED <<canonical, row, captured, basis>>
  BY <1>1, <1>2 DEF LogAttempt
<1>4. job[r] \in Job /\ JobHolds(job[r]) /\ v \in Visitors
  BY <1>1, <1>3, Busy DEF JobHolds
<1>5. /\ x \in Job /\ x.at = "providers" /\ x.visitor = v /\ x.loaded = "anonymous"
      /\ x.source = job[r].source
  BY <1>1, <1>2, <1>3, <1>4 DEF Job, Statuses
<1>6. /\ status' \in [Visitors -> Statuses]
      /\ row' \in [Visitors -> Rows \union {NoRow}]
      /\ basis' \in [Visitors -> Bases]
      /\ GuessesStayGuesses' /\ TiersHaveRows' /\ WritesOnly({v})
  BY <1>3, <1>4, StatusKeeps, ConstantSets
<1>7. status'[v] = "anonymous"
  BY <1>3, <1>4 DEF TierInv, TypeOK
<1>8. JobHolds(x)' /\ JobUnraced(x)'
  BY <1>3, <1>4, <1>5, <1>7 DEF JobHolds, JobUnraced
<1>9. /\ job' \in [Resolvers -> Job] /\ request' \in [Owners -> Request]
      /\ JobInv' /\ RequestInv'
  BY <1>3, <1>4, <1>5, <1>6, <1>8, NamesApart, JobWritesKeep
<1>10. QED
  BY <1>3, <1>6, <1>9 DEF TierInv, TypeOK

\* A job that writes v's records and ends.
LEMMA LastWriteKeeps ==
    ASSUME TierInv, NEW r \in Resolvers, NEW v \in Visitors, JobWrites(r, v, IdleJob),
           canonical' \in [Visitors -> Visitors \union {None}], UNCHANGED captured,
           status' \in [Visitors -> Statuses],
           row' \in [Visitors -> Rows \union {NoRow}],
           basis' \in [Visitors -> Bases],
           GuessesStayGuesses', TiersHaveRows', WritesOnly({v})
    PROVE  TierInv'
<1>1. IdleJob \in Job /\ IdleJob.at = "idle"
  BY IdleTyped DEF IdleJob
<1>2. /\ job' \in [Resolvers -> Job] /\ request' \in [Owners -> Request]
      /\ JobInv' /\ RequestInv'
  BY <1>1, NamesApart, JobWritesKeep
<1>3. QED
  BY <1>2 DEF TierInv, TypeOK

LEMMA WriteOffKeeps ==
    ASSUME TierInv, NEW r \in Resolvers, NEW s \in Statuses, WriteOff(r, s)
    PROVE  TierInv'
<1>1. PICK v : v = job[r].visitor
  OBVIOUS
<1>2. /\ job[r].at = "providers" /\ status' = [status EXCEPT ![v] = s]
      /\ s \in {"unresolvable", "vpn_filtered"}
      /\ JobWrites(r, v, IdleJob) /\ UNCHANGED <<canonical, row, captured, basis>>
  BY <1>1 DEF WriteOff
<1>3. v \in Visitors
  BY <1>1, <1>2, Busy DEF JobHolds
<1>4. /\ status' \in [Visitors -> Statuses]
      /\ row' \in [Visitors -> Rows \union {NoRow}]
      /\ basis' \in [Visitors -> Bases]
      /\ GuessesStayGuesses' /\ TiersHaveRows' /\ WritesOnly({v})
  BY <1>2, <1>3, StatusKeeps
<1>5. canonical' \in [Visitors -> Visitors \union {None}]
  BY <1>2 DEF TierInv, TypeOK
<1>6. QED
  BY <1>2, <1>3, <1>4, <1>5, LastWriteKeeps

LEMMA MergeKeeps ==
    ASSUME TierInv, NEW r \in Resolvers, Merge(r)
    PROVE  TierInv'
<1>1. PICK v : v = job[r].visitor
  OBVIOUS
<1>2. PICK s : s = Column(status[v], job[r].loaded, "merged")
  OBVIOUS
<1>3. /\ job[r].at = "save" /\ job[r].into # None
      /\ status' = [status EXCEPT ![v] = s]
      /\ canonical' = [canonical EXCEPT ![v] = job[r].into]
      /\ JobWrites(r, v, IdleJob) /\ UNCHANGED <<row, captured, basis>>
  BY <1>1, <1>2 DEF Merge, SetStatus
<1>4. v \in Visitors /\ job[r] \in Job
  BY <1>1, <1>3, Busy DEF JobHolds
<1>5. s \in Statuses /\ (s \in {"candidate", "identified"} => s = status[v])
  BY <1>2, <1>4, ConstantSets DEF Column, TierInv, TypeOK
<1>6. /\ status' \in [Visitors -> Statuses]
      /\ row' \in [Visitors -> Rows \union {NoRow}]
      /\ basis' \in [Visitors -> Bases]
      /\ GuessesStayGuesses' /\ TiersHaveRows' /\ WritesOnly({v})
  BY <1>3, <1>4, <1>5, StatusKeeps
<1>7. canonical' \in [Visitors -> Visitors \union {None}]
  <2>1. job[r].into \in Visitors \union {None}
    BY <1>4 DEF Job
  <2>2. QED
    BY <1>3, <2>1 DEF TierInv, TypeOK
<1>8. QED
  BY <1>3, <1>4, <1>6, <1>7, LastWriteKeeps

LEMMA TiersTyped ==
    ASSUME NEW source
    PROVE  /\ ProviderOf(source) \in Providers
           /\ TierOf(source) \in {"candidate", "identified"}
           /\ TierOf(source) = "candidate" <=> ProviderOf(source) = "graph"
           /\ ProviderOf(source) = "first_party" => source = "captured"
           /\ ProviderOf(source) = "inherited" => source \in {"origin", "device"}
BY DEF ProviderOf, TierOf, Providers

LEMMA BasisTyped ==
    ASSUME TierInv, NEW r \in Resolvers, NEW w
    PROVE  BasisAfter(r, w) \in Bases
BY DEF BasisAfter, Basis, Bases

\* A row is inserted as a guess only with its provider saying so: a captured
\* address is sound, and an inherited match without a row to merge into is raced.
LEMMA InsertKeeps ==
    ASSUME TierInv, NEW r \in Resolvers, Insert(r)
    PROVE  TierInv'
<1>1. PICK v : v = job[r].visitor
  OBVIOUS
<1>2. PICK source : source = job[r].source
  OBVIOUS
<1>3. PICK w : w = [email |-> job[r].email, provider |-> ProviderOf(source),
                    doNotEmail |-> FALSE]
  OBVIOUS
<1>4. PICK s : s = Column(status[v], job[r].loaded, TierOf(source))
  OBVIOUS
<1>5. PICK b : b = BasisAfter(r, w)
  OBVIOUS
<1>6. /\ job[r].at = "save" /\ job[r].into = None /\ ~HasRow(v)
      /\ status' = [status EXCEPT ![v] = s]
      /\ row' = [row EXCEPT ![v] = w]
      /\ basis' = [basis EXCEPT ![v] = b]
      /\ JobWrites(r, v, IdleJob) /\ UNCHANGED <<canonical, captured>>
  BY <1>1, <1>2, <1>3, <1>4, <1>5 DEF Insert, SetStatus, Write
<1>7. /\ job[r] \in Job /\ JobHolds(job[r]) /\ (~job[r].raced => JobUnraced(job[r]))
      /\ v \in Visitors
  BY <1>1, <1>6, Busy DEF JobHolds
<1>8. w \in Rows /\ w # NoRow /\ w.provider = ProviderOf(source) /\ w.email = job[r].email
  BY <1>3, <1>6, <1>7, TiersTyped, NoRowIsNone DEF Rows, JobHolds
<1>9. job[r].loaded # "candidate"
  BY <1>1, <1>6, <1>7 DEF JobHolds
<1>10. s \in Statuses /\ (TierOf(source) = "candidate" => s = "candidate")
  BY <1>4, <1>7, <1>9, TiersTyped, ConstantSets DEF Column, TierInv, TypeOK
<1>11. ASSUME b = "guess"
       PROVE  w.provider = "company" \/ (w.provider = "graph" /\ s # "identified")
  <2>1. CASE ProviderOf(source) \in {"company", "graph"}
    BY <1>8, <1>10, <2>1, TiersTyped
  <2>2. CASE ProviderOf(source) = "first_party"
    <3>1. job[r].basis = "sound"
      BY <1>2, <1>6, <1>7, <2>2, TiersTyped DEF JobHolds
    <3>2. b = "sound"
      BY <1>5, <1>8, <3>1 DEF BasisAfter, Basis
    <3>3. QED
      BY <1>11, <3>2
  <2>3. CASE ProviderOf(source) = "inherited"
    <3>1. job[r].raced
      BY <1>2, <1>6, <1>7, <2>3, TiersTyped DEF JobUnraced
    <3>2. b # "guess"
      BY <1>5, <1>8, <2>3, <3>1 DEF BasisAfter, Basis
    <3>3. QED
      BY <1>11, <3>2
  <2>4. QED
    BY <2>1, <2>2, <2>3, TiersTyped DEF Providers
<1>12. /\ status' \in [Visitors -> Statuses]
       /\ row' \in [Visitors -> Rows \union {NoRow}]
       /\ basis' \in [Visitors -> Bases]
       /\ GuessesStayGuesses' /\ TiersHaveRows' /\ WritesOnly({v})
  <2>1. b \in Bases
    BY <1>5, BasisTyped
  <2>2. QED
    BY <1>6, <1>7, <1>8, <1>10, <1>11, <2>1, RecordsKeep
<1>13. canonical' \in [Visitors -> Visitors \union {None}]
  BY <1>6 DEF TierInv, TypeOK
<1>14. QED
  BY <1>6, <1>7, <1>12, <1>13, LastWriteKeeps

\* Unraced, the stored row is the row, so the job's match replaces it whole.
LEMMA OverwriteKeeps ==
    ASSUME TierInv, NEW r \in Resolvers, Overwrite(r)
    PROVE  TierInv'
<1>1. PICK v : v = job[r].visitor
  OBVIOUS
<1>2. PICK source : source = job[r].source
  OBVIOUS
<1>3. PICK was : was = job[r].stored
  OBVIOUS
<1>4. PICK suppressed \in BOOLEAN :
        Write(r, [email |-> Column(row[v].email, was.email, job[r].email),
                  provider |-> Column(row[v].provider, was.provider, ProviderOf(source)),
                  doNotEmail |-> row[v].doNotEmail /\ (suppressed \/ ~was.doNotEmail)])
  BY <1>1, <1>2, <1>3 DEF Overwrite
<1>5. PICK w : w = [email |-> Column(row[v].email, was.email, job[r].email),
                    provider |-> Column(row[v].provider, was.provider, ProviderOf(source)),
                    doNotEmail |-> row[v].doNotEmail /\ (suppressed \/ ~was.doNotEmail)]
  OBVIOUS
<1>6. PICK b : b = BasisAfter(r, w)
  OBVIOUS
<1>7. /\ job[r].at = "overwrite"
      /\ status' = [status EXCEPT ![v] = TierOf(source)]
      /\ row' = [row EXCEPT ![v] = w]
      /\ basis' = [basis EXCEPT ![v] = b]
      /\ JobWrites(r, v, IdleJob) /\ UNCHANGED <<canonical, captured>>
  BY <1>1, <1>2, <1>3, <1>4, <1>5, <1>6 DEF Overwrite, Write
<1>8. /\ job[r] \in Job /\ JobHolds(job[r]) /\ (~job[r].raced => JobUnraced(job[r]))
      /\ v \in Visitors /\ was \in Rows /\ row[v] \in Rows
  BY <1>1, <1>3, <1>7, Busy DEF JobHolds, HasRow, TierInv, TypeOK
<1>9. w \in Rows /\ w # NoRow
      /\ w.email = Column(row[v].email, was.email, job[r].email)
      /\ w.provider = Column(row[v].provider, was.provider, ProviderOf(source))
  <2>1. /\ Column(row[v].email, was.email, job[r].email) \in Addresses
        /\ Column(row[v].provider, was.provider, ProviderOf(source)) \in Providers
    BY <1>7, <1>8, TiersTyped DEF Column, JobHolds, Rows
  <2>2. (row[v].doNotEmail /\ (suppressed \/ ~was.doNotEmail)) \in BOOLEAN
    OBVIOUS
  <2>3. w \in Rows
    BY <1>5, <2>1, <2>2, Zenon DEF Rows
  <2>4. QED
    BY <1>5, <2>3, NoRowIsNone
<1>10. TierOf(source) \in Statuses
  BY TiersTyped, ConstantSets
<1>11. ASSUME b = "guess"
       PROVE  w.provider = "company" \/ (w.provider = "graph" /\ TierOf(source) # "identified")
  <2>1. CASE w.provider = "company" \/ (w.provider = "graph" /\ TierOf(source) = "candidate")
    BY <2>1
  <2>2. CASE ~(w.provider = "company" \/ (w.provider = "graph" /\ TierOf(source) = "candidate"))
    <3>1. ~job[r].raced
      BY <1>2, <1>6, <1>11, <2>2 DEF BasisAfter, Basis
    <3>2. was = row[v] /\ source \notin {"origin", "device"}
      BY <1>1, <1>2, <1>3, <1>7, <1>8, <3>1 DEF JobUnraced
    <3>3. w.email = job[r].email /\ w.provider = ProviderOf(source)
      BY <1>9, <3>2 DEF Column
    <3>4. source = "captured"
      BY <2>2, <3>2, <3>3, TiersTyped DEF Providers
    <3>5. job[r].basis = "sound"
      BY <1>2, <1>7, <1>8, <3>4 DEF JobHolds
    <3>6. b = "sound"
      BY <1>6, <3>3, <3>5 DEF BasisAfter, Basis
    <3>7. QED
      BY <1>11, <3>6
  <2>3. QED
    BY <2>1, <2>2
<1>12. /\ status' \in [Visitors -> Statuses]
       /\ row' \in [Visitors -> Rows \union {NoRow}]
       /\ basis' \in [Visitors -> Bases]
       /\ GuessesStayGuesses' /\ TiersHaveRows' /\ WritesOnly({v})
  <2>1. b \in Bases
    BY <1>6, BasisTyped
  <2>2. QED
    BY <1>7, <1>8, <1>9, <1>10, <1>11, <2>1, RecordsKeep
<1>13. canonical' \in [Visitors -> Visitors \union {None}]
  BY <1>7 DEF TierInv, TypeOK
<1>14. QED
  BY <1>7, <1>8, <1>12, <1>13, LastWriteKeeps

-----------------------------------------------------------------------------
(* The visitor *)

LEMMA CaptureKeeps ==
    ASSUME TierInv, NEW v \in Visitors, NEW a \in Addresses, Capture(v, a)
    PROVE  TierInv'
<1>1. /\ captured' = captured \union {<<v, a>>}
      /\ UNCHANGED <<status, canonical, row, job, request, basis>>
  BY DEF Capture
<1>2. TypeOK'
  BY <1>1 DEF TierInv, TypeOK
<1>3. GuessesStayGuesses' /\ TiersHaveRows'
  BY <1>1 DEF TierInv, GuessesStayGuesses, TiersHaveRows, HasRow
<1>4. JobInv' /\ RequestInv'
  BY <1>1 DEF TierInv, JobInv, JobHolds, JobUnraced, RequestInv, RequestHolds, HasRow
<1>5. QED
  BY <1>2, <1>3, <1>4 DEF TierInv

\* Visitors written off are anonymous again.
LEMMA ReopenKeeps ==
    ASSUME TierInv, NEW W \in SUBSET Visitors,
           \A v \in W : status[v] = "unresolvable",
           status' = [v \in Visitors |-> IF v \in W THEN "anonymous" ELSE status[v]],
           job' = JobsRaced(None, W), request' = RequestsRaced(None, W),
           UNCHANGED <<canonical, row, captured, basis>>
    PROVE  TierInv'
<1>1. /\ job' \in [Resolvers -> Job] /\ request' \in [Owners -> Request]
      /\ status' \in [Visitors -> Statuses]
  BY RacedTyped, ConstantSets DEF TierInv, TypeOK
<1>2. TypeOK'
  BY <1>1 DEF TierInv, TypeOK
<1>3. GuessesStayGuesses' /\ TiersHaveRows'
  BY DEF TierInv, GuessesStayGuesses, TiersHaveRows, HasRow
<1>4. WritesOnly(W)
  BY DEF WritesOnly, HasRow
<1>5. JobInv'
  BY <1>4, NamesApart, JobsAfterWrite
<1>6. RequestInv'
  BY <1>4, NamesApart, RequestsAfterWrite
<1>7. QED
  BY <1>2, <1>3, <1>5, <1>6 DEF TierInv

LEMMA ReviveKeeps ==
    ASSUME TierInv, NEW v \in Visitors, Revive(v)
    PROVE  TierInv'
<1>1. PICK W : W = {v}
  OBVIOUS
<1>2. status' = [u \in Visitors |-> IF u \in W THEN "anonymous" ELSE status[u]]
  BY <1>1 DEF Revive, TierInv, TypeOK
<1>3. QED
  BY <1>1, <1>2, ReopenKeeps DEF Revive

LEMMA ResetKeeps ==
    ASSUME TierInv, Reset
    PROVE  TierInv'
<1>1. PICK W : W = {v \in Visitors : status[v] = "unresolvable"}
  OBVIOUS
<1>2. QED
  BY <1>1, ReopenKeeps DEF Reset

-----------------------------------------------------------------------------
(* The owner *)

LEMMA ShowKeeps ==
    ASSUME TierInv, NEW o \in Owners, NEW v \in Visitors, Show(o, v)
    PROVE  TierInv'
<1>1. PICK x : x = [IdleRequest EXCEPT !.at = "shown", !.visitor = v, !.stored = row[v]]
  OBVIOUS
<1>2. x.at = "shown" /\ x.visitor = v /\ x.stored = row[v]
  BY <1>1 DEF IdleRequest
<1>3. x \in Request
  BY <1>1, IdleTyped DEF TierInv, TypeOK, Request
<1>4. RequestHolds(x)
  BY <1>2 DEF Show, RequestHolds, TierInv, TiersHaveRows, HasRow
<1>5. QED
  BY <1>1, <1>3, <1>4, RequestMove DEF Show

\* What every busy request knows of itself.
LEMMA Asked ==
    ASSUME TierInv, NEW o \in Owners, request[o].at # "idle"
    PROVE  request[o] \in Request /\ RequestHolds(request[o])
BY DEF TierInv, TypeOK, RequestInv

LEMMA DecideKeeps ==
    ASSUME TierInv, NEW o \in Owners, NEW decision \in {"confirm", "reject"},
           Decide(o, decision)
    PROVE  TierInv'
<1>1. PICK x : x = [request[o] EXCEPT !.at = decision]
  OBVIOUS
<1>2. request[o].at = "shown" /\ request[o] \in Request /\ RequestHolds(request[o])
  BY Asked DEF Decide
<1>3. /\ x \in Request /\ x.at = decision /\ x.visitor = request[o].visitor
      /\ x.stored = request[o].stored /\ x.raced = request[o].raced
  BY <1>1, <1>2 DEF Request
<1>4. RequestHolds(x)
  BY <1>2, <1>3 DEF RequestHolds
<1>5. QED
  BY <1>1, <1>3, <1>4, RequestMove DEF Decide

LEMMA TypeKeeps ==
    ASSUME TierInv, NEW o \in Owners, NEW v \in Visitors, NEW a \in Addresses,
           Type(o, v, a)
    PROVE  TierInv'
<1>1. PICK x : x = [at |-> "manual", visitor |-> v, loaded |-> status[v], typed |-> a,
                    stored |-> row[v], raced |-> FALSE]
  OBVIOUS
<1>2. /\ x.at = "manual" /\ x.visitor = v /\ x.typed = a /\ x.stored = row[v]
      /\ x \in Request
  BY <1>1 DEF TierInv, TypeOK, Request
<1>3. RequestHolds(x)
  BY <1>2 DEF RequestHolds, HasRow
<1>4. QED
  BY <1>1, <1>2, <1>3, RequestMove DEF Type

LEMMA DropKeeps ==
    ASSUME TierInv, NEW o \in Owners, Drop(o)
    PROVE  TierInv'
<1>1. IdleRequest \in Request /\ IdleRequest.at = "idle"
  BY IdleTyped DEF IdleRequest
<1>2. QED
  BY <1>1, RequestMove DEF Drop

\* A request that writes v's records and ends.
LEMMA AnswerKeeps ==
    ASSUME TierInv, NEW o \in Owners, NEW v \in Visitors, RequestWrites(o, v),
           UNCHANGED <<canonical, captured>>,
           status' \in [Visitors -> Statuses],
           row' \in [Visitors -> Rows \union {NoRow}],
           basis' \in [Visitors -> Bases],
           GuessesStayGuesses', TiersHaveRows', WritesOnly({v})
    PROVE  TierInv'
<1>1. /\ job' \in [Resolvers -> Job] /\ request' \in [Owners -> Request]
      /\ JobInv' /\ RequestInv'
  BY NamesApart, RequestWritesKeep
<1>2. QED
  BY <1>1 DEF TierInv, TypeOK

\* Unraced, the row is still the one the page showed.
LEMMA ConfirmKeeps ==
    ASSUME TierInv, NEW o \in Owners, Confirm(o)
    PROVE  TierInv'
<1>1. PICK v : v = request[o].visitor
  OBVIOUS
<1>2. PICK b : b = Basis(basis[v] = "sound" \/ row[v].email = request[o].stored.email,
                         request[o].raced)
  OBVIOUS
<1>3. request[o].at = "confirm" /\ request[o] \in Request /\ RequestHolds(request[o])
  BY Asked DEF Confirm
<1>4. v \in Visitors /\ HasRow(v) /\ row[v] \in Rows
  BY <1>1, <1>3 DEF RequestHolds, HasRow, TierInv, TypeOK
<1>5. /\ status' = [status EXCEPT ![v] = "identified"]
      /\ basis' = [basis EXCEPT ![v] = b]
      /\ RequestWrites(o, v) /\ UNCHANGED <<canonical, row, captured>>
  BY <1>1, <1>2 DEF Confirm
<1>6. b \in Bases /\ b # "guess"
  BY <1>1, <1>2, <1>3 DEF RequestHolds, Basis, Bases
<1>7. row' = [row EXCEPT ![v] = row[v]]
  BY <1>5 DEF TierInv, TypeOK
<1>8. /\ status' \in [Visitors -> Statuses]
      /\ row' \in [Visitors -> Rows \union {NoRow}]
      /\ basis' \in [Visitors -> Bases]
      /\ GuessesStayGuesses' /\ TiersHaveRows' /\ WritesOnly({v})
  BY <1>4, <1>5, <1>6, <1>7, ConstantSets, RecordsKeep DEF HasRow
<1>9. QED
  BY <1>4, <1>5, <1>8, AnswerKeeps

LEMMA RejectKeeps ==
    ASSUME TierInv, NEW o \in Owners, Reject(o)
    PROVE  TierInv'
<1>1. PICK v : v = request[o].visitor
  OBVIOUS
<1>2. PICK w : w = [row[v] EXCEPT !.doNotEmail = TRUE]
  OBVIOUS
<1>3. request[o].at = "reject" /\ request[o] \in Request /\ RequestHolds(request[o])
  BY Asked DEF Reject
<1>4. v \in Visitors /\ HasRow(v) /\ row[v] \in Rows /\ basis[v] \in Bases
  BY <1>1, <1>3 DEF RequestHolds, HasRow, TierInv, TypeOK
<1>5. /\ status' = [status EXCEPT ![v] = "anonymous"]
      /\ row' = [row EXCEPT ![v] = w]
      /\ RequestWrites(o, v) /\ UNCHANGED <<canonical, captured, basis>>
  BY <1>1, <1>2, <1>4 DEF Reject
<1>6. w \in Rows /\ w # NoRow /\ w.provider = row[v].provider
  BY <1>2, <1>4, NoRowIsNone DEF Rows
<1>7. basis' = [basis EXCEPT ![v] = basis[v]]
  BY <1>5 DEF TierInv, TypeOK
<1>8. basis[v] = "guess" => w.provider = "company" \/ w.provider = "graph"
  BY <1>4, <1>6 DEF TierInv, GuessesStayGuesses
<1>9. /\ status' \in [Visitors -> Statuses]
      /\ row' \in [Visitors -> Rows \union {NoRow}]
      /\ basis' \in [Visitors -> Bases]
      /\ GuessesStayGuesses' /\ TiersHaveRows' /\ WritesOnly({v})
  BY <1>4, <1>5, <1>6, <1>7, <1>8, ConstantSets, RecordsKeep
<1>10. QED
  BY <1>4, <1>5, <1>9, AnswerKeeps

\* Unraced, the row ends with the address that was typed.
LEMMA ManualKeeps ==
    ASSUME TierInv, NEW o \in Owners, Manual(o)
    PROVE  TierInv'
<1>1. PICK v : v = request[o].visitor
  OBVIOUS
<1>2. PICK was : was = request[o].stored
  OBVIOUS
<1>3. PICK s : s = Column(status[v], request[o].loaded, "identified")
  OBVIOUS
<1>4. PICK w : w =
        IF was = NoRow
        THEN [email |-> request[o].typed, provider |-> "first_party", doNotEmail |-> FALSE]
        ELSE [email |-> Column(row[v].email, was.email, request[o].typed),
              provider |-> Column(row[v].provider, was.provider, "first_party"),
              doNotEmail |-> row[v].doNotEmail]
  OBVIOUS
<1>5. PICK b : b = Basis(w.email = request[o].typed, request[o].raced)
  OBVIOUS
<1>6. request[o].at = "manual" /\ request[o] \in Request /\ RequestHolds(request[o])
  BY Asked DEF Manual
<1>7. v \in Visitors /\ request[o].typed \in Addresses
  BY <1>1, <1>6 DEF RequestHolds
<1>8. /\ row' = [row EXCEPT ![v] = w]
      /\ status' = [status EXCEPT ![v] = Column(@, request[o].loaded, "identified")]
      /\ basis' = [basis EXCEPT ![v] = b]
      /\ RequestWrites(o, v) /\ UNCHANGED <<canonical, captured>>
  BY <1>1, <1>2, <1>4, <1>5 DEF Manual
<1>9. status' = [status EXCEPT ![v] = s]
  BY <1>3, <1>8
<1>10. w \in Rows /\ (~request[o].raced => w.email = request[o].typed)
  <2>1. CASE was = NoRow
    BY <1>4, <1>7, <2>1 DEF Rows, Providers
  <2>2. CASE was # NoRow
    <3>1. row[v] \in Rows /\ was \in Rows
      BY <1>1, <1>2, <1>6, <1>7, <2>2 DEF RequestHolds, HasRow, Request, TierInv, TypeOK
    <3>2. /\ Column(row[v].email, was.email, request[o].typed) \in Addresses
          /\ Column(row[v].provider, was.provider, "first_party") \in Providers
      BY <1>7, <3>1 DEF Column, Rows, Providers
    <3>3. w \in Rows /\ w.email = Column(row[v].email, was.email, request[o].typed)
      BY <1>4, <2>2, <3>1, <3>2 DEF Rows
    <3>4. ~request[o].raced => was.email = row[v].email
      BY <1>1, <1>2, <1>6 DEF RequestHolds
    <3>5. QED
      BY <3>3, <3>4 DEF Column
  <2>3. QED
    BY <2>1, <2>2
<1>11. b \in Bases /\ b # "guess"
  BY <1>5, <1>6, <1>10 DEF Basis, Bases, Request
<1>12. s \in Statuses /\ w # NoRow
  BY <1>3, <1>7, <1>10, ConstantSets, NoRowIsNone DEF Column, TierInv, TypeOK
<1>13. /\ status' \in [Visitors -> Statuses]
       /\ row' \in [Visitors -> Rows \union {NoRow}]
       /\ basis' \in [Visitors -> Bases]
       /\ GuessesStayGuesses' /\ TiersHaveRows' /\ WritesOnly({v})
  BY <1>7, <1>8, <1>9, <1>10, <1>11, <1>12, RecordsKeep
<1>14. QED
  BY <1>7, <1>8, <1>13, AnswerKeeps

-----------------------------------------------------------------------------
(* The theorems *)

LEMMA InitTier == Init => TierInv
<1> SUFFICES ASSUME Init PROVE TierInv
  OBVIOUS
<1>1. TypeOK
  BY IdleTyped, ConstantSets DEF Init, TypeOK
<1>2. \A v \in Visitors : ~HasRow(v) /\ status[v] = "anonymous"
  BY DEF Init, HasRow
<1>3. GuessesStayGuesses /\ TiersHaveRows
  BY <1>2 DEF GuessesStayGuesses, TiersHaveRows
<1>4. JobInv /\ RequestInv
  BY DEF Init, IdleJob, IdleRequest, JobInv, RequestInv
<1>5. QED
  BY <1>1, <1>3, <1>4 DEF TierInv

LEMMA NextTier ==
    ASSUME TierInv, [Next]_vars
    PROVE  TierInv'
<1>1. ASSUME NEW r \in Resolvers, BeginJob(r) PROVE TierInv'
  BY <1>1, BeginKeeps, WebhookKeeps DEF BeginJob
<1>2. ASSUME NEW r \in Resolvers, JobStep(r) PROVE TierInv'
  <2>1. CASE ReadOrigin(r) \/ CheckOrigin(r) \/ CheckCaptured(r) \/ CheckDevice(r)
    BY <2>1, ReadOriginKeeps, CheckOriginKeeps, CheckCapturedKeeps, CheckDeviceKeeps
  <2>2. CASE \E source \in Sources, a \in Addresses : ProviderMatch(r, source, a)
    BY <2>2, ProviderMatchKeeps
  <2>3. CASE LogAttempt(r) \/ \E s \in Statuses : WriteOff(r, s)
    BY <2>3, LogAttemptKeeps, WriteOffKeeps
  <2>4. CASE GiveUp(r)
    BY <2>4, GiveUpKeeps DEF GiveUp
  <2>5. CASE Dedupe(r) \/ Merge(r) \/ Insert(r) \/ Conflict(r) \/ Overwrite(r)
    BY <2>5, DedupeKeeps, MergeKeeps, InsertKeeps, ConflictKeeps, OverwriteKeeps
  <2>6. QED
    BY <1>2, <2>1, <2>2, <2>3, <2>4, <2>5 DEF JobStep
<1>3. ASSUME NEW o \in Owners, BeginRequest(o) PROVE TierInv'
  BY <1>3, ShowKeeps, TypeKeeps DEF BeginRequest
<1>4. ASSUME NEW o \in Owners, RequestStep(o) PROVE TierInv'
  BY <1>4, DecideKeeps, ConfirmKeeps, RejectKeeps, ManualKeeps, DropKeeps DEF RequestStep
<1>5. ASSUME NEW v \in Visitors, NEW a \in Addresses, Capture(v, a) PROVE TierInv'
  BY <1>5, CaptureKeeps
<1>6. ASSUME NEW v \in Visitors, Revive(v) PROVE TierInv'
  BY <1>6, ReviveKeeps
<1>7. CASE Reset
  BY <1>7, ResetKeeps
<1>8. CASE UNCHANGED vars
  BY <1>8 DEF vars, TierInv, TypeOK, GuessesStayGuesses, TiersHaveRows, JobInv, JobHolds,
              JobUnraced, RequestInv, RequestHolds, HasRow
<1>9. QED
  BY <1>1, <1>2, <1>3, <1>4, <1>5, <1>6, <1>7, <1>8 DEF Next

\* However jobs, webhooks, captures and the owner's requests interleave: what a
\* job or a request nobody overtook has read still holds, and a guess keeps the
\* standing of a guess.
THEOREM TierInvariant == Spec => []TierInv
<1>1. Init => TierInv
  BY InitTier
<1>2. TierInv /\ [Next]_vars => TierInv'
  BY NextTier
<1>3. QED
  BY <1>1, <1>2, PTL DEF Spec

\* The campaign gate lets no unconfirmed guess through, except where a job or a
\* request saved over records written since it read them.
THEOREM NoGuessWithoutRace == Spec => []GuessNeedsRace
<1>1. TierInv => GuessNeedsRace
  BY DEF TierInv, GuessesStayGuesses, GuessNeedsRace, Emailable
<1>2. QED
  BY <1>1, TierInvariant, PTL

=============================================================================
