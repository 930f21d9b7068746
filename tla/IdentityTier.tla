---------------------------- MODULE IdentityTier ----------------------------
(***************************************************************************)
(* Who a visitor is taken to be, and on what grounds: the resolver           *)
(* (services/identity_resolver.py), the sweep and the per-row button that    *)
(* start it, the Leadpipe webhook that saves through it, and the owner who   *)
(* types, confirms or rejects an identity (routers/visitors.py).  Nothing    *)
(* serialises them but the unique index on identified_visitors.              *)
(*                                                                          *)
(* A step is a read of the database, with the SELECTs right after it, or a   *)
(* commit; a job keeps what it read.  Providers are told apart by what the   *)
(* campaign gate makes of them.  Opt-outs, budgets and the 30-day rule end a *)
(* job or have it pass over a signal, and a suppression keeps a row's flag:  *)
(* these are choices here.  Addresses are those that pass validation.        *)
(***************************************************************************)
CONSTANTS
    Visitors,       \* of one site
    Addresses,
    Resolvers,      \* jobs in progress: sweeps, per-row retries, webhooks
    Owners,         \* requests of the site's owner in progress
    Svid,           \* the root visitor a visitor's server cookie names, or None
    SameDevice,     \* pairs of visitors with one fingerprint
    None

\* Where a match comes from, in the order of the waterfall.
Sources == {"origin", "captured", "device", "network", "paid_graph", "company",
            "webhook"}

ASSUME TierAssumption ==
    /\ Svid \in [Visitors -> Visitors \union {None}]
    /\ SameDevice \subseteq Visitors \X Visitors
    /\ None \notin Visitors \union Addresses \union Resolvers \union Owners \union Sources

Statuses == {"anonymous", "candidate", "identified", "merged",
             "unresolvable", "vpn_filtered"}

\* form_capture and manual; svid_reconcile and fingerprint_match;
\* GRAPH_CANDIDATE_PROVIDERS; COMPANY_LEVEL_PROVIDERS.
Providers == {"first_party", "inherited", "graph", "company"}

Rows == [email: Addresses, provider: Providers, doNotEmail: BOOLEAN]
NoRow == [email |-> None]

\* History: on what a row's address rests.  "sound": the visitor or the owner
\* gave it, or it was copied from a sound row; "raced": it owes its standing to
\* a job or request whose records somebody else wrote meanwhile; "guess": neither.
Bases == {"guess", "raced", "sound"}

VARIABLES
    status,         \* visitors.identity_status
    canonical,      \* visitors.canonical_visitor_id
    row,            \* identified_visitors
    captured,       \* visitor_emails
    job,            \* what each resolver has read and is about to do
    request,        \* the same for the owner's requests
    basis           \* history: see Bases

vars == <<status, canonical, row, captured, job, request, basis>>

Job == [at: {"idle", "origin", "verify", "captured", "device", "providers",
             "dedupe", "save", "overwrite"},
        visitor: Visitors \union {None},
        loaded: Statuses,
        source: Sources \union {None},
        origin: Visitors \union {None},
        email: Addresses \union {None},
        basis: Bases,
        into: Visitors \union {None},
        stored: Rows \union {NoRow},
        raced: BOOLEAN]

\* History: raced says that somebody else has written records the job has read.
IdleJob ==
    [at |-> "idle", visitor |-> None, loaded |-> "anonymous", source |-> None,
     origin |-> None, email |-> None, basis |-> "guess", into |-> None,
     stored |-> NoRow, raced |-> FALSE]

Request == [at: {"idle", "shown", "confirm", "reject", "manual"},
            visitor: Visitors \union {None},
            loaded: Statuses,
            typed: Addresses \union {None},
            stored: Rows \union {NoRow},
            raced: BOOLEAN]

IdleRequest ==
    [at |-> "idle", visitor |-> None, loaded |-> "anonymous", typed |-> None,
     stored |-> NoRow, raced |-> FALSE]

TypeOK ==
    /\ status \in [Visitors -> Statuses]
    /\ canonical \in [Visitors -> Visitors \union {None}]
    /\ row \in [Visitors -> Rows \union {NoRow}]
    /\ captured \subseteq Visitors \X Addresses
    /\ job \in [Resolvers -> Job]
    /\ request \in [Owners -> Request]
    /\ basis \in [Visitors -> Bases]

Init ==
    /\ status = [v \in Visitors |-> "anonymous"]
    /\ canonical = [v \in Visitors |-> None]
    /\ row = [v \in Visitors |-> NoRow]
    /\ captured = {}
    /\ job = [r \in Resolvers |-> IdleJob]
    /\ request = [o \in Owners |-> IdleRequest]
    /\ basis = [v \in Visitors |-> "guess"]

-----------------------------------------------------------------------------
(* Helpers *)

HasRow(v) == row[v] # NoRow

\* The campaign gate: is_emailable_identity, do_not_email and the confirm gate.
Emailable(v) ==
    /\ HasRow(v)
    /\ ~row[v].doNotEmail
    /\ row[v].provider # "company"
    /\ row[v].provider = "graph" => status[v] = "identified"

\* An address this visitor, or the one behind its cookie, gave on the site.
Captured(v, a) == <<v, a>> \in captured \/ <<Svid[v], a>> \in captured

ProviderOf(source) ==
    CASE source \in {"origin", "device"} -> "inherited"
      [] source = "captured" -> "first_party"
      [] source = "company" -> "company"
      [] OTHER -> "graph"

\* is_graph_candidate_provider decides the tier of a match.
TierOf(source) == IF ProviderOf(source) = "graph" THEN "candidate" ELSE "identified"

\* SQLAlchemy writes a column that differs from the value it loaded.
Column(now, loaded, new) == IF new = loaded THEN now ELSE new

\* History: an address somebody gave is sound whatever else happened.
Basis(sound, raced) ==
    IF sound THEN "sound" ELSE IF raced THEN "raced" ELSE "guess"

\* History: the others that have read v's records are told of a write to them.
JobsRaced(me, W) ==
    [r \in Resolvers |->
        IF r # me /\ {job[r].visitor, job[r].origin} \intersect W # {}
        THEN [job[r] EXCEPT !.raced = TRUE] ELSE job[r]]
RequestsRaced(me, W) ==
    [o \in Owners |->
        IF o # me /\ request[o].visitor \in W
        THEN [request[o] EXCEPT !.raced = TRUE] ELSE request[o]]

\* r, or o, writes the records of v and moves on to x.
JobWrites(r, v, x) ==
    /\ job' = [JobsRaced(r, {v}) EXCEPT ![r] = x]
    /\ request' = RequestsRaced(None, {v})
RequestWrites(o, v) ==
    /\ job' = JobsRaced(None, {v})
    /\ request' = [RequestsRaced(o, {v}) EXCEPT ![o] = IdleRequest]

Goto(r, x) == job' = [job EXCEPT ![r] = x]

SetStatus(r, s) ==
    status' = [status EXCEPT ![job[r].visitor] = Column(@, job[r].loaded, s)]

Match(r, source, origin, a, b) ==
    [job[r] EXCEPT !.at = "dedupe", !.source = source, !.origin = origin,
                   !.email = a, !.basis = b]

\* The signal yields nothing: the job drops what it read and goes on.
Onward(r, step) ==
    [job[r] EXCEPT !.at = step, !.source = None, !.origin = None,
                   !.email = None, !.basis = "guess"]

Deterministic(r) == job[r].loaded = "candidate"

\* Past the last prior signal a candidate's job is over.
AfterDevice(r) ==
    IF Deterministic(r) THEN IdleJob ELSE Onward(r, "providers")

-----------------------------------------------------------------------------
(* How a job begins *)

Begin(r, v) ==
    Goto(r, [IdleJob EXCEPT !.at = "origin", !.visitor = v,
                            !.loaded = status[v]])

\* run_resolution_for_site loads its visitors; each is resolved later.
LoadForSweep(r, v) ==
    /\ job[r].at = "idle"
    /\ status[v] \in {"anonymous", "candidate"}
    /\ Begin(r, v)
    /\ UNCHANGED <<status, canonical, row, captured, request, basis>>

\* The per-row button: candidates are left to their review.
LoadForIdentify(r, v) ==
    /\ job[r].at = "idle"
    /\ status[v] \in {"anonymous", "unresolvable"}
    /\ Begin(r, v)
    /\ UNCHANGED <<status, canonical, row, captured, request, basis>>

\* A webhook finds its visitor by marker, address or IP, whatever its status.
LoadForWebhook(r, v, a) ==
    /\ job[r].at = "idle"
    /\ Goto(r, [IdleJob EXCEPT !.at = "dedupe", !.visitor = v,
                               !.loaded = status[v], !.source = "webhook",
                               !.email = a])
    /\ UNCHANGED <<status, canonical, row, captured, request, basis>>

-----------------------------------------------------------------------------
(* _check_prior_signals *)

\* The visitor whose row the cookie leads to: the root, or one merge beyond it.
OriginOf(v) ==
    LET origin == Svid[v]
    IN  CASE origin \in {None, v} -> None
          [] origin \notin {None, v} /\ HasRow(origin) -> origin
          [] OTHER -> canonical[origin]

\* _identified_for_origin
ReadOrigin(r) ==
    /\ job[r].at = "origin"
    /\ LET w == OriginOf(job[r].visitor)
       IN  IF w # None /\ HasRow(w)
           THEN Goto(r, [job[r] EXCEPT !.at = "verify", !.origin = w,
                            !.email = row[w].email, !.basis = basis[w]])
           ELSE Goto(r, [job[r] EXCEPT !.at = "captured"])
    /\ UNCHANGED <<status, canonical, row, captured, request, basis>>

\* _origin_is_verified is a second query; a suppressed address is passed over.
CheckOrigin(r) ==
    /\ job[r].at = "verify"
    /\ \/ /\ status[job[r].origin] = "identified"
          /\ Goto(r, [job[r] EXCEPT !.at = "dedupe", !.source = "origin"])
       \/ Goto(r, Onward(r, "captured"))
    /\ UNCHANGED <<status, canonical, row, captured, request, basis>>

CheckCaptured(r) ==
    /\ job[r].at = "captured"
    /\ IF \E a \in Addresses : Captured(job[r].visitor, a)
       THEN \E a \in Addresses :
                /\ Captured(job[r].visitor, a)
                /\ Goto(r, Match(r, "captured", None, a, "sound"))
       ELSE Goto(r, Onward(r, "device"))
    /\ UNCHANGED <<status, canonical, row, captured, request, basis>>

\* One query joins the rows with their visitors' status.
DeviceMatches(v) ==
    {w \in Visitors \ {v} :
        <<v, w>> \in SameDevice /\ HasRow(w) /\ status[w] = "identified"}

CheckDevice(r) ==
    /\ job[r].at = "device"
    /\ \/ \E w \in DeviceMatches(job[r].visitor) :
             Goto(r, Match(r, "device", w, row[w].email, basis[w]))
       \/ Goto(r, AfterDevice(r))
    /\ UNCHANGED <<status, canonical, row, captured, request, basis>>


-----------------------------------------------------------------------------
(* The rest of resolve() *)

\* _log_resolution commits, and with it the reset of a retried visitor.
LogAttempt(r) ==
    /\ job[r].at = "providers"
    /\ job[r].loaded = "unresolvable"
    /\ status' = [status EXCEPT ![job[r].visitor] = "anonymous"]
    /\ JobWrites(r, job[r].visitor, [job[r] EXCEPT !.loaded = "anonymous"])
    /\ UNCHANGED <<canonical, row, captured, basis>>

\* The cross-tenant graph, the paid graphs, or a company's employee.
ProviderMatch(r, source, a) ==
    /\ job[r].at = "providers"
    /\ source \in {"network", "paid_graph", "company"}
    /\ Goto(r, Match(r, source, None, a, "guess"))
    /\ UNCHANGED <<status, canonical, row, captured, request, basis>>

\* No address or nobody matched; a masked address. Neither looks at what the
\* status has become.
WriteOff(r, s) ==
    /\ job[r].at = "providers"
    /\ s \in {"unresolvable", "vpn_filtered"}
    /\ status' = [status EXCEPT ![job[r].visitor] = s]
    /\ JobWrites(r, job[r].visitor, IdleJob)
    /\ UNCHANGED <<canonical, row, captured, basis>>

\* Opted out, tried lately, out of budget, nothing to save, an error, a
\* restart; or a dead tier, whose visitor is deferred.
GiveUp(r) ==
    /\ job[r].at # "idle"
    /\ Goto(r, IdleJob)
    /\ UNCHANGED <<status, canonical, row, captured, request, basis>>

-----------------------------------------------------------------------------
(* _save_identified *)

\* Two holders of an address raise MultipleResultsFound: a prior signal's own
\* handler goes on to the next one, any other job ends.
AfterRaise(r) ==
    CASE job[r].source = "origin" -> Onward(r, "captured")
      [] job[r].source = "captured" -> Onward(r, "device")
      [] job[r].source = "device" -> AfterDevice(r)
      [] job[r].source = "network" -> Onward(r, "providers")
      [] OTHER -> IdleJob

Holders(v, a) == {w \in Visitors \ {v} : row[w].email = a}

\* Bug: visitors are not deduplicated.
DedupeBug(r) ==
    /\ job[r].at = "dedupe"
    /\ Goto(r, [job[r] EXCEPT !.at = "save"])
    /\ UNCHANGED <<status, canonical, row, captured, request, basis>>

Dedupe(r) ==
    /\ job[r].at = "dedupe"
    /\ LET holders == Holders(job[r].visitor, job[r].email)
       IN  \/ /\ holders = {}
              /\ Goto(r, [job[r] EXCEPT !.at = "save"])
           \/ \E w \in holders :
                Goto(r, IF holders = {w}
                        THEN [job[r] EXCEPT !.at = "save", !.into = w]
                        ELSE AfterRaise(r))
    /\ UNCHANGED <<status, canonical, row, captured, request, basis>>

\* Another visitor holds the address: no row for this one.
Merge(r) ==
    /\ job[r].at = "save"
    /\ job[r].into # None
    /\ SetStatus(r, "merged")
    /\ canonical' = [canonical EXCEPT ![job[r].visitor] = job[r].into]
    /\ JobWrites(r, job[r].visitor, IdleJob)
    /\ UNCHANGED <<row, captured, basis>>

\* History: what the address of a row rests on after a job's write to it.
BasisAfter(r, written) ==
    LET v == job[r].visitor
        sound == \/ written.email = job[r].email /\ job[r].basis = "sound"
                 \/ written.email = row[v].email /\ basis[v] = "sound"
        marked == \/ written.provider = "company"
                  \/ written.provider = "graph" /\ TierOf(job[r].source) = "candidate"
    IN  Basis(sound, ~marked /\ (job[r].raced \/ job[r].basis = "raced"))

Write(r, written) ==
    LET v == job[r].visitor
    IN  /\ row' = [row EXCEPT ![v] = written]
        /\ basis' = [basis EXCEPT ![v] = BasisAfter(r, written)]
        /\ JobWrites(r, v, IdleJob)

Insert(r) ==
    /\ job[r].at = "save"
    /\ job[r].into = None
    /\ ~HasRow(job[r].visitor)
    /\ Write(r, [email |-> job[r].email, provider |-> ProviderOf(job[r].source),
                 doNotEmail |-> FALSE])
    /\ SetStatus(r, TierOf(job[r].source))
    /\ UNCHANGED <<canonical, captured>>

\* IntegrityError: the row that is there is read.
Conflict(r) ==
    /\ job[r].at = "save"
    /\ job[r].into = None
    /\ HasRow(job[r].visitor)
    /\ Goto(r, [job[r] EXCEPT !.at = "overwrite", !.stored = row[job[r].visitor]])
    /\ UNCHANGED <<status, canonical, row, captured, request, basis>>

\* The columns that differ from the row as read are written, and the status,
\* which the rollback expired, whatever it is. A rejection is taken back, unless
\* the address is suppressed.
Overwrite(r) ==
    /\ job[r].at = "overwrite"
    /\ LET v == job[r].visitor
           was == job[r].stored
       IN  /\ \E suppressed \in BOOLEAN :
                Write(r, [email |-> Column(row[v].email, was.email, job[r].email),
                          provider |-> Column(row[v].provider, was.provider,
                                              ProviderOf(job[r].source)),
                          doNotEmail |-> row[v].doNotEmail /\
                                         (suppressed \/ ~was.doNotEmail)])
           /\ status' = [status EXCEPT ![v] = TierOf(job[r].source)]
    /\ UNCHANGED <<canonical, captured>>

-----------------------------------------------------------------------------
(* The visitor *)

\* A form, or a click in a message, leaves an address.
Capture(v, a) ==
    /\ <<v, a>> \notin captured
    /\ captured' = captured \union {<<v, a>>}
    /\ UNCHANGED <<status, canonical, row, job, request, basis>>

\* Its address changed (_revive_on_ip_change), or the owner resets the site.
Revive(v) ==
    /\ status[v] = "unresolvable"
    /\ status' = [status EXCEPT ![v] = "anonymous"]
    /\ job' = JobsRaced(None, {v})
    /\ request' = RequestsRaced(None, {v})
    /\ UNCHANGED <<canonical, row, captured, basis>>

Reset ==
    LET W == {v \in Visitors : status[v] = "unresolvable"}
    IN  /\ W # {}
        /\ status' = [v \in Visitors |-> IF v \in W THEN "anonymous" ELSE status[v]]
        /\ job' = JobsRaced(None, W)
        /\ request' = RequestsRaced(None, W)
        /\ UNCHANGED <<canonical, row, captured, basis>>

-----------------------------------------------------------------------------
(* The owner *)

Ask(o, x) == request' = [request EXCEPT ![o] = x]

\* The page shows a candidate.
Show(o, v) ==
    /\ request[o].at = "idle"
    /\ status[v] = "candidate"
    /\ Ask(o, [IdleRequest EXCEPT !.at = "shown", !.visitor = v, !.stored = row[v]])
    /\ UNCHANGED <<status, canonical, row, captured, job, basis>>

\* _load_candidate_visitor
Decide(o, decision) ==
    /\ request[o].at = "shown"
    /\ decision \in {"confirm", "reject"}
    /\ status[request[o].visitor] = "candidate"
    /\ Ask(o, [request[o] EXCEPT !.at = decision])
    /\ UNCHANGED <<status, canonical, row, captured, job, basis>>

\* The owner vouches for what the page showed; the row is what it is by now.
Confirm(o) ==
    /\ request[o].at = "confirm"
    /\ LET v == request[o].visitor
       IN  /\ status' = [status EXCEPT ![v] = "identified"]
           /\ basis' = [basis EXCEPT ![v] =
                Basis(@ = "sound" \/ row[v].email = request[o].stored.email,
                      request[o].raced)]
           /\ RequestWrites(o, v)
    /\ UNCHANGED <<canonical, row, captured>>

Reject(o) ==
    /\ request[o].at = "reject"
    /\ LET v == request[o].visitor
       IN  /\ status' = [status EXCEPT ![v] = "anonymous"]
           /\ row' = IF HasRow(v) THEN [row EXCEPT ![v].doNotEmail = TRUE] ELSE row
           /\ RequestWrites(o, v)
    /\ UNCHANGED <<canonical, captured, basis>>

\* manual_identify_visitor loads the visitor and its row.
Type(o, v, a) ==
    /\ request[o].at = "idle"
    /\ Ask(o, [at |-> "manual", visitor |-> v, loaded |-> status[v], typed |-> a,
               stored |-> row[v], raced |-> FALSE])
    /\ UNCHANGED <<status, canonical, row, captured, job, basis>>

\* Into the row it loaded, column by column, or into a new one.
Manual(o) ==
    /\ request[o].at = "manual"
    /\ LET v == request[o].visitor
           was == request[o].stored
           written ==
               IF was = NoRow
               THEN [email |-> request[o].typed, provider |-> "first_party",
                     doNotEmail |-> FALSE]
               ELSE [email |-> Column(row[v].email, was.email, request[o].typed),
                     provider |-> Column(row[v].provider, was.provider, "first_party"),
                     doNotEmail |-> row[v].doNotEmail]
       IN  /\ was = NoRow => ~HasRow(v)
           /\ row' = [row EXCEPT ![v] = written]
           /\ status' = [status EXCEPT ![v] =
                            Column(@, request[o].loaded, "identified")]
           /\ basis' = [basis EXCEPT ![v] =
                            Basis(written.email = request[o].typed, request[o].raced)]
           /\ RequestWrites(o, v)
    /\ UNCHANGED <<canonical, captured>>

\* The page is closed, the visitor no candidate any more, the insert a duplicate.
Drop(o) ==
    /\ request[o].at # "idle"
    /\ Ask(o, IdleRequest)
    /\ UNCHANGED <<status, canonical, row, captured, job, basis>>

-----------------------------------------------------------------------------
BeginJob(r) ==
    \E v \in Visitors :
        \/ LoadForSweep(r, v)
        \/ LoadForIdentify(r, v)
        \/ \E a \in Addresses : LoadForWebhook(r, v, a)

JobStep(r) ==
    \/ ReadOrigin(r) \/ CheckOrigin(r) \/ CheckCaptured(r) \/ CheckDevice(r)
    \/ LogAttempt(r)
    \/ \E source \in Sources, a \in Addresses : ProviderMatch(r, source, a)
    \/ \E s \in Statuses : WriteOff(r, s)
    \/ GiveUp(r)
    \/ Dedupe(r) \/ Merge(r) \/ Insert(r) \/ Conflict(r) \/ Overwrite(r)

BeginRequest(o) ==
    \E v \in Visitors :
        \/ Show(o, v)
        \/ \E a \in Addresses : Type(o, v, a)

RequestStep(o) ==
    \/ \E decision \in {"confirm", "reject"} : Decide(o, decision)
    \/ Confirm(o) \/ Reject(o) \/ Manual(o) \/ Drop(o)

Next ==
    \/ \E r \in Resolvers : BeginJob(r) \/ JobStep(r)
    \/ \E o \in Owners : BeginRequest(o) \/ RequestStep(o)
    \/ \E v \in Visitors, a \in Addresses : Capture(v, a)
    \/ \E v \in Visitors : Revive(v)
    \/ Reset

Spec == Init /\ [][Next]_vars

-----------------------------------------------------------------------------
(* Properties *)

\* A graph guess nobody confirmed and an employee picked at a company are not
\* mailed (identity_classification.py), unless a job or a request saved over
\* records that somebody else had written since it read them.
GuessNeedsRace ==
    \A v \in Visitors : Emailable(v) => basis[v] # "guess"

\* Verified means that the visitor or the owner gave the address, or that it was
\* copied from a row where that is so: confirmation and first-party signals are
\* the only ways to "identified" (visitors.py). An employee picked at a company
\* is "identified" too, but never mailed.
VerifiedMeansVouched ==
    \A v \in Visitors :
        status[v] = "identified" /\ row[v].provider # "company" => basis[v] = "sound"

\* Only the visitor or the owner give an unraced guess another standing.
GuessesStayGuesses ==
    \A v \in Visitors :
        HasRow(v) /\ basis[v] = "guess" =>
            \/ row[v].provider = "company"
            \/ row[v].provider = "graph" /\ status[v] # "identified"

\* A row goes only with its visitor (erasure, which is not modelled here), and
\* these two statuses are written along with one.
TiersHaveRows ==
    \A v \in Visitors : status[v] \in {"candidate", "identified"} => HasRow(v)

\* What a job holds, whatever others did meanwhile.
JobHolds(j) ==
    /\ j.visitor \in Visitors
    /\ j.loaded = "candidate" => HasRow(j.visitor)
    /\ j.at \notin {"dedupe", "save", "overwrite"} => j.source = None
    /\ j.at = "verify" => j.origin \in Visitors /\ j.email \in Addresses
    /\ j.at \in {"dedupe", "save", "overwrite"} =>
        /\ j.email \in Addresses
        /\ j.source \in Sources
        /\ j.source = "captured" => j.basis = "sound"
        /\ j.source \in {"origin", "device"} => j.origin \in Visitors
    /\ j.at = "overwrite" => j.stored \in Rows /\ HasRow(j.visitor)

\* What still holds of the records it read, if nobody else wrote them: its own
\* visitor is not identified, the origin has the row it read, and so the
\* deduplication finds that row. An inherited match is merged, never saved.
JobUnraced(j) ==
    /\ j.source # "webhook" => status[j.visitor] # "identified"
    /\ j.at = "verify" => row[j.origin].email = j.email
    /\ j.at = "dedupe" /\ j.source \in {"origin", "device"} =>
        j.origin # j.visitor /\ row[j.origin].email = j.email
    /\ j.at = "save" /\ j.into = None => j.source \notin {"origin", "device"}
    /\ j.at = "overwrite" =>
        j.source \notin {"origin", "device"} /\ j.stored = row[j.visitor]

JobInv ==
    \A r \in Resolvers : job[r].at # "idle" =>
        JobHolds(job[r]) /\ (~job[r].raced => JobUnraced(job[r]))

RequestHolds(q) ==
    /\ q.visitor \in Visitors
    /\ q.stored # NoRow => HasRow(q.visitor)
    /\ q.at # "manual" => q.stored # NoRow
    /\ q.at = "manual" => q.typed \in Addresses
    /\ ~q.raced => q.stored.email = row[q.visitor].email

RequestInv ==
    \A o \in Owners : request[o].at # "idle" => RequestHolds(request[o])

\* GuessNeedsRace, strengthened to an inductive invariant.
TierInv == TypeOK /\ GuessesStayGuesses /\ TiersHaveRows /\ JobInv /\ RequestInv
=============================================================================
