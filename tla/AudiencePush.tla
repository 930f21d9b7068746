---------------------------- MODULE AudiencePush ----------------------------
(***************************************************************************)
(* Pushing one segment to one ad connection (services/ads_push.py,            *)
(* services/ads/meta.py and google.py, routers/ads.py): pushes by requests and *)
(* workers, the owner's disconnect and reconnect, the expiry of the token.     *)
(*                                                                          *)
(* A push works on the connection row its session loaded, and writes back only *)
(* the columns that differ from it.  Each call of the platform and each commit *)
(* is a step; the call that makes an audience is made again, a few times, after *)
(* a timeout or an error that looks passing.  The platform is external: it may *)
(* refuse, or make the audience and not answer.  A push that the hourly limit  *)
(* or a broken link turns away changes nothing and is left out.               *)
(***************************************************************************)
EXTENDS Naturals, FiniteSets

CONSTANTS
    Pushes,         \* pushes of the segment, and tests
    Attempts,       \* stop_after_attempt of _http_retry: 3
    MaxExpiries,    \* bound: expiries of the token
    MaxConnects     \* bound: disconnects

ASSUME AudienceAssumption ==
    /\ MaxExpiries \in Nat /\ MaxConnects \in Nat /\ Attempts \in Nat \ {0}
    /\ IsFiniteSet(Pushes)

\* An audience is named after the push and the attempt that made it.
Audiences == Pushes \X (1..Attempts)
NoLink == <<"no push", 0>>

VARIABLES
    conn,           \* ad_connections: token, status
    link,           \* ad_audience_links: the audience of the segment, or NoLink
    audiences,      \* what exists on the platform
    push,           \* each push: its step, the row it loaded, the audience it works on, its attempt
    \* history
    renewals, disconnects,
    revoked,        \* the owner disconnected and has not connected since
    strays,         \* audiences made without an answer, or by a push that then ended badly
    overlaps,       \* pushes that read the link while another was between reading and storing it
    carried         \* the connection was written by a push that loaded it before the
                    \* disconnect in force

audienceVars ==
    <<conn, link, audiences, push, renewals, disconnects, revoked, strays, overlaps, carried>>

Conn == [token : {"none", "fresh", "stale"}, status : {"connected", "disconnected", "error"}]
PushSteps == {"off", "link", "renew", "keep", "audience", "upload", "store", "test", "over"}

AudienceTypeOK ==
    /\ conn \in Conn
    /\ link \in Audiences \union {NoLink}
    /\ audiences \subseteq Audiences
    /\ push \in [Pushes -> [at : PushSteps, row : Conn, on : Audiences \union {NoLink},
                           attempt : 1..Attempts, old : BOOLEAN]]
    /\ renewals \in 0..MaxExpiries /\ disconnects \in 0..MaxConnects
    /\ strays \in Nat /\ overlaps \in Nat /\ {revoked, carried} \subseteq BOOLEAN

AudienceInit ==
    /\ conn = [token |-> "fresh", status |-> "connected"]
    /\ link = NoLink /\ audiences = {}
    /\ push = [p \in Pushes |-> [at |-> "off", row |-> conn, on |-> NoLink,
                               attempt |-> 1, old |-> FALSE]]
    /\ renewals = 0 /\ disconnects = 0 /\ revoked = FALSE
    /\ strays = 0 /\ overlaps = 0 /\ carried = FALSE

-----------------------------------------------------------------------------
(* Helpers *)

PushGoto(p, step) == push' = [push EXCEPT ![p].at = step]
UsesLink(p) == push[p].at \in {"renew", "keep", "audience", "upload", "store"}
Made(p) == push[p].on \in audiences /\ push[p].on[1] = p /\ link # push[p].on

\* The session writes what it changed of the row it loaded.
WriteStatus(p, status) ==
    /\ conn' = IF status = push[p].row.status THEN conn ELSE [conn EXCEPT !.status = status]
    /\ carried' = (carried \/ (push[p].old /\ status # push[p].row.status))

-----------------------------------------------------------------------------
(* The owner, and time *)

TokenExpires ==
    /\ conn.token = "fresh" /\ renewals < MaxExpiries
    /\ renewals' = renewals + 1
    /\ conn' = [conn EXCEPT !.token = "stale"]
    /\ UNCHANGED <<link, audiences, push, disconnects, revoked, strays, overlaps, carried>>

\* Bug: the token stays on the row.
DisconnectBug ==
    /\ disconnects < MaxConnects /\ conn.status # "disconnected"
    /\ disconnects' = disconnects + 1
    /\ conn' = [conn EXCEPT !.status = "disconnected"]
    /\ push' = [p \in Pushes |-> [push[p] EXCEPT !.old = push[p].at \notin {"off", "over"}]]
    /\ revoked' = TRUE /\ carried' = FALSE
    /\ UNCHANGED <<link, audiences, renewals, strays, overlaps>>

Disconnect ==
    /\ disconnects < MaxConnects /\ conn.status # "disconnected"
    /\ disconnects' = disconnects + 1
    /\ conn' = [token |-> "none", status |-> "disconnected"]
    /\ push' = [p \in Pushes |-> [push[p] EXCEPT !.old = push[p].at \notin {"off", "over"}]]
    /\ revoked' = TRUE /\ carried' = FALSE
    /\ UNCHANGED <<link, audiences, renewals, strays, overlaps>>

\* oauth_callback: the owner has been through the platform's consent.
Connect ==
    /\ conn.status # "connected" \/ conn.token # "fresh"
    /\ conn' = [token |-> "fresh", status |-> "connected"]
    /\ push' = [p \in Pushes |-> [push[p] EXCEPT !.old = FALSE]]
    /\ revoked' = FALSE /\ carried' = FALSE
    /\ UNCHANGED <<link, audiences, renewals, disconnects, strays, overlaps>>

\* test_connection: the row is loaded, the platform asked, the status written.
BeginTest(p) ==
    /\ push[p].at = "off"
    /\ push' = [push EXCEPT ![p] = [@ EXCEPT !.at = "test", !.row = conn, !.old = FALSE]]
    /\ UNCHANGED <<conn, link, audiences, renewals, disconnects, revoked, strays, overlaps,
                   carried>>

FinishTest(p) ==
    /\ push[p].at = "test"
    /\ \/ push[p].row.token = "fresh" /\ WriteStatus(p, "connected")
       \/ WriteStatus(p, "error")
    /\ PushGoto(p, "over")
    /\ UNCHANGED <<link, audiences, renewals, disconnects, revoked, strays, overlaps>>

-----------------------------------------------------------------------------
(* push_segment_to_ads *)

LoadConnection(p) ==
    /\ push[p].at = "off"
    /\ push' = [push EXCEPT ![p] = [@ EXCEPT !.at = "link", !.row = conn, !.old = FALSE]]
    /\ UNCHANGED <<conn, link, audiences, renewals, disconnects, revoked, strays, overlaps,
                   carried>>

ReadLink(p) ==
    /\ push[p].at = "link"
    /\ push' = [push EXCEPT ![p].on = link,
                            ![p].at = IF push[p].row.token = "stale" THEN "renew" ELSE "audience"]
    /\ overlaps' = IF \E q \in Pushes \ {p} : UsesLink(q) THEN overlaps + 1 ELSE overlaps
    /\ UNCHANGED <<conn, link, audiences, renewals, disconnects, revoked, strays, carried>>

\* fresh_access_token: a new token; or refused, and the push goes on with the old.
RenewAdToken(p) ==
    /\ push[p].at = "renew"
    /\ \/ PushGoto(p, "keep") /\ UNCHANGED <<conn, carried>>
       \/ /\ WriteStatus(p, "error")
          /\ push' = [push EXCEPT ![p].at = "audience", ![p].row.status = "error"]
    /\ UNCHANGED <<link, audiences, renewals, disconnects, revoked, strays, overlaps>>

KeepAdToken(p) ==
    /\ push[p].at = "keep"
    /\ conn' = [conn EXCEPT !.token = "fresh"]
    /\ carried' = (carried \/ push[p].old)
    /\ push' = [push EXCEPT ![p].at = "audience", ![p].row.token = "fresh"]
    /\ UNCHANGED <<link, audiences, renewals, disconnects, revoked, strays, overlaps>>

\* The except branches: no link is stored for what may have been made.
PushFails(p, made) ==
    /\ push' = [push EXCEPT ![p].at = "over", ![p].row.status = "error"]
    /\ WriteStatus(p, "error")
    /\ strays' = IF made THEN strays + 1 ELSE strays
    /\ UNCHANGED <<link, renewals, disconnects, revoked, overlaps>>

\* create_or_update_audience, first part: a linked audience is used again.
UseAudience(p) ==
    /\ push[p].at = "audience" /\ push[p].row.token # "none" /\ push[p].on # NoLink
    /\ PushGoto(p, "upload")
    /\ UNCHANGED <<conn, link, audiences, renewals, disconnects, revoked, strays, overlaps,
                   carried>>

\* One attempt of the POST.  Answered: the audience is there.  Else it is or is not,
\* and the call is repeated, or the push fails: the last attempt, or another error.
CreateAudience(p) ==
    LET a == <<p, push[p].attempt>> IN
    /\ push[p].at = "audience" /\ push[p].row.token # "none" /\ push[p].on = NoLink
    /\ \/ /\ audiences' = audiences \union {a}
          /\ push' = [push EXCEPT ![p].at = "upload", ![p].on = a]
          /\ UNCHANGED <<conn, link, renewals, disconnects, revoked, strays, overlaps, carried>>
       \/ \E made \in BOOLEAN :
             /\ audiences' = IF made THEN audiences \union {a} ELSE audiences
             /\ \/ /\ push[p].attempt < Attempts
                   /\ push' = [push EXCEPT ![p].attempt = @ + 1]
                   /\ strays' = IF made THEN strays + 1 ELSE strays
                   /\ UNCHANGED <<conn, link, renewals, disconnects, revoked, overlaps, carried>>
                \/ PushFails(p, made)

\* No token, or no ad account.
AudienceRefused(p) ==
    /\ push[p].at = "audience"
    /\ PushFails(p, FALSE)
    /\ UNCHANGED audiences

Upload(p) ==
    /\ push[p].at = "upload"
    /\ UNCHANGED audiences
    /\ \/ /\ PushGoto(p, "store")
          /\ UNCHANGED <<conn, link, renewals, disconnects, revoked, strays, overlaps, carried>>
       \/ PushFails(p, Made(p))

\* Bug: the link is stored only if the platform took every contact.
StoreLinkBug(p) ==
    /\ push[p].at = "store"
    /\ \E status \in {"connected", "error"} :
          /\ link' = IF status = "connected" THEN push[p].on ELSE link
          /\ WriteStatus(p, status)
    /\ PushGoto(p, "over")
    /\ UNCHANGED <<audiences, renewals, disconnects, revoked, strays, overlaps>>

\* The upsert and the status (all contacts refused, or not), committed.
StoreLink(p) ==
    /\ push[p].at = "store"
    /\ link' = push[p].on
    /\ \E status \in {"connected", "error"} : WriteStatus(p, status)
    /\ PushGoto(p, "over")
    /\ UNCHANGED <<audiences, renewals, disconnects, revoked, strays, overlaps>>

\* The process dies, or the commit fails.
PushDies(p) ==
    /\ UsesLink(p)
    /\ PushGoto(p, "over")
    /\ strays' = IF Made(p) THEN strays + 1 ELSE strays
    /\ UNCHANGED <<conn, link, audiences, renewals, disconnects, revoked, overlaps, carried>>

AudienceNext ==
    \/ TokenExpires \/ Disconnect \/ Connect
    \/ \E p \in Pushes : \/ BeginTest(p) \/ FinishTest(p)
                         \/ LoadConnection(p) \/ ReadLink(p) \/ RenewAdToken(p) \/ KeepAdToken(p)
                         \/ UseAudience(p) \/ CreateAudience(p) \/ AudienceRefused(p)
                         \/ Upload(p) \/ StoreLink(p) \/ PushDies(p)

AudienceSpec == AudienceInit /\ [][AudienceNext]_audienceVars

-----------------------------------------------------------------------------
(* Properties *)

\* A segment has one audience on the platform, and one more for each that was made
\* without an answer or by a push that then ended badly, and for each push that read
\* the link while another was at work (models/ad_audience_link.py: a repeat push
\* reuses the audience; ON CONFLICT keeps one row, which is not one audience).
OneAudience == Cardinality(audiences) <= 1 + strays + overlaps

\* A connection the owner has disconnected gets no token back and does not read
\* "connected", but through a push or a test that had loaded it before.
DisconnectHolds == revoked /\ ~carried => conn.token = "none" /\ conn.status # "connected"

PushesSound == OneAudience /\ DisconnectHolds
=============================================================================
