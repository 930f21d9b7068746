----------------------------- MODULE Conversions -----------------------------
(***************************************************************************)
(* Conversions of one goal of a site (services/conversion_tracker.py): page    *)
(* views of the pixel and the orders a shop's server reports, and reports     *)
(* again, by webhook with the customer's e-mail (routers/outcomes.py); with    *)
(* the captures that say which visitor that e-mail belongs to                 *)
(* (routers/click.py, routers/events.py), the landings on campaign links, and  *)
(* the owner's edits of the goal and deletion of the campaign.                *)
(*                                                                          *)
(* A statement is a step.  The unique index on the dedupe key makes a second   *)
(* insert of a key wait, so an insert and its commit are one step.            *)
(***************************************************************************)
EXTENDS Naturals, FiniteSets, Sequences

CONSTANTS
    Browsers,       \* visitor ids that pixels have given out
    Recipient,      \* the one the campaign was mailed to
    Orders,         \* event_id of the orders of one customer
    Reports,        \* webhook deliveries
    Landings,       \* pixel batches with a page view
    MaxEdits,       \* bound: edits of `repeatable' and goals created, together
    MaxCaptures,    \* bound: captures of the customer's e-mail
    SaleDays        \* days events and orders are dated

Minted == "ec"      \* the visitor id derived from the e-mail
NoOrder == "no order"

ASSUME ConversionsAssumption ==
    /\ Recipient \in Browsers /\ IsFiniteSet(Orders) /\ NoOrder \notin Orders
    /\ Reports \intersect Landings = {}
    /\ MaxEdits \in Nat /\ MaxCaptures \in Nat

People == Browsers \union {Minted}
Writers == Reports \union Landings

VARIABLES
    goal,           \* the goal's row: its id, repeatable, enabled
    campaign,       \* the campaign and its touchpoint still exist
    seenAs,         \* visitors the customer's e-mail was seen with, oldest first
    landed,         \* campaign_clicks: visitors who came over the link
    conversions,    \* the rows of this goal
    writer,         \* each delivery and batch: its step and what it holds
    \* history
    flips,          \* edits of `repeatable'
    failures        \* click statements that failed

conversionVars == <<goal, campaign, seenAs, landed, conversions, writer, flips, failures>>

Goal == [id : Nat, repeatable : BOOLEAN, enabled : BOOLEAN]

ConversionsTypeOK ==
    /\ goal \in Goal /\ campaign \in BOOLEAN
    /\ seenAs \in Seq(People) /\ landed \subseteq Browsers
    /\ \A c \in conversions : DOMAIN c = {"key", "order", "credited", "owed"}
    /\ writer \in [Writers -> [at : {"off", "click", "goals", "visitor", "credit", "insert", "over"},
                               who : People, order : Orders \union {NoOrder},
                               owed : BOOLEAN, credited : BOOLEAN, goal : Goal]]
    /\ flips \in 0..MaxEdits /\ failures \in Nat

Idle == [at |-> "off", who |-> Minted, order |-> NoOrder, owed |-> FALSE, credited |-> FALSE,
         goal |-> [id |-> 0, repeatable |-> FALSE, enabled |-> FALSE]]

Over == [Idle EXCEPT !.at = "over"]

ConversionsInit ==
    /\ goal \in [id : {0}, repeatable : BOOLEAN, enabled : {TRUE}]
    /\ campaign = TRUE
    /\ seenAs = <<>> /\ landed = {}
    /\ conversions = {}
    /\ writer = [w \in Writers |-> Idle]
    /\ flips = 0 /\ failures = 0

-----------------------------------------------------------------------------
(* The world and the owner *)

\* visitor_emails: once for a visitor and e-mail, by a click or by the pixel.
SeeCustomer(p) ==
    /\ Len(seenAs) < MaxCaptures
    /\ \A i \in DOMAIN seenAs : seenAs[i] # p
    /\ seenAs' = Append(seenAs, p)
    /\ UNCHANGED <<goal, campaign, landed, conversions, writer, flips, failures>>

\* update_goal
EditGoal(repeatable, enabled) ==
    /\ goal' = [goal EXCEPT !.repeatable = repeatable, !.enabled = enabled]
    /\ \/ repeatable = goal.repeatable /\ UNCHANGED flips
       \/ goal.id + flips < MaxEdits /\ flips' = flips + 1
    /\ UNCHANGED <<campaign, seenAs, landed, conversions, writer, failures>>

\* delete_goal, with its conversions; create_goal, of the same name.
ReplaceGoal ==
    /\ goal.id + flips < MaxEdits
    /\ \E repeatable \in BOOLEAN :
          goal' = [id |-> goal.id + 1, repeatable |-> repeatable, enabled |-> TRUE]
    /\ conversions' = {}
    /\ UNCHANGED <<campaign, seenAs, landed, writer, flips, failures>>

\* delete_campaign: clicks go with it; what was credited stays credited.
DropCampaign ==
    /\ campaign
    /\ campaign' = FALSE /\ landed' = {}
    /\ UNCHANGED <<goal, seenAs, conversions, writer, flips, failures>>

-----------------------------------------------------------------------------
(* outcomes_webhook and the event batch *)

\* A signed delivery of an order; a batch, landed on the campaign's link or not.
Report(w, o) ==
    /\ w \in Reports /\ writer[w].at = "off"
    /\ writer' = [writer EXCEPT ![w] = [Idle EXCEPT !.at = "goals", !.order = o]]
    /\ UNCHANGED <<goal, campaign, seenAs, landed, conversions, flips, failures>>

Land(w, b, overLink) ==
    /\ w \in Landings /\ writer[w].at = "off"
    /\ writer' = [writer EXCEPT ![w] = [Idle EXCEPT !.at = IF overLink THEN "click" ELSE "goals",
                                                    !.who = b]]
    /\ UNCHANGED <<goal, campaign, seenAs, landed, conversions, flips, failures>>

\* Bug: the batch looks for goals without having stored the click.
TrackClickBug(w) ==
    /\ writer[w].at = "click"
    /\ writer' = [writer EXCEPT ![w].at = "goals", ![w].owed = campaign]
    /\ UNCHANGED <<goal, campaign, seenAs, landed, conversions, flips, failures>>

\* The click's rows, committed; or the statement failed and the batch goes on.
TrackClick(w) ==
    /\ writer[w].at = "click"
    /\ \/ /\ landed' = IF campaign THEN landed \union {writer[w].who} ELSE landed
          /\ writer' = [writer EXCEPT ![w].at = "goals", ![w].owed = campaign]
          /\ UNCHANGED failures
       \/ /\ failures = 0 /\ failures' = 1
          /\ writer' = [writer EXCEPT ![w].at = "goals"]
          /\ UNCHANGED landed
    /\ UNCHANGED <<goal, campaign, seenAs, conversions, flips>>

LoadGoal(w) ==
    /\ writer[w].at = "goals"
    /\ writer' = [writer EXCEPT ![w] =
          IF goal.enabled
          THEN [@ EXCEPT !.at = IF w \in Reports THEN "visitor" ELSE "credit", !.goal = goal]
          ELSE Over]
    /\ UNCHANGED <<goal, campaign, seenAs, landed, conversions, flips, failures>>

\* The latest visitor captured with the e-mail, else the one derived from it.
FindVisitor(w) ==
    /\ writer[w].at = "visitor"
    /\ writer' = [writer EXCEPT
          ![w].at = "credit",
          ![w].who = IF seenAs = <<>> THEN Minted ELSE seenAs[Len(seenAs)]]
    /\ UNCHANGED <<goal, campaign, seenAs, landed, conversions, flips, failures>>

\* attribute_visitor: the visitor's own click, else one on what was mailed to
\* them.  `timely': the event's own clock puts it after the click, within the window.
AttributeVisitor(w) ==
    /\ writer[w].at = "credit"
    /\ \E timely \in BOOLEAN :
          writer' = [writer EXCEPT
             ![w].at = "insert",
             ![w].owed = writer[w].owed /\ timely,
             ![w].credited = timely /\ (writer[w].who \in landed
                                          \/ (writer[w].who = Recipient /\ landed # {}))]
    /\ UNCHANGED <<goal, campaign, seenAs, landed, conversions, flips, failures>>

\* Bug: the order's id is not part of the key of a webhook.
DedupeKeyBug(g, who, order, day) ==
    IF ~g.repeatable THEN <<g.id, who>> ELSE <<g.id, who, "day", day>>

\* build_dedupe_key
DedupeKey(g, who, order, day) ==
    IF ~g.repeatable THEN <<g.id, who>>
    ELSE IF order # NoOrder THEN <<g.id, who, order>>
    ELSE <<g.id, who, "day", day>>

\* ON CONFLICT DO NOTHING.  A goal or touchpoint deleted meanwhile fails the
\* foreign key, and with it the batch or the delivery.
InsertConversion(w) ==
    LET me == writer[w] IN
    /\ me.at = "insert"
    /\ \E day \in SaleDays :
          LET entry == DedupeKey(me.goal, me.who, me.order, day)
              refused == me.goal.id # goal.id \/ (me.credited /\ ~campaign)
              known == \E c \in conversions : c.key = entry IN
          conversions' = IF refused \/ known THEN conversions
                         ELSE conversions \union {[key |-> entry, order |-> me.order,
                                                  credited |-> me.credited, owed |-> me.owed]}
    /\ writer' = [writer EXCEPT ![w] = Over]
    /\ UNCHANGED <<goal, campaign, seenAs, landed, flips, failures>>

ConversionsNext ==
    \/ ReplaceGoal \/ DropCampaign
    \/ \E p \in People : SeeCustomer(p)
    \/ \E repeatable, enabled \in BOOLEAN : EditGoal(repeatable, enabled)
    \/ \E w \in Reports, o \in Orders : Report(w, o)
    \/ \E w \in Landings, b \in Browsers, overLink \in BOOLEAN : Land(w, b, overLink)
    \/ \E w \in Writers : \/ TrackClick(w) \/ LoadGoal(w) \/ FindVisitor(w)
                          \/ AttributeVisitor(w) \/ InsertConversion(w)

ConversionsSpec == ConversionsInit /\ [][ConversionsNext]_conversionVars

-----------------------------------------------------------------------------
(* Properties *)

\* An order that is reported again is counted again only if its customer was
\* captured as another visitor meanwhile or the goal changed its kind
\* (build_dedupe_key: "an order id can safely be retried"); and a conversion of
\* a visitor who landed on a campaign's link, by an event whose clock fits, is
\* credited to a campaign unless that was deleted.
CountedOnceAndCredited ==
    /\ \A o \in Orders :
          Cardinality({c \in conversions : c.order = o}) <= (1 + Len(seenAs)) * (1 + flips)
    /\ \A c \in conversions : c.owed => c.credited \/ ~campaign
=============================================================================
