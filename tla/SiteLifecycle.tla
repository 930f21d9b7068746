--------------------------- MODULE SiteLifecycle ---------------------------
(***************************************************************************)
(* Creating and deleting sites (routers/sites.py): the check that a URL is    *)
(* free, the plan's website limit, the tombstone that lets a deleted site's   *)
(* id be issued again to its owner, and the cascade over the site's rows.     *)
(*                                                                          *)
(* A create request reads in two steps and writes in a third.  A delete is    *)
(* one READ COMMITTED transaction whose statements are a step each: a row it  *)
(* has deleted is there for others until the commit, and a row written after  *)
(* the DELETE of its table survives.  Meanwhile other requests and jobs write *)
(* rows for a site they read some time before (segmenter, planner, sends).    *)
(***************************************************************************)
EXTENDS Integers, FiniteSets

CONSTANTS
    Owners, Urls, Ids,
    Creates,        \* create requests in progress
    Deletes,        \* delete requests in progress
    Writers,        \* requests and jobs that write a row of a site, one each; also those rows
    SiteLimit,      \* get_site_limit of every owner's plan
    MaxDeletes      \* bound: deletions of one id

NoParent == "no parent"

ASSUME SiteAssumption ==
    /\ SiteLimit \in Nat \ {0} /\ MaxDeletes \in Nat
    /\ Owners # {} /\ Urls # {} /\ Ids # {} /\ NoParent \notin Writers

VARIABLES
    sites,          \* rows of `sites'
    tombstones,     \* rows of `site_tombstones' inside the reclaim window
    create,         \* each create request: its step, and the site it means to add
    removal,        \* each delete request: its next statement, the site it read, the rows it took
    writer,         \* each writer: its step, and its row: table, site id, the row it refers to
    deleted         \* history: how often each id was deleted

siteVars == <<sites, tombstones, create, removal, writer, deleted>>

\* The tables as the delete treats them: segments stand for the listed tables; a
\* campaign refers to its segment, a touchpoint to its campaign; identity_feedback
\* is one of those the list leaves out.
Tables == {"segments", "campaigns", "touchpoints", "feedback"}
LeftOut == {"feedback"}
NewId == "a fresh id"
NoId == "no id"
Site == [id : Ids, url : Urls, owner : Owners]
\* life: of the site, when it was read.  late: written when the delete of that life
\* had been through the row's table.
WriterRow == [at : {"idle", "read", "written", "over"}, table : Tables, id : Ids \union {NoId},
              life : 0..MaxDeletes, parent : Writers \union {NoParent}, late : BOOLEAN]

SiteTypeOK ==
    /\ sites \subseteq Site /\ tombstones \subseteq Site
    /\ create \in [Creates -> [at : {"idle", "checked", "picked", "refused"}, owner : Owners,
                               url : Urls, id : Ids \union {NewId}]]
    /\ removal \in [Deletes -> [at : {"off", "touchpoints", "segments", "campaigns", "commit"},
                                site : Site, life : 0..MaxDeletes, taken : SUBSET Writers]]
    /\ \A d \in Deletes : removal[d].at # "off" => removal[d].life < MaxDeletes
    /\ writer \in [Writers -> WriterRow]
    /\ \A w \in Writers : writer[w].at \in {"read", "written"} => writer[w].id \in Ids
    /\ deleted \in [Ids -> 0..MaxDeletes]

NoWrite(step) == [at |-> step, table |-> "segments", id |-> NoId, life |-> 0,
                  parent |-> NoParent, late |-> FALSE]
NoDelete == [at |-> "off", site |-> CHOOSE s \in Site : TRUE, life |-> 0, taken |-> {}]

SiteInit ==
    /\ sites = {} /\ tombstones = {}
    /\ create = [c \in Creates |-> [at |-> "idle", owner |-> CHOOSE o \in Owners : TRUE,
                                    url |-> CHOOSE u \in Urls : TRUE, id |-> NewId]]
    /\ removal = [d \in Deletes |-> NoDelete]
    /\ writer = [w \in Writers |-> NoWrite("idle")]
    /\ deleted = [i \in Ids |-> 0]

-----------------------------------------------------------------------------
(* Helpers *)

InUse(i) == \E s \in sites : s.id = i
SitesOf(o) == {s \in sites : s.owner = o}
Rows(table, i) == {w \in Writers : writer[w].at = "written" /\ writer[w].table = table
                                    /\ writer[w].id = i}
Unissued == {i \in Ids : ~InUse(i) /\ deleted[i] = 0}
\* Bug: anybody's tombstone of the URL will do.
ReclaimableBug(o, u) == {t \in tombstones : t.url = u}

Reclaimable(o, u) == {t \in tombstones : t.owner = o /\ t.url = u}

-----------------------------------------------------------------------------
(* create_site *)

\* The URL is nobody's and the owner is below the limit: else 409, 200, 402.
CheckCreate(c, o, u) ==
    /\ create[c].at = "idle"
    /\ \A s \in sites : s.url # u
    /\ Cardinality(SitesOf(o)) < SiteLimit
    /\ create' = [create EXCEPT ![c] = [at |-> "checked", owner |-> o, url |-> u, id |-> NewId]]
    /\ UNCHANGED <<sites, tombstones, removal, writer, deleted>>

\* Bug: without a tombstone no id is asked for.
PickTombstoneBug(c) ==
    LET T == Reclaimable(create[c].owner, create[c].url) IN
    /\ create[c].at = "checked"
    /\ \E i \in IF T = {} THEN {NoId} ELSE {t.id : t \in T} :
          create' = [create EXCEPT ![c] = [@ EXCEPT !.at = "picked", !.id = i]]
    /\ UNCHANGED <<sites, tombstones, removal, writer, deleted>>

PickTombstone(c) ==
    LET T == Reclaimable(create[c].owner, create[c].url) IN
    /\ create[c].at = "checked"
    /\ \E i \in IF T = {} THEN {NewId} ELSE {t.id : t \in T} :
          create' = [create EXCEPT ![c] = [@ EXCEPT !.at = "picked", !.id = i]]
    /\ UNCHANGED <<sites, tombstones, removal, writer, deleted>>

Add(c, i) ==
    /\ sites' = sites \union {[id |-> i, url |-> create[c].url, owner |-> create[c].owner]}
    /\ create' = [create EXCEPT ![c].at = "idle"]

\* The site and the end of its tombstone, in one transaction.
InsertReclaimed(c) ==
    LET i == create[c].id IN
    /\ create[c].at = "picked" /\ i # NewId
    /\ ~InUse(i)
    /\ Add(c, i)
    /\ tombstones' = {t \in tombstones : ~(t.id = i /\ t.owner = create[c].owner)}
    /\ UNCHANGED <<removal, writer, deleted>>

InsertFresh(c) ==
    /\ create[c].at = "picked" /\ create[c].id = NewId
    /\ \E i \in Unissued : Add(c, i)
    /\ UNCHANGED <<tombstones, removal, writer, deleted>>

\* sites.site_id is taken: rollback, and one more attempt with a fresh id, which
\* reads user.id of an instance the rollback expired (MissingGreenlet, 500).
InsertCollides(c) ==
    /\ create[c].at = "picked" /\ create[c].id # NewId
    /\ InUse(create[c].id)
    /\ create' = [create EXCEPT ![c].at = "refused"]
    /\ UNCHANGED <<sites, tombstones, removal, writer, deleted>>

Forget(c) ==
    /\ create[c].at = "refused"
    /\ create' = [create EXCEPT ![c].at = "idle"]
    /\ UNCHANGED <<sites, tombstones, removal, writer, deleted>>

-----------------------------------------------------------------------------
(* delete_site *)

BeginDelete(d, s) ==
    /\ removal[d].at = "off"
    /\ s \in sites /\ deleted[s.id] < MaxDeletes
    /\ removal' = [removal EXCEPT ![d] = [at |-> "touchpoints", site |-> s,
                                          life |-> deleted[s.id], taken |-> {}]]
    /\ UNCHANGED <<sites, tombstones, create, writer, deleted>>

\* A row that another delete has taken is locked until that ends.
Locked(d, R) == \E e \in Deletes \ {d} : removal[e].taken \intersect R # {}

Take(d, R, next) ==
    /\ ~Locked(d, R)
    /\ removal' = [removal EXCEPT ![d] = [@ EXCEPT !.at = next,
                                          !.taken = removal[d].taken \union R]]
    /\ UNCHANGED <<sites, tombstones, create, writer, deleted>>

DeleteTouchpoints(d) ==
    /\ removal[d].at = "touchpoints"
    /\ Take(d, {w \in Rows("touchpoints", removal[d].site.id) :
                    writer[w].parent \in Rows("campaigns", removal[d].site.id)}, "segments")

\* Bug: a table is missing from the list.
DeleteSegmentsBug(d) ==
    /\ removal[d].at = "segments"
    /\ Take(d, {}, "campaigns")

\* campaigns.segment_id has no ON DELETE: refused while a campaign refers to one.
DeleteSegments(d) ==
    LET segments == Rows("segments", removal[d].site.id) IN
    /\ removal[d].at = "segments"
    /\ \A w \in Writers : writer[w].at = "written" => writer[w].parent \notin segments
    /\ Take(d, segments, "campaigns")

\* campaign_touchpoints.campaign_id is ON DELETE CASCADE.
DeleteCampaigns(d) ==
    LET campaigns == Rows("campaigns", removal[d].site.id)
        children == {w \in Writers : /\ writer[w].at = "written" /\ writer[w].table = "touchpoints"
                                     /\ writer[w].parent \in campaigns} IN
    /\ removal[d].at = "campaigns"
    /\ Take(d, campaigns \union children, "commit")

\* The tombstone, the site's row if it is still the one that was read, the commit.
CommitDelete(d) ==
    LET s == removal[d].site
        current == removal[d].life = deleted[s.id] IN
    /\ removal[d].at = "commit"
    /\ tombstones' = tombstones \union {s}
    /\ sites' = IF current THEN sites \ {s} ELSE sites
    /\ deleted' = IF current THEN [deleted EXCEPT ![s.id] = @ + 1] ELSE deleted
    /\ writer' = [w \in Writers |-> IF w \in removal[d].taken THEN NoWrite("over") ELSE writer[w]]
    /\ removal' = [removal EXCEPT ![d] = NoDelete]
    /\ UNCHANGED create

\* A statement is refused or fails, or the commit: 500.
RollbackDelete(d) ==
    /\ removal[d].at # "off"
    /\ removal' = [removal EXCEPT ![d] = NoDelete]
    /\ UNCHANGED <<sites, tombstones, create, writer, deleted>>

\* site_id_reclaim_window_days have passed.
TombstoneExpires(t) ==
    /\ t \in tombstones
    /\ tombstones' = tombstones \ {t}
    /\ UNCHANGED <<sites, create, removal, writer, deleted>>

-----------------------------------------------------------------------------
(* Writers of site rows *)

\* The rows a row of the table may refer to.
Parents(i, table) ==
    CASE table = "campaigns" -> Rows("segments", i)
      [] table = "touchpoints" -> Rows("campaigns", i)
      [] OTHER -> {NoParent}

ReadSite(w, i, table) ==
    /\ writer[w].at = "idle"
    /\ InUse(i)
    /\ \E parent \in Parents(i, table) :
          writer' = [writer EXCEPT ![w] = [at |-> "read", table |-> table, id |-> i,
                                           life |-> deleted[i], parent |-> parent, late |-> FALSE]]
    /\ UNCHANGED <<sites, tombstones, create, removal, deleted>>

\* The tables a delete has been through: those whose rows are written late.
Through(d) ==
    CASE removal[d].at = "campaigns" -> {"segments"}
      [] removal[d].at = "commit" -> {"segments", "campaigns", "touchpoints"}
      [] OTHER -> {}

Late(row) ==
    \/ deleted[row.id] # row.life
    \/ \E d \in Deletes : /\ row.table \in Through(d)
                          /\ removal[d].site.id = row.id /\ removal[d].life = row.life

\* No foreign key ties a row to `sites', but one to its parent: it waits for a
\* delete that has taken the parent, and is refused when that is gone.
WriteRow(w) ==
    LET parent == writer[w].parent IN
    /\ writer[w].at = "read"
    /\ \A d \in Deletes : parent \notin removal[d].taken
    /\ writer' = [writer EXCEPT ![w] =
                     IF parent = NoParent \/ writer[parent].at = "written"
                     THEN [@ EXCEPT !.at = "written", !.late = Late(writer[w])]
                     ELSE NoWrite("over")]
    /\ UNCHANGED <<sites, tombstones, create, removal, deleted>>

\* routers/segments.delete_segment: its campaigns are kept, unlinked.
DeleteSegment(w) ==
    LET linked == {v \in Writers : writer[v].at = "written" /\ writer[v].parent = w} IN
    /\ writer[w].at = "written" /\ writer[w].table = "segments"
    /\ InUse(writer[w].id)
    /\ \A d \in Deletes : removal[d].taken \intersect (linked \union {w}) = {}
    /\ writer' = [v \in Writers |-> IF v = w THEN NoWrite("over")
                                    ELSE IF v \in linked THEN [writer[v] EXCEPT !.parent = NoParent]
                                    ELSE writer[v]]
    /\ UNCHANGED <<sites, tombstones, create, removal, deleted>>

SiteNext ==
    \/ \E c \in Creates :
          \/ \E o \in Owners, u \in Urls : CheckCreate(c, o, u)
          \/ PickTombstone(c) \/ InsertReclaimed(c) \/ InsertFresh(c)
          \/ InsertCollides(c) \/ Forget(c)
    \/ \E d \in Deletes : \/ \E s \in sites : BeginDelete(d, s)
                          \/ DeleteTouchpoints(d) \/ DeleteSegments(d) \/ DeleteCampaigns(d)
                          \/ CommitDelete(d) \/ RollbackDelete(d)
    \/ \E t \in tombstones : TombstoneExpires(t)
    \/ \E w \in Writers : \/ WriteRow(w) \/ DeleteSegment(w)
                          \/ \E i \in Ids, table \in Tables : ReadSite(w, i, table)

SiteSpec == SiteInit /\ [][SiteNext]_siteVars

-----------------------------------------------------------------------------
(* Properties *)

\* A re-created site finds nothing from an earlier life in the listed tables and
\* their dependents, but what was written after the DELETE of its table had run
\* (the site_id-reuse gap that delete_site's list means to close).
CleanReuse ==
    \A w \in Writers : writer[w].at = "written" /\ writer[w].life < deleted[writer[w].id] =>
        writer[w].table \in LeftOut \/ writer[w].late

\* A site id, live or reclaimable, never passes to another owner: the pixel in
\* the first owner's page goes on reporting to that owner.
IdKeepsOwner ==
    \A s, t \in sites \union tombstones : s.id = t.id => s.owner = t.owner /\ s.url = t.url
=============================================================================
