------------------------------- MODULE MCSites -------------------------------
(***************************************************************************)
(* Instances of Inactivity, SiteLifecycle, SiteAnalysis and Erasure for TLC.   *)
(* Each writes columns of `sites' that the others neither read nor write, or   *)
(* other tables, so a behaviour of each is checked on its own: `part' says     *)
(* whose turn it is; SiteLifecycle has two, one for ids and one for rows.  The *)
(* fairness of Inactivity and Erasure is restated for the parts.              *)
(***************************************************************************)
EXTENDS Inactivity, SiteLifecycle, SiteAnalysis, Erasure, TLC

CONSTANTS
    FirstId, FirstOwner, FirstCreate,   \* the only ones of part "rows"
    FirstWriter, LastWriter             \* the first and the last of the writers to begin

VARIABLE part

sitesVars == <<part, inactivityVars, siteVars, analysisVars, erasureVars>>

Init ==
    /\ part \in {"inactivity", "ids", "rows", "analysis", "erasure"}
    /\ InactivityInit /\ SiteInit /\ AnalysisInit /\ ErasureInit

\* Sites of several owners, without rows.
Without == writer' = writer

\* The rows of one id, whose writers are interchangeable and begin in one order.
OneSite ==
    /\ \A s \in sites' : s.id = FirstId
    /\ \A c \in Creates : create'[c].at # "idle" => c = FirstCreate /\ create'[c].owner = FirstOwner
    /\ \A w \in Writers : writer'[w].at # "idle" => writer'[FirstWriter].at # "idle"
    /\ \A w \in Writers : writer'[LastWriter].at # "idle" => writer'[w].at # "idle"

Next ==
    \/ part = "inactivity" /\ InactivityNext
          /\ UNCHANGED <<part, siteVars, analysisVars, erasureVars>>
    \/ part \in {"ids", "rows"} /\ SiteNext
          /\ (part = "ids" => Without) /\ (part = "rows" => OneSite)
          /\ UNCHANGED <<part, inactivityVars, analysisVars, erasureVars>>
    \/ part = "analysis" /\ AnalysisNext
          /\ UNCHANGED <<part, inactivityVars, siteVars, erasureVars>>
    \/ part = "erasure" /\ ErasureNext
          /\ UNCHANGED <<part, inactivityVars, siteVars, analysisVars>>

FairSpec ==
    /\ Init /\ [][Next]_sitesVars
    /\ SF_inactivityVars(part = "inactivity" /\ Tick)
    /\ \A p \in Sweeps : WF_inactivityVars(part = "inactivity" /\ SweepStep(p))
    /\ \A r \in Requests : /\ WF_inactivityVars(part = "inactivity" /\ LoadUser(r))
                           /\ WF_inactivityVars(part = "inactivity" /\ Touch(r))
                           /\ WF_inactivityVars(part = "inactivity" /\ Leave(r))
    /\ WF_erasureVars(part = "erasure" /\ AgeClaims)
    /\ \A w \in Purgers : WF_erasureVars(part = "erasure" /\ PurgerStep(w))

TypeOK == InactivityTypeOK /\ SiteTypeOK /\ AnalysisTypeOK /\ ErasureTypeOK

\* Resumed, in the behaviours of Inactivity.
SitesResumed == part = "inactivity" => Resumed

\* RequestSettles, in the behaviours of Erasure.
ErasureSettles == part = "erasure" => RequestSettles
=============================================================================
