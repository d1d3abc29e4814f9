------------------------------ MODULE LeadScoring ------------------------------
(***************************************************************************)
(* Evidence and scores of one prospect (lead-intelligence/enrichment/      *)
(* website-audit.ts, lead-intelligence/scoring and the stages of           *)
(* pipeline/orchestrator.ts that call them).                               *)
(*                                                                         *)
(* Imports and website audits store signals with the time they observed.   *)
(* A score is calculated as of a time: it takes the latest signal of each  *)
(* key that was observed by then, sums the points of the rules and is kept *)
(* as an immutable snapshot.  The lead and its signals are read by two     *)
(* queries; nothing is locked.  Times are the steps of one clock.          *)
(***************************************************************************)
EXTENDS Integers, FiniteSets, FiniteSetsExt

CONSTANTS
  Prospects,    \* the business and agent rows there may be
  Imports,      \* what an import may say of a business: sets of [key, value]
  Audits,       \* what a website audit may say
  Listings,     \* what the import of an agent's listings may say
  Scorers,      \* processes that score
  MaxTime,      \* a bound on the clock
  MaxSignals,   \* a bound on stored signals
  MaxSnapshots  \* a bound on stored scores

\* Booleans are 1 and 0, ratings are in tenths, listing ages in hours.
Unknown == -1
Never == -1
SignalKeys ==
  {"google_review_count", "google_rating", "is_24_hour", "mentions_24_7", "mentions_emergency",
   "mentions_same_day", "has_chatbot", "has_online_booking", "has_website", "website_reachable",
   "google_verified", "photo_count", "closed", "multiple_locations", "is_national_franchise",
   "is_enterprise", "listing_age", "active_listing_count", "latest_listing_price",
   "has_instagram", "has_tiktok", "has_facebook", "has_agent_headshot", "has_agent_website",
   "brokerage"}

\* What an import or an audit says has a key that is scored and a value.
ASSUME ScoringAssumption ==
  /\ Prospects \subseteq [kind : {"business", "agent"}, phone : BOOLEAN, niche : BOOLEAN,
                         brand : BOOLEAN, updatedAt : {0}]
  /\ \A facts \in Imports \union Listings \union Audits :
       facts \subseteq [key : SignalKeys, value : Nat] /\ IsFiniteSet(facts)
  /\ MaxTime \in Nat /\ MaxSignals \in Nat

VARIABLES
  prospect,   \* [kind, phone, niche, brand, updatedAt]: the business or agent row
  signals,    \* LeadSignal rows: [no, key, value, at]
  snapshots,  \* ScoreSnapshot rows: [calculatedAt, inputAsOf, score, eligible, used]
  recommended,\* OfferRecommendation rows, by the snapshot they rest on
  audit,      \* website audits under way, by who asked: the time they began, or Never
  pipeline,   \* the pipeline run of this prospect: [pc, since, evidence]
  scorer,     \* what each process is calculating: [pc, as, row]
  clock

scoringVars ==
  <<prospect, signals, snapshots, recommended, audit, pipeline, scorer, clock>>

Auditors == {"operator", "pipeline"}
NoScoring == [pc |-> "idle", as |-> Never, row |-> Never]

ScoringInit ==
  /\ prospect \in Prospects
  /\ signals = {} /\ snapshots = {} /\ recommended = {}
  /\ audit = [a \in Auditors |-> Never]
  /\ pipeline = [pc |-> "idle", since |-> Never, evidence |-> {}]
  /\ scorer = [p \in Scorers |-> NoScoring]
  /\ clock = 0

-----------------------------------------------------------------------------
(* The scoring rules.                                                      *)

\* The latest observation decides; of several at one time, the one stored last.
Latest(rows, key) ==
  CHOOSE s \in rows : /\ s.key = key
                      /\ \A t \in rows : t.key = key =>
                           t.at < s.at \/ (t.at = s.at /\ t.no <= s.no)
LatestOf(rows) == {Latest(rows, k) : k \in {s.key : s \in rows}}
Values(rows) ==
  [k \in SignalKeys |-> IF \E s \in rows : s.key = k THEN Latest(rows, k).value ELSE Unknown]

HasValue(v, key) == v[key] # Unknown
True(v, key) == v[key] = 1
False(v, key) == v[key] = 0

\* The points of the first tier the value reaches.
Tier(tiers, value) ==
  LET reached == {t \in tiers : value >= t[1]} IN
  IF reached = {} THEN 0 ELSE (CHOOSE t \in reached : \A u \in reached : u[1] <= t[1])[2]

\* Mutant: the photo limit is read the wrong way round.
WeakBusinessFlipped(v) ==
  HasValue(v, "google_review_count") /\ v["google_review_count"] <= 4
    /\ (~HasValue(v, "photo_count") \/ v["photo_count"] >= 3)
WeakBusiness(v) ==
  HasValue(v, "google_review_count") /\ v["google_review_count"] <= 4
    /\ (~HasValue(v, "photo_count") \/ v["photo_count"] <= 2)

\* The points of a rule, if it applies.
Points(applies, points) == IF applies THEN points ELSE 0

VoicePoints(b, v) ==
  Points(HasValue(v, "google_review_count"),
         Tier({<<150, 20>>, <<75, 15>>, <<30, 10>>, <<10, 5>>}, v["google_review_count"]))
  + Points(HasValue(v, "google_rating"), Tier({<<45, 5>>, <<40, 3>>}, v["google_rating"]))
  + Points(b.niche, 15)
  + Points(True(v, "is_24_hour") \/ True(v, "mentions_24_7"), 15)
  + Points(True(v, "mentions_emergency"), 15) + Points(True(v, "mentions_same_day"), 5)
  + Points(False(v, "has_chatbot"), 10) + Points(False(v, "has_online_booking"), 10)
  + Points(True(v, "has_website") /\ True(v, "website_reachable"), 5)
  + Points(True(v, "google_verified"), 3)
  + Points(v["google_review_count"] >= 100 /\ v["photo_count"] >= 50, 2)
  - Points(WeakBusiness(v), 5)
  - Points(b.brand \/ \E k \in {"multiple_locations", "is_national_franchise", "is_enterprise"} :
             True(v, k), 10)

ListingPoints(v) ==
  Points(HasValue(v, "listing_age") /\ v["listing_age"] < 168,
         IF v["listing_age"] < 24 THEN 30 ELSE IF v["listing_age"] < 72 THEN 25 ELSE 15)
  + Points(v["active_listing_count"] >= 1,
           Tier({<<4, 20>>, <<2, 10>>, <<1, 5>>}, v["active_listing_count"]))
  + Points(v["active_listing_count"] >= 2, 5)
  + Points(v["latest_listing_price"] >= 250000,
           Tier({<<1000000, 20>>, <<750000, 15>>, <<400000, 10>>, <<250000, 5>>},
                v["latest_listing_price"]))
  + Points(True(v, "has_instagram"), 10) + Points(True(v, "has_tiktok"), 10)
  + Points(True(v, "has_facebook"), 5) + Points(True(v, "has_agent_headshot"), 10)
  + Points(True(v, "has_agent_website"), 5) + Points(True(v, "brokerage"), 5)

RawScore(b, v) == IF b.kind = "business" THEN VoicePoints(b, v) ELSE ListingPoints(v)
Clamp(n) == IF n < 0 THEN 0 ELSE IF n > 100 THEN 100 ELSE n

Eligible(b, v) ==
  IF b.kind = "business" THEN b.phone /\ ~True(v, "closed")
  ELSE v["active_listing_count"] > 0
Score(b, v) == IF Eligible(b, v) THEN Clamp(RawScore(b, v)) ELSE 0

-----------------------------------------------------------------------------
(* Evidence.                                                               *)

Tick ==
  /\ clock < MaxTime
  /\ clock' = clock + 1
  /\ UNCHANGED <<prospect, signals, snapshots, recommended, audit, pipeline, scorer>>

\* One transaction: the signals with their time, and a write of the row,
\* which Prisma dates.
Observe(facts, at) ==
  LET no == Cardinality(signals) + 1
      new == {[no |-> no, key |-> f.key, value |-> f.value, at |-> at] : f \in facts}
  IN /\ Cardinality(signals) + Cardinality(facts) <= MaxSignals
     /\ signals' = signals \union new
     /\ prospect' = [prospect EXCEPT !.updatedAt = clock]

NewEvidence == signals' \ signals

\* An import of its own, from a file or a form.  Every import of an agent's
\* listing that is new derives all facts about the agent again.
Import(facts) ==
  /\ prospect.kind = "business" /\ facts \in Imports
  /\ Observe(facts, clock)
  /\ UNCHANGED <<snapshots, recommended, audit, pipeline, scorer, clock>>

ImportListing(facts) ==
  /\ prospect.kind = "agent" /\ facts \in Listings
  /\ Observe(facts, clock)
  /\ UNCHANGED <<snapshots, recommended, audit, pipeline, scorer, clock>>

\* An audit is dated by its beginning; a site that fails is evidence too.
BeginAudit ==
  /\ prospect.kind = "business"
  /\ audit["operator"] = Never
  /\ audit' = [audit EXCEPT !["operator"] = clock]
  /\ UNCHANGED <<prospect, signals, snapshots, recommended, pipeline, scorer, clock>>

EndAudit(facts) ==
  /\ audit["operator"] # Never
  /\ Observe(facts, audit["operator"])
  /\ audit' = [audit EXCEPT !["operator"] = Never]
  /\ UNCHANGED <<snapshots, recommended, pipeline, scorer, clock>>

-----------------------------------------------------------------------------
(* Scoring.                                                                *)

BeginScore(p, as) ==
  /\ scorer[p].pc = "idle"
  /\ Cardinality(snapshots) < MaxSnapshots
  /\ scorer' = [scorer EXCEPT ![p] = [pc |-> "reading", as |-> as, row |-> Never]]

ReadProspect(p) ==
  /\ scorer[p].pc = "reading"
  /\ scorer' = [scorer EXCEPT ![p].pc = "scoring", ![p].row = prospect.updatedAt]
  /\ UNCHANGED <<prospect, signals, snapshots, recommended, audit, pipeline, clock>>

\* A score is dated by what it saw of the row and of the evidence.
AsOf(p, rows) ==
  LET seen == Max({scorer[p].row} \union {s.at : s \in rows}) IN
  IF seen > 0 THEN seen ELSE scorer[p].as

Snapshot(p) ==
  LET rows == LatestOf({s \in signals : s.at <= scorer[p].as})
      v == Values(rows)
  IN [calculatedAt |-> scorer[p].as, inputAsOf |-> AsOf(p, rows), score |-> Score(prospect, v),
      eligible |-> Eligible(prospect, v), used |-> {<<s.key, s.at>> : s \in rows}]

\* The signals are read and the snapshot stored; nothing of it changes later.
StoreScore(p) ==
  /\ scorer[p].pc = "scoring"
  /\ snapshots' = snapshots \union {Snapshot(p)}
  /\ scorer' = [scorer EXCEPT ![p] = NoScoring]
  /\ pipeline' = IF pipeline.pc = "scoring" /\ p = "pipeline"
                   THEN [pipeline EXCEPT !.pc = "recommend"] ELSE pipeline
  /\ UNCHANGED <<prospect, signals, recommended, audit, clock>>

CurrentScores == {s \in snapshots : \A t \in snapshots : t.calculatedAt <= s.calculatedAt}

\* Rescoring what is stale: businesses only.
Stale ==
  \/ snapshots = {}
  \/ \E s \in CurrentScores :
       s.inputAsOf < Max({prospect.updatedAt} \union {x.at : x \in signals})

Sweep(p) ==
  /\ prospect.kind = "business" /\ Stale
  /\ p # "pipeline"
  /\ BeginScore(p, clock)
  /\ UNCHANGED <<prospect, signals, snapshots, recommended, audit, pipeline, clock>>

Rescore(p) ==
  /\ p # "pipeline"
  /\ BeginScore(p, clock)
  /\ UNCHANGED <<prospect, signals, snapshots, recommended, audit, pipeline, clock>>

-----------------------------------------------------------------------------
(* The pipeline: it takes the time once, when it starts.                   *)

StartPipeline ==
  /\ pipeline.pc = "idle"
  /\ pipeline' = [pc |-> "ingest", since |-> clock, evidence |-> {}]
  /\ UNCHANGED <<prospect, signals, snapshots, recommended, audit, scorer, clock>>

\* A business import dates its signals itself; a listing import is told the
\* pipeline's time.
PipelineIngest(facts) ==
  /\ pipeline.pc = "ingest"
  /\ facts \in IF prospect.kind = "business" THEN Imports ELSE Listings
  /\ Observe(facts, IF prospect.kind = "business" THEN clock ELSE pipeline.since)
  /\ pipeline' = [pipeline EXCEPT !.pc = IF prospect.kind = "business" THEN "enrich" ELSE "score",
                                  !.evidence = @ \union NewEvidence]
  /\ UNCHANGED <<snapshots, recommended, audit, scorer, clock>>

PipelineAudit ==
  /\ pipeline.pc = "enrich"
  /\ audit' = [audit EXCEPT !["pipeline"] = clock]
  /\ pipeline' = [pipeline EXCEPT !.pc = "auditing"]
  /\ UNCHANGED <<prospect, signals, snapshots, recommended, scorer, clock>>

PipelineAudited(facts) ==
  /\ pipeline.pc = "auditing"
  /\ Observe(facts, audit["pipeline"])
  /\ audit' = [audit EXCEPT !["pipeline"] = Never]
  /\ pipeline' = [pipeline EXCEPT !.pc = "score", !.evidence = @ \union NewEvidence]
  /\ UNCHANGED <<snapshots, recommended, scorer, clock>>

PipelineScore ==
  /\ pipeline.pc = "score"
  /\ BeginScore("pipeline", pipeline.since)
  /\ pipeline' = [pipeline EXCEPT !.pc = "scoring"]
  /\ UNCHANGED <<prospect, signals, snapshots, recommended, audit, clock>>

(* The recommendation of the current score, unless the lead is suppressed, *)
(* not contactable or no prospect; a decision that was made before is not  *)
(* stored again.                                                           *)

Ranked(s, blocked) == s.eligible /\ ~blocked

Recommend ==
  /\ pipeline.pc = "recommend"
  /\ \E s \in CurrentScores, blocked \in BOOLEAN :
       recommended' = IF Ranked(s, blocked) THEN recommended \union {s} ELSE recommended
  /\ pipeline' = [pc |-> "idle", since |-> Never, evidence |-> {}]
  /\ UNCHANGED <<prospect, signals, snapshots, audit, scorer, clock>>

ScoringNext ==
  \/ Tick \/ BeginAudit
  \/ \E facts \in Imports \union Listings : Import(facts) \/ ImportListing(facts) \/ PipelineIngest(facts)
  \/ \E facts \in Audits : EndAudit(facts) \/ PipelineAudited(facts)
  \/ \E p \in Scorers : Rescore(p) \/ Sweep(p) \/ ReadProspect(p) \/ StoreScore(p)
  \/ StartPipeline \/ PipelineAudit \/ PipelineScore \/ Recommend

-----------------------------------------------------------------------------
ScoringTypeOK ==
  /\ \A s \in snapshots : s.score \in 0..100 /\ s.calculatedAt \in 0..MaxTime
  /\ \A s \in signals : s.key \in SignalKeys /\ s.at \in 0..clock
  /\ recommended \subseteq snapshots
  /\ \A p \in Scorers : scorer[p].pc \in {"idle", "reading", "scoring"}

StoresCurrent(p) ==
  /\ scorer[p].pc = "scoring" /\ scorer'[p].pc = "idle"
  /\ scorer[p].row = prospect.updatedAt
  /\ \A s \in snapshots : s.calculatedAt < scorer[p].as

(* A score that is stored from the rows as they are leaves the business    *)
(* not stale, although staleness compares the time of the score's input    *)
(* with times that an audit, an import and the clock set independently:    *)
(* sweeps do not score an unchanged business for ever.                     *)
ScoredIsNotStale ==
  [][\A p \in Scorers : StoresCurrent(p) => ~Stale']_scoringVars

(* More reviews, photos or a better rating never lower the score of a      *)
(* business, across all the tiers, bonuses and penalties that read them.   *)
Activity == {"google_review_count", "photo_count", "google_rating"}
Improves(v, w) ==
  /\ \A k \in SignalKeys \ Activity : v[k] = w[k]
  /\ \A k \in Activity : v[k] <= w[k] /\ (HasValue(v, k) <=> HasValue(w, k))
ActivityNeverHurts ==
  [][signals' # signals /\ Improves(Values(signals), Values(signals')) =>
       Score(prospect, Values(signals)) <= Score(prospect', Values(signals'))]_scoringVars

(* "ENRICH -> SCORE": the score a pipeline stores takes the evidence that  *)
(* the pipeline's own stages have collected into account.                  *)
EvidenceIsScored ==
  pipeline.pc = "recommend" =>
    \A e \in pipeline.evidence : \E s \in snapshots :
      s.calculatedAt = pipeline.since /\ \E at \in e.at..clock : <<e.key, at>> \in s.used
=============================================================================
