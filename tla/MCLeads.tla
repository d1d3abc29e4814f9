------------------------------- MODULE MCLeads -------------------------------
(***************************************************************************)
(* The four parts of lead intelligence and the demos built for the         *)
(* prospects it finds, side by side.  A behaviour runs one of them, and    *)
(* the others keep their initial state: their models share no variable, so *)
(* interleaving them would add nothing but states.                         *)
(***************************************************************************)
EXTENDS LeadIngestion, LeadPipeline, LeadOutreach, LeadScoring, DemoBuilder, TLC

CONSTANT Parts

VARIABLE part

leadsVars == <<part, ingestVars, pipelineVars, outreachVars, scoringVars, demoBuilderVars>>

\* A part that does not run has one initial state.
LeadsInit ==
  /\ IngestInit /\ PipelineInit /\ OutreachInit /\ ScoringInit /\ DemoBuilderInit
  /\ part \in Parts
  /\ part # "pipeline" => durable /\ \A r \in Pipelines : sourceOf[r] = "outscraper"
  /\ part # "scoring" => prospect.kind = "business"

LeadsNext ==
  \/ /\ part = "ingestion" /\ IngestNext
     /\ UNCHANGED <<part, pipelineVars, outreachVars, scoringVars, demoBuilderVars>>
  \/ /\ part = "pipeline" /\ PipelineNext
     /\ UNCHANGED <<part, ingestVars, outreachVars, scoringVars, demoBuilderVars>>
  \/ /\ part = "outreach" /\ OutreachNext
     /\ UNCHANGED <<part, ingestVars, pipelineVars, scoringVars, demoBuilderVars>>
  \/ /\ part = "scoring" /\ ScoringNext
     /\ UNCHANGED <<part, ingestVars, pipelineVars, outreachVars, demoBuilderVars>>
  \/ /\ part = "demos" /\ DemoBuilderNext
     /\ UNCHANGED <<part, ingestVars, pipelineVars, outreachVars, scoringVars>>

LeadsSpec ==
  LeadsInit /\ [][LeadsNext]_leadsVars /\ (part = "pipeline" => PipelineFairness)

LeadsTypeOK == IngestTypeOK /\ PipelineTypeOK /\ OutreachTypeOK /\ ScoringTypeOK

-----------------------------------------------------------------------------
\* Two imports of businesses that share a place id or a phone, one of listings
\* that share an agent, repeat and throw.
SlotSet == {"place", "phone"}
Rec(e, place, phone, name, payload, verdict) ==
  [ext |-> e, ids |-> [place |-> place, phone |-> phone], name |-> name, payload |-> payload,
   verdict |-> verdict]
Valid(e, place, phone, name, payload) == Rec(e, place, phone, name, payload, "valid")
Kinds == [r \in Runs |-> IF r <= 2 THEN "business" ELSE "listing"]
Batches ==
  (1 :> <<Valid(1, 11, 21, 0, 101), Valid(2, 0, 22, 0, 102)>>)
    @@ (2 :> <<Valid(3, 0, 21, 0, 103), Rec(1, 0, 22, 0, 104, "invalid"), Rec(4, 0, 0, 0, 110, "rejected"),
               Valid(1, 0, 22, 0, 105)>>)
    @@ (3 :> <<Valid(5, 0, 31, 0, 106), Rec(6, 0, 0, 0, 107, "rejected"), Valid(6, 0, 31, 0, 108),
               Valid(5, 0, 31, 0, 106), Rec(7, 0, 0, 0, 109, "unreadable")>>)

DestinationOf == [c \in Campaigns |-> IF c = "queue" THEN "CALL_QUEUE" ELSE "GHL"]

Request(consent, dnc, suppressed, named) ==
  [consent |-> consent, dnc |-> dnc, suppressed |-> suppressed, source |-> named]
RequestSet ==
  {Request("granted", "unsaid", "unsaid", "named"), Request("granted", "no", "unsaid", "blank"),
   Request("opted_out", "unsaid", "unsaid", "unsaid"), Request("unsaid", "yes", "no", "unsaid"),
   Request("unsaid", "unsaid", "yes", "unsaid"), Request("unsaid", "unsaid", "unsaid", "named")}

ProspectRows ==
  {[kind |-> k, phone |-> TRUE, niche |-> TRUE, brand |-> FALSE, updatedAt |-> 0] :
     k \in {"business", "agent"}}
Fact(key, value) == [key |-> key, value |-> value]
ImportSets ==
  {{Fact("google_review_count", 3), Fact("photo_count", 1)}, {Fact("photo_count", 60)}}
AuditSets == {{Fact("website_reachable", 1), Fact("has_website", 1)}}
ListingSets == {{Fact("active_listing_count", 2), Fact("listing_age", 30)}}

\* One form with a module, one that asks for advice, research and a prospect.
DemoForm(advice, modules, asked) ==
  [recommended |-> advice, modules |-> modules, notes |-> "website", niche |-> "other",
   research |-> advice, prospect |-> asked]
DemoFormSet == {DemoForm(FALSE, {"voice"}, "none"), DemoForm(TRUE, {}, "p")}
=============================================================================
