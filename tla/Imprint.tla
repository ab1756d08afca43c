------------------------------- MODULE Imprint -------------------------------
(* What a Spirit remembers of one user: facts that turns save and forget     *)
(* with Actions, and facts that goroutines extract from ended turns, outside *)
(* the lock of the session, then pruning what is too much.  A fact is a      *)
(* value: two spellings that differ in case only are the same one.           *)
EXTENDS Naturals, Sequences, FiniteSets, SequencesExt

CONSTANTS
    Fact,          \* facts a model may name
    Extraction,    \* extractions under way at once
    MaxImprints,   \* ImprintExtractionConfig.MaxImprints
    MaxLines,      \* bound: lines of an answer of the extracting model
    MaxSaves       \* bound: Imprints saved

ASSUME ImprintAssumption == {MaxImprints, MaxLines} \subseteq Nat

VARIABLES
    imprints,    \* the collection: of this user and Spirit
    extraction,  \* [Extraction -> where its goroutine is and what it has read]
    forgetting,  \* Imprints that forget_fact or an operator found and has still to delete
    saved,       \* all Imprints ever saved
    forgotten    \* those that were deleted on purpose

imprintVars == <<imprints, extraction, forgetting, saved, forgotten>>

NoExtraction == [at |-> "idle", lines |-> <<>>, existing |-> {}, victims |-> {}, unsure |-> {}]

ImprintInit ==
    /\ imprints = {} /\ extraction = [x \in Extraction |-> NoExtraction] /\ forgetting = {}
    /\ saved = {} /\ forgotten = {}

Go(x, r) == extraction' = [extraction EXCEPT ![x] = r]

\* The ids are in the order of CreatedAt.
InsertOne(fact, sure) ==
    LET i == [id |-> Cardinality(saved) + 1, fact |-> fact, sure |-> sure] IN
    /\ Cardinality(saved) < MaxSaves
    /\ imprints' = imprints \cup {i} /\ saved' = saved \cup {i}

\* Every extraction that has read the facts no longer knows about this one.
Unsure(fact, r) ==
    [x \in Extraction |-> IF r[x].at = "save" THEN [r[x] EXCEPT !.unsure = @ \cup {fact}] ELSE r[x]]

-----------------------------------------------------------------------------
(* Extraction *)

\* ImprintExtractionStep starts the goroutine, and the model answers a line for each fact.
Extract(x) ==
    /\ extraction[x].at = "idle"
    /\ \E lines \in SeqOf(Fact, MaxLines) :
          lines # <<>> /\ Go(x, [NoExtraction EXCEPT !.at = "read", !.lines = lines])
    /\ UNCHANGED <<imprints, forgetting, saved, forgotten>>

\* GetByUserKey; its error is ignored, and nothing is known then.
ReadExisting(x) ==
    /\ extraction[x].at = "read"
    /\ \/ Go(x, [extraction[x] EXCEPT !.at = "save", !.existing = {i.fact : i \in imprints}])
       \/ Go(x, [extraction[x] EXCEPT !.at = "save", !.unsure = Fact])
    /\ UNCHANGED <<imprints, forgetting, saved, forgotten>>

\* Faulty: what was read is not looked at.
IsNewAlways(r, fact) == TRUE

\* existingFacts is not extended with what is saved.
IsNew(r, fact) == fact \notin r.existing

\* The next line; an error of Save is ignored.
SaveNext(x) ==
    LET r == extraction[x]
        fact == Head(r.lines)
        next == [r EXCEPT !.lines = Tail(@)]
    IN /\ r.at = "save" /\ r.lines # <<>>
       /\ \/ /\ IsNew(r, fact) /\ InsertOne(fact, fact \notin r.unsure)
             /\ extraction' = Unsure(fact, [extraction EXCEPT ![x] = next])
          \/ Go(x, next) /\ UNCHANGED <<imprints, saved>>
       /\ UNCHANGED <<forgetting, forgotten>>

\* All but the newest.
Oldest(found) == {i \in found : Cardinality({j \in found : j.id > i.id}) >= MaxImprints}

\* Prune looks and finds too many, or is done.
PruneRead(x) ==
    /\ extraction[x].at = "save" /\ extraction[x].lines = <<>>
    /\ \/ /\ Cardinality(imprints) > MaxImprints
          /\ Go(x, [NoExtraction EXCEPT !.at = "prune", !.victims = Oldest(imprints)])
       \/ Cardinality(imprints) <= MaxImprints /\ Go(x, NoExtraction)
    /\ UNCHANGED <<imprints, forgetting, saved, forgotten>>

\* It deletes one after the other; an error is ignored.
PruneDelete(x) ==
    /\ extraction[x].at = "prune"
    /\ \E i \in extraction[x].victims :
          LET left == extraction[x].victims \ {i} IN
          /\ Go(x, IF left = {} THEN NoExtraction ELSE [extraction[x] EXCEPT !.victims = left])
          /\ imprints' \in {imprints, imprints \ {i}}
    /\ UNCHANGED <<forgetting, saved, forgotten>>

\* The model fails, the timeout of the goroutine ends it anywhere, or the process dies.
ExtractionEnds(x) ==
    /\ extraction[x].at # "idle" /\ Go(x, NoExtraction)
    /\ UNCHANGED <<imprints, forgetting, saved, forgotten>>

-----------------------------------------------------------------------------
(* Actions *)

\* remember_fact neither looks for the fact nor prunes.
RememberFact(fact) ==
    /\ InsertOne(fact, FALSE) /\ extraction' = Unsure(fact, extraction)
    /\ UNCHANGED <<forgetting, forgotten>>

\* forget_fact reads all that match, DELETE /imprints/:id has one.
ForgetFind ==
    /\ forgetting = {}
    /\ \E facts \in SUBSET Fact :
          forgetting' = {i \in imprints : i.fact \in facts} /\ forgetting' # {}
    /\ UNCHANGED <<imprints, extraction, saved, forgotten>>

ForgetDelete ==
    \E i \in forgetting :
        /\ forgetting' = forgetting \ {i}
        /\ \/ imprints' = imprints \ {i} /\ forgotten' = forgotten \cup {i}
           \/ UNCHANGED <<imprints, forgotten>>
        /\ UNCHANGED <<extraction, saved>>

ImprintNext ==
    \/ \E x \in Extraction : Extract(x) \/ ReadExisting(x) \/ SaveNext(x) \/ PruneRead(x)
                             \/ PruneDelete(x) \/ ExtractionEnds(x)
    \/ \E fact \in Fact : RememberFact(fact)
    \/ ForgetFind \/ ForgetDelete

ImprintSpec == ImprintInit /\ [][ImprintNext]_imprintVars

-----------------------------------------------------------------------------
(* Properties *)

ImprintTypeOK ==
    /\ imprints \subseteq saved /\ forgotten \subseteq saved /\ forgetting \subseteq saved
    /\ Cardinality(saved) <= MaxSaves
    /\ \A x \in Extraction :
          /\ extraction[x].at \in {"idle", "read", "save", "prune"}
          /\ extraction[x].existing \cup extraction[x].unsure \subseteq Fact
          /\ extraction[x].victims \subseteq saved

\* A fact that nobody had deleted is missing only when MaxImprints newer ones were saved,
\* whatever else was saved, forgotten and pruned meanwhile; and no fact is there twice,
\* except explicitly, or when the extraction that saved it could not know: its read failed, or
\* another saved it after that, or its model named it twice ("deduplicates against existing
\* imprints, saves new ones, then prunes to enforce MaxImprints", pipeline_step_imprint.go).
FactsAreKeptOnce ==
    /\ \A i \in saved \ (imprints \cup forgotten) :
          Cardinality({j \in saved \ {i} : j.id > i.id}) >= MaxImprints
    /\ \A i, j \in imprints : i.id < j.id /\ i.fact = j.fact => ~j.sure
=============================================================================
