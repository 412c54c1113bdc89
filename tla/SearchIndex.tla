----------------------------- MODULE SearchIndex -----------------------------
(***************************************************************************)
(* Semantic search (PropertiesService.semanticSearch) beside the index of  *)
(* vectors that it asks first (PropertyApprovalIndexingService,            *)
(* ChromaPropertyService).                                                 *)
(*                                                                         *)
(* An approval indexes the listing in the background, an agreement takes   *)
(* it out; an owner's archive or edit does neither, and both may fail.  A  *)
(* search is one query of the index and four of the database, each at a    *)
(* moment of its own.  Documents and similarities are left out: what the   *)
(* index holds comes back, at any distance.                                *)
(***************************************************************************)
EXTENDS Naturals, FiniteSets, Rows

CONSTANTS
    SearchListings,   \* rows of property
    Providers,        \* of embeddings; each has its own namespace of vectors
    SearchQueries,    \* queries: the criteria each of them names
    SearchFacts,      \* listings: the criteria they meet, and whether they say
                      \* the query word for word ("phrase")
    MaxTasks          \* bound on work in the background

\* numbers: a minimum of bedrooms, a maximum of rent.
Criteria == {"place", "type", "furnishing", "numbers"}

ASSUME SearchAssumption ==
    /\ SearchQueries \subseteq SUBSET Criteria
    /\ SearchFacts \subseteq SUBSET (Criteria \cup {"phrase"})
    /\ MaxTasks \in Nat \ {0}

VARIABLES
    offers,       \* the listings: [approved, facts]
    vectors,      \* the listings in each namespace
    indexing,     \* listings that are being indexed
    removing,     \* listings whose vectors are being removed
    search,       \* the search under way, or NULL
    found         \* history: what a search has just answered, or NULL

searchVars == <<offers, vectors, indexing, removing, search, found>>

Offer == [approved: BOOLEAN, facts: SearchFacts]
Found == [id: SearchListings, facts: SearchFacts]

\* matches: what the index answered; located: the place was recognized; rows,
\* exact: what was read so far.  owed: history, listings that the query asks for
\* and that were approved and have fitted since the search began.
Search ==
    [step: {"catalogue"}, query: SearchQueries, matches: SUBSET SearchListings,
     owed: SUBSET SearchListings]
        \cup [step: {"rows"}, query: SearchQueries, matches: SUBSET SearchListings,
              located: BOOLEAN, owed: SUBSET SearchListings]
        \cup [step: {"exact"}, query: SearchQueries, located: BOOLEAN,
              rows: SUBSET Found, owed: SUBSET SearchListings]
        \cup [step: {"phrase"}, query: SearchQueries, located: BOOLEAN,
              rows: SUBSET Found, exact: SUBSET Found, owed: SUBSET SearchListings]
SearchAnswer == [how: {"nothing", "phrase", "match"}, query: SearchQueries,
                 missed: SUBSET SearchListings]

SearchTypeOK ==
    /\ offers \in [SearchListings -> Offer]
    /\ vectors \in [Providers -> SUBSET SearchListings]
    /\ indexing \subseteq SearchListings
    /\ removing \subseteq SearchListings
    /\ search # NULL => search \in Search
    /\ found # NULL => found \in SearchAnswer

SearchInit ==
    /\ \E facts \in SearchFacts :
           offers = [l \in SearchListings |-> [approved |-> FALSE, facts |-> facts]]
    /\ vectors = [p \in Providers |-> {}]
    /\ indexing = {}
    /\ removing = {}
    /\ search = NULL
    /\ found = NULL

----------------------------------------------------------------------------
(* The listings and their vectors.                                         *)

IndexIdle == UNCHANGED <<vectors, indexing, removing>>

\* A listing that is written to is owed to no search under way.
Write(l, offer) ==
    /\ offers' = [offers EXCEPT ![l] = offer]
    /\ search' = IF search = NULL THEN NULL ELSE [search EXCEPT !.owed = @ \ {l}]
    /\ found' = NULL

HasRoom == Cardinality(indexing) + Cardinality(removing) < MaxTasks

\* The owner's edit: PENDING again.
EditOffer(l) ==
    /\ \E facts \in SearchFacts : Write(l, [approved |-> FALSE, facts |-> facts])
    /\ IndexIdle

ArchiveOffer(l) ==
    /\ offers[l].approved
    /\ Write(l, [offers[l] EXCEPT !.approved = FALSE])
    /\ IndexIdle

\* confirmAgreement: archived, then taken out of the index.
AgreeOn(l) ==
    /\ HasRoom
    /\ offers[l].approved
    /\ Write(l, [offers[l] EXCEPT !.approved = FALSE])
    /\ removing' = removing \cup {l}
    /\ UNCHANGED <<vectors, indexing>>

\* Either provider's namespace may not answer.
InSome(listings) ==
    \E gone \in SUBSET Providers :
        vectors' = [p \in Providers |-> IF p \in gone THEN listings[p] ELSE vectors[p]]

RemoveVectors(l) ==
    /\ l \in removing
    /\ removing' = removing \ {l}
    /\ InSome([p \in Providers |-> vectors[p] \ {l}])
    /\ UNCHANGED <<offers, indexing, search>>
    /\ found' = NULL

ApproveOffer(l) ==
    /\ HasRoom
    /\ ~offers[l].approved
    /\ Write(l, [offers[l] EXCEPT !.approved = TRUE])
    /\ indexing' = indexing \cup {l}
    /\ UNCHANGED <<vectors, removing>>

\* The script that indexes everything again.
Reindex(l) ==
    /\ HasRoom
    /\ offers[l].approved
    /\ indexing' = indexing \cup {l}
    /\ UNCHANGED <<offers, vectors, removing, search>>
    /\ found' = NULL

\* After the embedding, whatever became of the listing; either embedding may
\* fail, or both, and a listing that is not approved any more when the handler
\* reads it is not indexed.
UpsertVectors(l) ==
    /\ l \in indexing
    /\ indexing' = indexing \ {l}
    /\ InSome([p \in Providers |-> vectors[p] \cup {l}])
    /\ UNCHANGED <<offers, removing, search>>
    /\ found' = NULL

----------------------------------------------------------------------------
(* A search.                                                               *)

ListingsIdle == UNCHANGED <<offers, vectors, indexing, removing>>

Approved == {l \in SearchListings : offers[l].approved}

\* The query states a condition, the place apart.
Definite(query) == query \cap {"type", "furnishing", "numbers"} # {}

Answered(how, items) ==
    /\ found' = [how |-> how, query |-> search.query, missed |-> search.owed \ items]
    /\ search' = NULL

\* The query's embedding comes from one provider or, if that fails, the other.
QueryIndex ==
    /\ search = NULL
    /\ \E p \in Providers, query \in SearchQueries :
           search' = [step |-> "catalogue", query |-> query, matches |-> vectors[p],
                      owed |-> {l \in Approved : query \subseteq offers[l].facts}]
    /\ found' = NULL
    /\ ListingsIdle

SearchAt(step) == search # NULL /\ search.step = step

\* Without a match and without a condition, the place is not looked for.
NoRelevantSemanticMatch ==
    /\ SearchAt("catalogue")
    /\ search.matches = {}
    /\ ~Definite(search.query)
    /\ Answered("nothing", {})
    /\ ListingsIdle

\* Mutant: places are recognized among the matches of the index only.
CatalogueOfMatches == Approved \cap search.matches

\* Not "the first vector candidates".
Catalogue == Approved

Locate ==
    /\ SearchAt("catalogue")
    /\ search.matches # {} \/ Definite(search.query)
    /\ search' = [step |-> "rows", query |-> search.query,
                  matches |-> search.matches, owed |-> search.owed,
                  located |-> /\ "place" \in search.query
                              /\ \E l \in Catalogue : "place" \in offers[l].facts]
    /\ found' = NULL
    /\ ListingsIdle

ReadRows(ids) == {[id |-> l, facts |-> offers[l].facts] : l \in ids \cap Approved}

ReadMatches ==
    /\ SearchAt("rows")
    /\ search' = [step |-> "exact", query |-> search.query,
                  located |-> search.located, owed |-> search.owed,
                  rows |-> ReadRows(search.matches)]
    /\ found' = NULL
    /\ ListingsIdle

\* A type alone does not narrow the choice.
Restrictive == search.query \cap {"furnishing", "numbers"} # {} \/ search.located

AtPlace(row) == search.located => "place" \in row.facts

Exact(row) ==
    /\ Restrictive
    /\ search.query \ {"place"} \subseteq row.facts
    /\ AtPlace(row)

ReadExact ==
    /\ SearchAt("exact")
    /\ search' = [step |-> "phrase", query |-> search.query,
                  located |-> search.located, owed |-> search.owed,
                  rows |-> search.rows,
                  exact |-> {row \in ReadRows(SearchListings) : Exact(row)}]
    /\ found' = NULL
    /\ ListingsIdle

Ids(rows) == {row.id : row \in rows}

\* The later of two reads of a listing counts.
Merged == search.exact \cup {row \in search.rows : row.id \notin Ids(search.exact)}

\* Of the numbers, nothing is asked again.
Shown(row) ==
    /\ search.query \cap {"type", "furnishing"} \subseteq row.facts
    /\ AtPlace(row)

\* Where listings say the query word for word, no others are answered, though of
\* those perhaps none is shown.  A match that is too far stays only if it was read as exact.
AnswerSearch ==
    /\ SearchAt("phrase")
    /\ LET phrased == {row \in ReadRows(SearchListings) : "phrase" \in row.facts}
       IN  IF phrased # {}
           THEN Answered("phrase", Ids({row \in phrased : Shown(row)}))
           ELSE \E near \in SUBSET Ids(search.rows) :
                    Answered("match", Ids({row \in Merged : Shown(row)})
                                          \cap (near \cup Ids(search.exact)))
    /\ ListingsIdle

\* The index or the database does not answer: 503.
SearchUnavailable ==
    /\ search # NULL
    /\ search' = NULL
    /\ found' = NULL
    /\ ListingsIdle

SearchNext ==
    \/ \E l \in SearchListings :
           \/ EditOffer(l) \/ ArchiveOffer(l) \/ AgreeOn(l) \/ RemoveVectors(l)
           \/ ApproveOffer(l) \/ Reindex(l) \/ UpsertVectors(l)
    \/ QueryIndex \/ NoRelevantSemanticMatch \/ Locate \/ ReadMatches
    \/ ReadExact \/ AnswerSearch \/ SearchUnavailable

SearchSpec == SearchInit /\ [][SearchNext]_searchVars

----------------------------------------------------------------------------

\* The index "must not hide listings that satisfy an explicit customer
\* request": a listing that is approved and meets all criteria of the query from
\* the beginning of a search to its end is answered, whether or not it was ever
\* indexed.  Three exceptions are what the code does: if any listing says the
\* query word for word, those that do not are left out, even when none is shown
\* in the end; a query that names no more than a place is answered with nothing
\* when the index has nothing; and one that names no more than a type leaves the
\* choice to the index.  (Answers are of one page: how many listings fit on it is
\* left out.)
ExplicitMatchesAreFound ==
    found # NULL =>
        \A l \in found.missed :
            \/ found.how = "phrase" /\ "phrase" \notin offers[l].facts
            \/ found.how = "nothing" /\ found.query \subseteq {"place"}
            \/ found.how = "match" /\ found.query \subseteq {"type"}
=============================================================================
