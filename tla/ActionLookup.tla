----------------------------- MODULE ActionLookup -----------------------------
(***************************************************************************)
(* resolve_actions: breadth-first, at most MAX_LOOKUPS manifests, behind   *)
(* the `uses:` of a workflow's jobs, each read over the HTTP client of     *)
(* providers/github.py.  What one request answers is chosen, try by try.   *)
(***************************************************************************)
EXTENDS Naturals, Sequences, FiniteSets, SequencesExt

CONSTANTS
  Uses,         \* the `uses:` strings there are
  Known,        \* those of actions whose behaviour the caller models
  nested,       \* what a composite uses, in order, for the composites at GitHub
  Leaves,       \* the actions at GitHub that are no composites, or do not parse
  Unparsed,     \* docker:// and whatever else parse_ref does not recognise
  roots,        \* what the workflows use, in order
  MAX_LOOKUPS, MAX_DEPTH,
  Tries,        \* tries of _get_with_backoff
  MaxTrouble    \* bound on requests that go wrong

Composites == DOMAIN nested

ASSUME LookupAssumption ==
  /\ Composites \cup Leaves \cup Known \cup Unparsed \subseteq Uses
  /\ \A u \in Composites : nested[u] \in Seq(Uses)
  /\ Composites \cap Leaves = {} /\ (Composites \cup Leaves) \cap Unparsed = {}
  /\ roots \in Seq(Uses)
  /\ {MAX_LOOKUPS, MAX_DEPTH, Tries} \subseteq Nat \ {0} /\ MaxTrouble \in Nat

VARIABLES
  queue,     \* pairs of a use and its depth
  lookups,
  index,     \* what is known of a use: "composite", "leaf", or "missing"
  try,       \* the request under way: the file name asked for and how often it failed
  trouble,   \* history: requests that went wrong
  refused    \* history: the uses whose lookup ended in an exception

lookupVars == <<queue, lookups, index, try, trouble, refused>>

NoRequest == [name |-> "none", failures |-> 0]

LookupTypeOK ==
  /\ \A n \in 1 .. Len(queue) : queue[n] \in Uses \X (0 .. MAX_DEPTH - 1)
  /\ lookups \in 0 .. MAX_LOOKUPS
  /\ DOMAIN index \subseteq Uses /\ \A u \in DOMAIN index : index[u] \in {"composite", "leaf", "missing"}
  /\ try \in [name : {"none", "action.yml", "action.yaml"}, failures : 0 .. Tries - 1]
  /\ trouble \in 0 .. MaxTrouble
  /\ refused \subseteq Uses

LookupInit ==
  /\ queue = LET u == roots IN [n \in 1 .. Len(u) |-> <<u[n], 0>>]
  /\ lookups = 0
  /\ index = [u \in {} |-> "missing"]
  /\ try = NoRequest
  /\ trouble = 0 /\ refused = {}

Use == queue[1][1]
Depth == queue[1][2]

-----------------------------------------------------------------------------
(* One request: _get and _get_with_backoff. *)

\* A response that _get turns into an exception: 429 and the 403 of a rate limit, any other 403,
\* 410, and what else is neither 200 nor 304.  The client tries again for a transport error and
\* a status such as 500 alone, Tries times in all.
Retried(cause) == cause = "transport"
Causes == {"rate_limited", "access_denied", "expired", "transport"}

GivesUp(cause) == ~Retried(cause) \/ try.failures + 1 >= Tries

-----------------------------------------------------------------------------
(* The loop of resolve_actions. *)

\* Nothing is asked of GitHub for what is unrecognised, in the index, or modelled elsewhere.
Skipped == Use \in Unparsed \/ Use \in DOMAIN index \/ Use \in Known

SkipUse ==
  /\ queue # <<>> /\ lookups < MAX_LOOKUPS /\ try = NoRequest
  /\ Skipped
  /\ queue' = Tail(queue)
  /\ UNCHANGED <<lookups, index, try, trouble, refused>>

BeginLookup ==
  /\ queue # <<>> /\ lookups < MAX_LOOKUPS /\ try = NoRequest
  /\ ~Skipped
  /\ lookups' = lookups + 1
  /\ try' = [name |-> "action.yml", failures |-> 0]
  /\ UNCHANGED <<queue, index, trouble, refused>>

\* Mutant of Behind: what a composite uses comes first.
BehindFirst(u, d) ==
  (IF u \in Composites /\ d + 1 < MAX_DEPTH
     THEN [n \in 1 .. Len(nested[u]) |-> <<nested[u][n], d + 1>>] ELSE <<>>) \o Tail(queue)

\* The queue when use u of depth d has been read.
Behind(u, d) ==
  Tail(queue) \o (IF u \in Composites /\ d + 1 < MAX_DEPTH
                    THEN [n \in 1 .. Len(nested[u]) |-> <<nested[u][n], d + 1>>] ELSE <<>>)

\* The manifest is there under one name or the other.
ReadManifest ==
  /\ try # NoRequest
  /\ Use \in Composites \cup Leaves
  /\ index' = [u \in DOMAIN index \cup {Use} |->
                 IF u = Use THEN (IF Use \in Composites THEN "composite" ELSE "leaf") ELSE index[u]]
  /\ queue' = Behind(Use, Depth)
  /\ try' = NoRequest
  /\ UNCHANGED <<lookups, trouble, refused>>

\* 404, a directory, no base64, no UTF-8: fetch_text_file has None, and the other name is next.
NextName ==
  /\ try.name = "action.yml"
  /\ try' = [name |-> "action.yaml", failures |-> 0]
  /\ UNCHANGED <<queue, lookups, index, trouble, refused>>

\* Neither name: looked up and not there.
RecordMissing ==
  /\ try.name = "action.yaml"
  /\ Use \notin Composites \cup Leaves
  /\ index' = [u \in DOMAIN index \cup {Use} |-> IF u = Use THEN "missing" ELSE index[u]]
  /\ queue' = Tail(queue)
  /\ try' = NoRequest
  /\ UNCHANGED <<lookups, trouble, refused>>

RequestFails(cause) ==
  /\ try # NoRequest /\ trouble < MaxTrouble
  /\ trouble' = trouble + 1
  /\ ~GivesUp(cause)
  /\ try' = [try EXCEPT !.failures = @ + 1]
  /\ UNCHANGED <<queue, lookups, index, refused>>

\* Mutant of LookupFails: what could not be read is missing.
LookupFailsMissing(cause) ==
  /\ try # NoRequest /\ trouble < MaxTrouble
  /\ trouble' = trouble + 1
  /\ GivesUp(cause)
  /\ index' = [u \in DOMAIN index \cup {Use} |-> IF u = Use THEN "missing" ELSE index[u]]
  /\ refused' = refused \cup {Use}
  /\ queue' = Tail(queue)
  /\ try' = NoRequest
  /\ UNCHANGED lookups

\* The exception leaves _fetch_manifest, and the use stays unknown.
LookupFails(cause) ==
  /\ try # NoRequest /\ trouble < MaxTrouble
  /\ trouble' = trouble + 1
  /\ GivesUp(cause)
  /\ refused' = refused \cup {Use}
  /\ queue' = Tail(queue)
  /\ try' = NoRequest
  /\ UNCHANGED <<lookups, index>>

LookupNext ==
  \/ SkipUse \/ BeginLookup \/ ReadManifest \/ NextName \/ RecordMissing
  \/ \E cause \in Causes : RequestFails(cause) \/ LookupFails(cause)

LookupSpec == LookupInit /\ [][LookupNext]_lookupVars

\* manifest_steps, as far as it can be told: the steps of a composite, none of another action,
\* and unknown for one that was not read or is not there.
KnownSteps(u) == u \in DOMAIN index /\ index[u] # "missing"

-----------------------------------------------------------------------------
(* Properties. *)

Over == try = NoRequest /\ (queue = <<>> \/ lookups = MAX_LOOKUPS)

\* The uses at distance d or less from a workflow, through composites that are not known.
Reach[d \in 0 .. MAX_DEPTH - 1] ==
  IF d = 0 THEN ToSet(roots)
  ELSE Reach[d - 1] \cup UNION {ToSet(nested[u]) : u \in (Reach[d - 1] \cap Composites) \ Known}

\* When the lookup is over within its budget, every action up to MAX_DEPTH composites deep is in
\* the index, by whatever path it is reached, except those whose request ended in an exception and what
\* only they lead to.  It rests on the breadth-first order: depth is that of the shortest path.
IndexComplete ==
  (Over /\ queue = <<>> /\ refused = {})
    => \A u \in Reach[MAX_DEPTH - 1] \ (Known \cup Unparsed) : u \in DOMAIN index

\* Only an action that is not at GitHub under either name counts as missing: a rate limit, a
\* denial or an error leaves it unknown, and the cache rule declines (the docstring).
MissingIsMissing == \A u \in DOMAIN index : index[u] = "missing" => u \notin Composites \cup Leaves
=============================================================================
