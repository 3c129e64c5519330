---------------------------- MODULE ToolSchemas ----------------------------
(***************************************************************************)
(* The two ends of a tool's argument schema: the request builders lift it  *)
(* into the subset the provider can sample strictly, the tool loop checks  *)
(* what comes back against the schema the tool declared.                   *)
(*                                                                         *)
(* A schema is [kind, limited, enum, nullable, extra, props, required]:    *)
(* limited stands for a keyword on lengths or ranges (for an array,        *)
(* minItems 1), enum for a list of the strings allowed, extra for          *)
(* additionalProperties, the items of an array are its property "item".    *)
(* The kind "none" is a schema without a type, which has an enum alone.  A *)
(* value is [kind, fits, fields]; fits says whether it respects such a     *)
(* keyword or is in such a list.                                           *)
(***************************************************************************)
EXTENDS Naturals, FiniteSets, SequencesExt

CONSTANTS
  MaxStrictTools,     \* MAX_STRICT_TOOLS
  MaxStrictOptional,  \* MAX_STRICT_OPTIONAL_PARAMS
  OptionalCounts      \* optional parameters a tool of the manifest may have

VARIABLES
  builder,   \* "anthropic" or "openai"
  tool,      \* the tool asked for: its schema, and whether it is projected
  manifest,  \* the tools of the request: [rank, optional, liftable]
  lifted,    \* the schema sent, once built
  strict,    \* it is sampled strictly
  chosen,    \* the tools of the manifest sent as strict
  call,      \* the arguments that came back
  at         \* "build", "sample", "check", "end"

schemaVars == <<builder, tool, manifest, lifted, strict, chosen, call, at>>

NoFields == [k \in {} |-> 0]
Leaf(kind, limited) ==
  [kind |-> kind, limited |-> limited, enum |-> FALSE, nullable |-> FALSE, extra |-> "absent",
   props |-> NoFields, required |-> {}]
Enum(kind) == [Leaf(kind, FALSE) EXCEPT !.enum = TRUE]
Value(kind, fits, fields) == [kind |-> kind, fits |-> fits, fields |-> fields]

Leaves == {Leaf("string", TRUE), Leaf("string", FALSE), Leaf("number", FALSE),
           Enum("string"), Enum("none")}
Arrays == {[Leaf("array", l) EXCEPT !.props = [k \in {"item"} |-> s]] :
             l \in BOOLEAN, s \in {Leaf("string", TRUE), Leaf("number", FALSE)}}
Objects(keys, subs) ==
  UNION {UNION {{[Leaf("object", FALSE) EXCEPT !.extra = e, !.props = p, !.required = r] :
                   e \in {"absent", "closed", "open"}, r \in SUBSET ks} :
                 p \in [ks -> subs]} : ks \in SUBSET keys}
Parameters ==
  Objects({"a", "b"}, Leaves)
    \cup Objects({"a"}, Objects({"b"}, Leaves) \cup Arrays)

Scalars == {Value("null", TRUE, NoFields), Value("string", TRUE, NoFields),
            Value("string", FALSE, NoFields), Value("number", TRUE, NoFields)}
Nested(keys, subs) ==
  UNION {{Value("object", TRUE, f) : f \in [ks -> subs]} : ks \in SUBSET keys}
Lists == {Value("array", FALSE, NoFields)}
           \cup {Value("array", TRUE, [k \in {"item"} |-> v]) : v \in Scalars}
Arguments ==
  Nested({"a", "b"}, Scalars) \cup Nested({"x"}, Scalars)
    \cup Nested({"a"}, Nested({"b"}, Scalars) \cup Lists)
----------------------------------------------------------------------------
\* transformStrict answers null for an open dictionary, at any depth.
RECURSIVE Liftable(_)
Liftable(s) ==
  /\ s.kind = "object" => s.extra # "open"
  /\ \A k \in DOMAIN s.props : Liftable(s.props[k])

\* The limits a provider's strict mode cannot express.
Dropped(s) == s.limited /\ ~(builder = "anthropic" /\ s.kind = "array")

\* Mutants: the required keys are not carried over; every key is made required
\* although nothing may be null.
RECURSIVE LiftOptional(_)
LiftOptional(s) ==
  [s EXCEPT !.limited = FALSE, !.extra = "closed", !.required = {},
     !.props = [k \in DOMAIN s.props |-> LiftOptional(s.props[k])]]
RECURSIVE LiftRequired(_)
LiftRequired(s) ==
  [s EXCEPT !.limited = FALSE, !.extra = "closed", !.required = DOMAIN s.props,
     !.props = [k \in DOMAIN s.props |-> LiftRequired(s.props[k])]]

\* transformStrict: limits are dropped and objects closed; for OpenAI every key
\* is required and what was optional may be null instead (makeNullable): null is
\* added to its type, or beside it if it has none, but not to the list of an enum.
RECURSIVE Lift(_)
Lift(s) ==
  LET subs == [k \in DOMAIN s.props |->
        IF builder = "openai" /\ s.kind = "object" /\ k \notin s.required
        THEN [Lift(s.props[k]) EXCEPT !.nullable = TRUE]
        ELSE Lift(s.props[k])]
  IN [s EXCEPT
        !.limited = @ /\ ~Dropped(s),
        !.extra = IF s.kind = "object" THEN "closed" ELSE @,
        !.props = subs,
        !.required = IF builder = "openai" /\ s.kind = "object"
                     THEN DOMAIN s.props ELSE @]

\* projectedStrictSchemaForCriticalTool: what the tool cannot do without, and the
\* optional parameters its row of the switch keeps.
Projected(t) ==
  [t.schema EXCEPT !.props = [k \in t.schema.required \cup t.kept |-> t.schema.props[k]],
                   !.extra = "closed"]

ToSend(t) == IF t.critical /\ builder = "anthropic" THEN Projected(t) ELSE t.schema

\* Strict selection: the mutating tools first, then manifest order, each taken
\* when the two limits still allow it.
Precedes(i, j) ==
  \/ manifest[i].rank < manifest[j].rank
  \/ manifest[i].rank = manifest[j].rank /\ i < j
Optional(ts) == FoldSet(LAMBDA i, n : n + manifest[i].optional, 0, ts)
Order == SetToSortSeq(DOMAIN manifest, Precedes)
SelectAlong(order) ==
  FoldLeft(LAMBDA taken, i :
             IF /\ manifest[i].liftable
                /\ Cardinality(taken) < MaxStrictTools
                /\ Optional(taken) + manifest[i].optional <= MaxStrictOptional
             THEN taken \cup {i} ELSE taken,
           {}, order)
SelectStrict == SelectAlong(Order)
----------------------------------------------------------------------------
\* What the provider may sample under a strict schema: exactly its values.
RECURSIVE Admits(_, _)
Admits(s, v) ==
  \/ s.nullable /\ ~(s.enum /\ s.kind = "string") /\ v.kind = "null"
  \/ /\ v.kind = (IF s.kind = "none" THEN "string" ELSE s.kind)
     /\ s.limited \/ s.enum => v.fits
     /\ s.required \subseteq DOMAIN v.fields
     /\ s.kind = "object" => DOMAIN v.fields \subseteq DOMAIN s.props
     /\ \A k \in DOMAIN v.fields \cap DOMAIN s.props : Admits(s.props[k], v.fields[k])

\* validateSchema: no error. An enum is not looked at, and without a type nothing
\* is. A key nobody declared passes unless the object is closed; the schema of an
\* open dictionary is one of strings.
RECURSIVE Accepts(_, _)
Accepts(s, v) ==
  /\ s.kind \in {"none", v.kind}
  /\ s.limited => v.fits
  /\ s.required \subseteq DOMAIN v.fields
  /\ \A k \in DOMAIN v.fields \cap DOMAIN s.props : Accepts(s.props[k], v.fields[k])
  /\ \A k \in DOMAIN v.fields \ DOMAIN s.props :
       CASE s.extra = "absent" -> TRUE
         [] s.extra = "closed" -> FALSE
         [] s.extra = "open" -> v.fields[k].kind = "string"

----------------------------------------------------------------------------
SchemaInit ==
  /\ builder \in {"anthropic", "openai"}
  /\ \E s \in Parameters, c \in BOOLEAN : \E k \in SUBSET DOMAIN s.props :
        tool = [schema |-> s, critical |-> c, kept |-> k]
  /\ IF tool.critical THEN tool.schema.required = {"a"} ELSE tool.kept = {}
  /\ manifest = <<>>
  /\ lifted = Leaf("object", FALSE)
  /\ strict = FALSE
  /\ chosen = {}
  /\ call = Value("null", TRUE, NoFields)
  /\ at = "build"

\* Or a request with several tools, of which only the counts matter.
ManifestInit ==
  /\ builder = "anthropic"
  /\ tool = [schema |-> Leaf("object", FALSE), critical |-> FALSE, kept |-> {}]
  /\ manifest \in [1..3 -> [rank : 0..2, optional : OptionalCounts, liftable : BOOLEAN]]
  /\ lifted = Leaf("object", FALSE)
  /\ strict = FALSE
  /\ chosen = {}
  /\ call = Value("null", TRUE, NoFields)
  /\ at = "select"

\* buildRequest for the tool of the call.
Build ==
  /\ at = "build"
  /\ strict' = Liftable(ToSend(tool))
  /\ UNCHANGED <<builder, tool, manifest, chosen, call>>
  /\ lifted' = IF strict' THEN Lift(ToSend(tool)) ELSE tool.schema
  /\ at' = "sample"

\* buildRequest for the manifest.
Select ==
  /\ at = "select"
  /\ chosen' = SelectStrict
  /\ at' = "end"
  /\ UNCHANGED <<builder, tool, manifest, lifted, strict, call>>

\* The model answers: under strict sampling only what the sent schema admits.
Sample(v) ==
  /\ at = "sample"
  /\ strict => Admits(lifted, v)
  /\ call' = v
  /\ at' = "check"
  /\ UNCHANGED <<builder, tool, manifest, lifted, strict, chosen>>

SchemaNext == Build \/ Select \/ \E v \in Arguments : Sample(v)
SchemaSpec == (SchemaInit \/ ManifestInit) /\ [][SchemaNext]_schemaVars
----------------------------------------------------------------------------
RECURSIVE Unlimited(_)
Unlimited(s) ==
  /\ ~Dropped(s)
  /\ \A k \in DOMAIN s.props : Unlimited(s.props[k])

\* A call without the nulls that stand for what the model left out.
RECURSIVE Trimmed(_, _)
Trimmed(s, v) ==
  [v EXCEPT !.fields =
     [k \in {k \in DOMAIN v.fields :
               ~(k \in DOMAIN s.props \ s.required /\ v.fields[k].kind = "null")} |->
        IF k \in DOMAIN s.props THEN Trimmed(s.props[k], v.fields[k]) ELSE v.fields[k]]]

\* A strictly sampled call is one the tool loop accepts, once the nulls of
\* optional keys are taken out and unless it breaks a limit the provider could
\* not be told: nothing else is lost between the two ends.
StrictFits ==
  (at = "check" /\ strict /\ Unlimited(ToSend(tool))) =>
    Accepts(tool.schema, Trimmed(tool.schema, call))

\* A call the tool declares, which the tool loop accepts.
RECURSIVE Declared(_, _)
Declared(s, v) ==
  /\ s.enum => v.kind = "string" /\ v.fits
  /\ s.kind = "object" => DOMAIN v.fields \subseteq DOMAIN s.props
  /\ \A k \in DOMAIN v.fields \cap DOMAIN s.props : Declared(s.props[k], v.fields[k])
Proper(s, v) == Declared(s, v) /\ Accepts(s, v)

\* It can be sampled under the schema that was sent, with null where that schema
\* demands a key the call leaves out.
Reachable(v) == \E w \in Arguments : Trimmed(tool.schema, w) = v /\ Admits(lifted, w)

\* The call leaves out an optional key whose type has an enum.
RECURSIVE OmitsEnum(_, _)
OmitsEnum(s, v) ==
  \/ \E k \in DOMAIN s.props \ (s.required \cup DOMAIN v.fields) :
       s.props[k].enum /\ s.props[k].kind = "string"
  \/ \E k \in DOMAIN s.props \cap DOMAIN v.fields : OmitsEnum(s.props[k], v.fields[k])

\* No call is out of the model's reach but, for OpenAI, those that leave out an
\* optional key whose type has an enum (checkpoint_save without its reason):
\* whatever the tool loop would accept and the tool declares can be sampled (of a
\* projected tool, without its other keys), and those cannot.
NothingExcluded ==
  (at = "sample" /\ strict) =>
    \A v \in Arguments :
      Proper(ToSend(tool), v) =>
        (Reachable(v) <=> ~(builder = "openai" /\ OmitsEnum(tool.schema, v)))

\* What is optional can be left out under the schema that was sent, as the request
\* builder of OpenAI says of its unions with null.
OptionalLeftOut ==
  (at = "sample" /\ strict) =>
    \A v \in Arguments : Proper(ToSend(tool), v) => Reachable(v)

\* The guarantee of strict mode as the adapter states it: what comes back
\* matches the tool's schema (where no limit was dropped).
ArgumentsMatch ==
  (at = "check" /\ strict /\ Unlimited(ToSend(tool))) => Accepts(tool.schema, call)

\* The strict tools keep both limits, and a tool is left out only when it could
\* not be strict at all or does not fit beside the chosen ones before it.
StrictBudget ==
  (at = "end" /\ manifest # <<>>) =>
    /\ Cardinality(chosen) <= MaxStrictTools
    /\ Optional(chosen) <= MaxStrictOptional
    /\ \A i \in DOMAIN manifest \ chosen :
         LET before == {j \in chosen : Precedes(j, i)} IN
         \/ ~manifest[i].liftable
         \/ Cardinality(before) >= MaxStrictTools
         \/ Optional(before) + manifest[i].optional > MaxStrictOptional
============================================================================
