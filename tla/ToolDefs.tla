------------------------------ MODULE ToolDefs ------------------------------
(***************************************************************************)
(* What src/internal/detector makes of a tools/list answer: the hash that  *)
(* later scans compare, and the parameters it calls dangerous.             *)
(*                                                                         *)
(* A tool is a record [name, text, schema, other]: text stands for its     *)
(* description and whatever inputSchema holds besides properties; schema   *)
(* is NoSchema or a function from parameter names to property schemas;     *)
(* other is what MCPToolsListResult does not decode (annotations, output   *)
(* schema).  A property schema is Nil (not an object) or [enum, types]:    *)
(* whether a non-empty enum is given, and Untyped or the names listed by   *)
(* type, lower case and trimmed.                                           *)
(***************************************************************************)
EXTENDS Integers, Sequences, FiniteSets, SequencesExt

CONSTANTS
  HighRisk,       \* HighRiskExactTerms: sequences of words, joined by "_"
  Harmless,       \* SafeParameterDenyList, likewise
  CodeQualifier,  \* words that excuse a "code" after them
  NoSchema, Nil, Untyped,
  Unnamed,        \* "unnamed_tool"
  Empty           \* the empty name, and the empty hash

\* The two tables: an exact term of several words has a term among them, and
\* no term is on the deny list.
ASSUME TableAssumption ==
  /\ \A entry \in HighRisk : entry \in Seq(STRING) /\ \E w \in Range(entry) : <<w>> \in HighRisk
  /\ HighRisk \cap Harmless = {}

\* A parameter name: the words between delimiters, the delimiter, and how it
\* is written (capitals, blanks around it).
ParamName == [words : Seq(STRING), sep : STRING, form : STRING]

\* Parameters that a tool's inputSchema declares.
Offered(tool) == IF tool.schema = NoSchema THEN {} ELSE DOMAIN tool.schema

IsTool(tool) == /\ tool.name \in STRING \cup {Empty}
                /\ Offered(tool) \subseteq ParamName /\ IsFiniteSet(Offered(tool))

\* strings.ToLower(strings.TrimSpace(name)): the form is lost.
Norm(name) == [words |-> name.words, sep |-> name.sep]

\* Exact entries of the two tables; a single word needs no delimiter.
ListedIn(table, n) == n.words \in table /\ (Len(n.words) > 1 => n.sep = "_")

\* "code" is a high-risk term, but "status code" is not.
Excused(words, i) ==
  /\ words[i] = "code"
  /\ i > 1
  /\ words[i - 1] \in CodeQualifier

\* Bug: one excused word excuses the whole name.
IsDangerousNameAny(name) ==
  LET n == Norm(name)
  IN /\ ~ ListedIn(Harmless, n)
     /\ \E i \in DOMAIN n.words : <<n.words[i]>> \in HighRisk
     /\ \A i \in DOMAIN n.words : ~ Excused(n.words, i)

\* isDangerousParameterName: the deny list, the exact terms, then each word.
IsDangerousName(name) ==
  LET n == Norm(name)
  IN /\ ~ ListedIn(Harmless, n)
     /\ \/ ListedIn(HighRisk, n)
        \/ \E i \in DOMAIN n.words : /\ <<n.words[i]>> \in HighRisk
                                     /\ ~ Excused(n.words, i)

\* isUnconstrainedString: the type to report, or << >> for a constrained one.
FreeType(prop) ==
  CASE prop = Nil -> <<"any">>
    [] prop # Nil -> IF prop.enum THEN << >>
                     ELSE IF prop.types = Untyped THEN <<"any">>
                     ELSE IF "string" \in Range(prop.types) THEN prop.types
                     ELSE << >>

\* The dangerous parameters of a list: <<number of the tool, name>>.
Flagged(tools) ==
  UNION {{<<k, p>> : p \in {q \in Offered(tools[k]) : /\ IsDangerousName(q)
                                                      /\ FreeType(tools[k].schema[q]) # << >>}} :
           k \in DOMAIN tools}

DangerousParam(tools, at) ==
  LET tool == tools[at[1]]
  IN [tool |-> IF tool.name = Empty THEN Unnamed ELSE tool.name,
      param |-> at[2], type |-> FreeType(tool.schema[at[2]])]

\* extractDangerousParameters: tool by tool, the parameters of each in the
\* order of a map, that is in any order.
ExtractDangerous(tools) ==
  {[i \in DOMAIN walk |-> DangerousParam(tools, walk[i])] :
     walk \in {w \in SetToSeqs(Flagged(tools)) :
                 \A i, j \in DOMAIN w : i < j => w[i][1] <= w[j][1]}}

\* What is decoded of a tool, and so hashed.
Decoded(tool) == [name |-> tool.name, text |-> tool.text, schema |-> tool.schema]

\* Bug: the tools are hashed in the order they came.
ToolHashAsServed(tools) ==
  IF tools = << >> THEN Empty ELSE [i \in DOMAIN tools |-> Decoded(tools[i])]

\* computeToolDefinitionHash.  A list sorted by name alone is told by the rank
\* of each tool among its namesakes, which keep the order they were served in
\* (sort.Slice does that for at most twelve); SHA-256 is taken to be injective.
ToolHash(tools) ==
  IF tools = << >> THEN Empty
  ELSE {<<Decoded(tools[i]), Cardinality({j \in 1 .. i - 1 : tools[j].name = tools[i].name})>> :
          i \in DOMAIN tools}
=============================================================================
