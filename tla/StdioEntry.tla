----------------------------- MODULE StdioEntry -----------------------------
(***************************************************************************)
(* What src/internal/stdioscanner makes of one entry of a tool's config:   *)
(* the masked text it keeps, the hash over that text, and the process that *)
(* confirms it (mask.go, detector.go, process_match.go).                   *)
(*                                                                         *)
(* Text is a sequence of tokens, the pieces between blanks.  A token is a  *)
(* tuple of words: <<w>>, <<key, "=", w>>, or a masked <<head, "...", tail>>.*)
(* An argument is a record [key, sep, val]: sep is "" for bare text, "="   *)
(* for key=value, ":" for a header "key: value"; val is the sequence of    *)
(* words of the value, more than one when the argument contains blanks.    *)
(***************************************************************************)
EXTENDS Integers, Sequences, FiniteSets, SequencesExt

CONSTANTS
  Word,         \* the words configurations and command lines are made of
  Credential,   \* words with "key", "token", "secret", ... in them
  Entropic,     \* words of high entropy, long names among them, or with a token's prefix
  Secret,       \* words that are credentials, whatever they look like
  Dashed,       \* words, or first three characters of words, that begin with "-"
  Brief,        \* texts, as sequences of words, of at most eight characters
  Tiny,         \* words of at most two characters
  Runner,       \* executables, as texts, that run other programs: node, python, ...
  Base,         \* what follows the last separator of a word that has one
  NoExe,        \* a word that ends in ".exe" without it
  Head3, Tail3  \* a word's first and last three characters

\* What masking and the two argument forms write between words.
Mark == {"******", "...", "=", ":"}

\* What computeStdioConfigHash writes between the parts of its payload.
ArgsPart == <<"|args:">>
EnvPart(env) == <<"|env:", IF env THEN "true" ELSE "false">>

ASSUME WordAssumption ==
  /\ Word \subseteq STRING /\ Word \cap (Mark \cup {"|args:"}) = {}
  /\ Credential \cup Entropic \cup Tiny \cup Secret \subseteq Word
  /\ \A w \in Word : w \in Dashed <=> Head3[w] \in Dashed
  /\ Brief \subseteq Seq(Word)
  /\ \A w \in Tiny : <<w>> \in Brief
  /\ \A w \in Entropic : <<w>> \notin Brief
  /\ Head3 \in [Word -> STRING] /\ Tail3 \in [Word -> STRING]
  /\ \A w \in Word : {Head3[w], Tail3[w]} \cap (Secret \cup {"|args:"}) = {}

\* An argument of the configuration: never empty.
Argument == {a \in [key : Word \cup {""}, sep : {"", "=", ":"}, val : Seq(Word) \ {<< >>}] :
               a.sep = "" <=> a.key = ""}

\* What append and strings.Join make of pieces: one after the other.
Join(pieces) ==
  LET upto[n \in 0 .. Len(pieces)] ==
        IF n = 0 THEN << >> ELSE upto[n - 1] \o pieces[n]
  IN upto[Len(pieces)]

Stars == <<"******">>
NoCommand == [key |-> "", sep |-> "", val |-> << >>]

Words(val) == [i \in DOMAIN val |-> <<val[i]>>]

\* The text of argument a with tokens in place of its value.
Text(a, tokens) ==
  CASE a.sep = ""  -> tokens
    [] a.sep = "=" -> << <<a.key, "=">> \o Head(tokens) >> \o Tail(tokens)
    [] a.sep = ":" -> << <<a.key, ":">> >> \o tokens
-----------------------------------------------------------------------------
(* mask.go *)

MaskValue(words) ==
  IF words \in Brief THEN << Stars >>
  ELSE << <<Head3[words[1]], "...", Tail3[Last(words)]>> >>

HighEntropy(val) == Len(val) = 1 /\ val[1] \in Entropic

\* Bug: only credential keys are masked, not values that look like tokens.
MaskStringByKey(a) ==
  IF a.sep # "" /\ a.key \in Credential
  THEN Text(a, MaskValue(a.val))
  ELSE Text(a, Words(a.val))

\* What hides the value of an argument by itself: its key or its looks.
Hides(a) == \/ a.sep # "" /\ a.key \in Credential
            \/ HighEntropy(a.val)

\* The three shapes: key=value, header, bare token.
MaskString(a) == Text(a, IF Hides(a) THEN MaskValue(a.val) ELSE Words(a.val))

\* The words of the whole argument.
Whole(a) == IF a.sep = "" THEN a.val ELSE <<a.key>> \o a.val

\* isSensitiveKey looks for its terms anywhere in the text of an argument.
NamesCredential(a) == Range(Whole(a)) \cap Credential # {}

\* A flag whose value is the next argument: that whole argument is masked.
FollowsCredential(args, i) ==
  i > 1 /\ NamesCredential(args[i - 1]) /\ Whole(args[i])[1] \notin Dashed

MaskArgs(args) ==
  [i \in DOMAIN args |-> IF FollowsCredential(args, i)
                         THEN MaskValue(Whole(args[i]))
                         ELSE MaskString(args[i])]

\* The masked arguments joined by blanks: where one ends is forgotten.
SummarizeArgs(args) == Join(MaskArgs(args))
-----------------------------------------------------------------------------
(* detector.go, process_match.go *)

\* Bug: the command alone is hashed.
ConfigHashOfCommand(command, summary, env) == command \o <<EnvPart(env)>>

\* computeStdioConfigHash: one text, of which SHA-256 is taken to be injective.
ConfigHash(command, summary, env) ==
  (command \o <<ArgsPart>>) \o (summary \o <<EnvPart(env)>>)

\* What is behind the last of the places of s that have a separator, inclusive.
Behind(s, places) ==
  IF places = {} THEN s ELSE SubSeq(s, Max(places), Len(s))

\* filepath.Base of a token.
BaseToken(tok) ==
  LET b == Behind(tok, {i \in DOMAIN tok : tok[i] \in DOMAIN Base})
  IN IF Head(b) \in DOMAIN Base THEN <<Base[Head(b)]>> \o Tail(b) ELSE b

\* normalizeExecutable takes the base of the whole text, blanks and all: the
\* executable of "npx -y @scope/server" is "server".
Executable(text) ==
  LET b == Behind(text, {i \in DOMAIN text : Range(text[i]) \cap DOMAIN Base # {}})
      name == <<BaseToken(Head(b))>> \o Tail(b)
      word == Last(Last(name))
  IN IF word \in DOMAIN NoExe
     THEN Front(name) \o << Front(Last(name)) \o <<NoExe[word]>> >>
     ELSE name

\* The arguments that can tell one program of a generic runner from another.
Telling(tok) == Head(tok) \notin Dashed /\ tok \notin {<<w>> : w \in Tiny}
KeyTokens(summary) == {BaseToken(tok) : tok \in {u \in Range(summary) : Telling(u)}}

\* Bug: every argument of a generic runner must match, masked ones too.
AlignedByAll(p, command, summary) ==
  LET exe == Executable(command)
  IN /\ p.line # {}
     /\ exe \in p.line \cup p.name
     /\ exe \in Runner => {<<tok>> : tok \in KeyTokens(summary)} \subseteq p.line

\* A process is [pid, name, line]: the texts that occur, as substrings and
\* whatever their capitals, in its name and in its command line.
Aligned(p, command, summary) ==
  LET exe == Executable(command)
  IN /\ p.line # {}
     /\ exe \in p.line \cup p.name
     /\ exe \in Runner => \E tok \in KeyTokens(summary) : <<tok>> \in p.line

\* FindMatch: the PID of the first process that fits, 0 if there is none.
FindMatch(procs, command, summary) ==
  LET fit == {i \in DOMAIN procs : Aligned(procs[i], command, summary)}
  IN IF fit = {} THEN 0 ELSE procs[CHOOSE i \in fit : \A j \in fit : i <= j].pid

\* One DiscoveredServer of tool t for the raw entry e.
Discovered(t, e, procs) ==
  LET command == MaskString(e.command)
      summary == SummarizeArgs(e.args)
      pid     == FindMatch(procs, command, summary)
  IN [tool |-> t, name |-> e.name, command |-> command, summary |-> summary,
      env |-> e.env, hash |-> ConfigHash(command, summary, e.env),
      conf |-> IF pid = 0 THEN "likely" ELSE "confirmed", pid |-> pid]
=============================================================================
