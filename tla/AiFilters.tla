------------------------------ MODULE AiFilters ------------------------------
(***************************************************************************)
(* What goes into a model and what comes out of it:                        *)
(* src/ai/prompt-injection.ts and src/ai/model-armor.ts.                   *)
(***************************************************************************)
EXTENDS Integers, Sequences, SequencesExt

CONSTANTS
  Word,            \* what texts are made of
  Canary,          \* words that may be registered as canaries
  Fingerprint,     \* phrases that may be registered as fingerprints
  BlockOnPii,      \* the option of the constructor
  MaxFingerprints  \* bound: phrases registered

ASSUME ArmorAssumption ==
  /\ BlockOnPii \in BOOLEAN
  /\ MaxFingerprints \in Nat
  /\ \A phrase \in Fingerprint : phrase \in Seq(Word) \ {<<>>}

VARIABLES
  canaryTokens,             \* ModelArmorFilter.canaryTokens
  systemPromptFingerprints  \* the phrases, in the order of registration

armorVars == <<canaryTokens, systemPromptFingerprints>>

-----------------------------------------------------------------------------
(* PromptInjectionDetector.detect: how sure it is that a prompt is an      *)
(* injection, and what it does about it.  A prompt is the rules that match *)
(* it as it stands, with leetspeak undone, rotated by 13, and in what its  *)
(* base64 runs decode to.  Weights are hundredths; what is computed from   *)
(* them is in units of 1/100000, so that nothing is lost before the code   *)
(* rounds.  Abstracted: the regular expressions, and the error of          *)
(* floating-point sums.                                                    *)
Weight ==
  [ignore_instructions |-> 90, system_override |-> 95,
   bypass_safety_guardrails |-> 90, unbound_freedom |-> 85,
   chatml_tokens |-> 95, inst_sys_tokens |-> 90,
   comment_system_spoof |-> 85, raw_role_markers |-> 85,
   authority_impersonation |-> 90, priority_override |-> 90,
   simulated_system_envelope |-> 90, developer_override_authority |-> 90,
   dan_jailbreak |-> 95, developer_mode_jailbreak |-> 90,
   unrestricted_persona |-> 85, hypothetical_evil_bypass |-> 80,
   extract_system_prompt |-> 85, print_internal_rules |-> 90]

Rule == DOMAIN Weight

Prompt == [direct : SUBSET Rule, leetspeak : SUBSET Rule,
           rot13 : SUBSET Rule, base64 : SUBSET Rule]

Detected(p) == p.direct \union p.leetspeak \union p.rot13 \union p.base64 # {}

\* A rule that matches the prompt as it stands is not counted again for what the
\* prompt hides; all that base64 hides counts once.
Matches(p) ==
  ({"direct"} \X p.direct)
    \union ({"leetspeak"} \X (p.leetspeak \ p.direct))
    \union ({"rot13"} \X (p.rot13 \ p.direct))
    \union (IF p.base64 = {} THEN {} ELSE {<<"base64", "any">>})

\* A fault of Strength: what is rotated counts for three quarters.
StrengthLess(match) ==
  CASE match[1] = "direct" -> Weight[match[2]] * 1000
    [] match[1] = "leetspeak" -> Weight[match[2]] * 900
    [] match[1] = "rot13" -> Weight[match[2]] * 750
    [] match[1] = "base64" -> 95000

Strength(match) ==
  CASE match[1] = "direct" -> Weight[match[2]] * 1000
    [] match[1] = "leetspeak" -> Weight[match[2]] * 900
    [] match[1] = "rot13" -> Weight[match[2]] * 850
    [] match[1] = "base64" -> 95000

Rounded(x) == (x + 500) \div 1000

\* The strongest match, and a tenth of the others up to a fifth.
Confidence(p) ==
  IF Detected(p)
    THEN LET strongest == Max({Strength(m) : m \in Matches(p)})
             sum == MapThenSumSet(Strength, Matches(p))
         IN  Rounded(Min({100000,
                          strongest + Min({20000, (sum - strongest) \div 10})}))
    ELSE 0

\* 85 makes the risk CRITICAL instead of HIGH, and no difference to the action.
Action(p) ==
  CASE Confidence(p) >= 65 -> "BLOCK"
    [] Confidence(p) < 65 /\ Detected(p) -> "SANITIZE"
    [] OTHER -> "ALLOW"

-----------------------------------------------------------------------------
(* ModelArmorFilter: what of a model's output may leave.  A text is a      *)
(* sequence of words.  Canaries, credentials, social security numbers and  *)
(* card numbers that pass the Luhn check are words of their own; a system  *)
(* prompt fingerprint is a phrase.  What is redacted becomes the word      *)
(* REDACTED, an output that is blocked the word BLOCKED.  Abstracted: the  *)
(* regular expressions that tell such words, and the case of letters.      *)
PrivateKey == {"private key"}
Credential == {"api key", "database uri"}
Pii == {"ssn", "card"}

REDACTED == "[REDACTED]"
BLOCKED == "[BLOCKED]"

\* Nobody registers what the filter itself writes.
ASSUME MarkersAssumption ==
  /\ {REDACTED, BLOCKED} \subseteq Word
  /\ {REDACTED, BLOCKED} \intersect Canary = {}
  /\ \A phrase \in Fingerprint : {REDACTED, BLOCKED} \intersect ToSet(phrase) = {}

ArmorTypeOK ==
  /\ canaryTokens \subseteq Canary
  /\ systemPromptFingerprints \in Seq(Fingerprint)

ArmorInit == canaryTokens = {} /\ systemPromptFingerprints = <<>>

RegisterCanaryToken(token) ==
  /\ canaryTokens' = canaryTokens \union {token}
  /\ UNCHANGED systemPromptFingerprints

RegisterSystemFingerprint(phrase) ==
  /\ Len(systemPromptFingerprints) < MaxFingerprints
  /\ systemPromptFingerprints' = Append(systemPromptFingerprints, phrase)
  /\ UNCHANGED canaryTokens

ArmorNext ==
  \/ \E token \in Canary : RegisterCanaryToken(token)
  \/ \E phrase \in Fingerprint : RegisterSystemFingerprint(phrase)

-----------------------------------------------------------------------------
\* inspect.

Occurs(phrase, text) == phrase \in SubSeqs(text)

\* A fault of Without: the first occurrence only.
WithoutFirst(text, phrase) == ReplaceFirstSubSeq(<<REDACTED>>, phrase, text)

\* One word more, and the phrase replaced if it ends with it.
ReadOn(phrase, done, word) ==
  LET read == Append(done, word)
  IN  IF IsSuffix(phrase, read)
        THEN Append(SubSeq(read, 1, Len(read) - Len(phrase)), REDACTED)
        ELSE read

\* Every occurrence of the phrase replaced, from left to right.
Without(text, phrase) == FoldLeft(LAMBDA done, word : ReadOn(phrase, done, word), <<>>, text)

\* One phrase after the other; whether one occurs is asked of the output as it
\* came, and it is replaced in what the others have left.
WithoutFingerprints(text) ==
  FoldLeft(LAMBDA left, phrase :
             IF Occurs(phrase, text) THEN Without(left, phrase) ELSE left,
           text, systemPromptFingerprints)

WithoutSecrets(text) ==
  [i \in DOMAIN text |->
     IF text[i] \in PrivateKey \union Credential \union Pii THEN REDACTED ELSE text[i]]

CanaryLeak(text) == \E i \in DOMAIN text : text[i] \in canaryTokens

\* The answer: what is done with the text, and what is delivered of it.
Inspect(text) ==
  LET redacted == WithoutFingerprints(text)
      words == ToSet(redacted)
      blocked == \/ CanaryLeak(text)
                 \/ words \intersect PrivateKey # {}
                 \/ BlockOnPii /\ words \intersect Pii # {}
      sanitized == WithoutSecrets(redacted)
  IN  [action |-> CASE blocked -> "BLOCK"
                    [] ~blocked /\ sanitized # text -> "REDACT"
                    [] OTHER -> "ALLOW",
       delivered |-> IF blocked THEN <<BLOCKED>> ELSE sanitized]

=============================================================================
