---------------------------- MODULE PasswordRules ----------------------------
(***************************************************************************)
(* PasswordValidationService: the rules a new password must meet, in the    *)
(* order they are looked at, and the environment variables that switch      *)
(* them.  The alphabet has a character or more of every class the rules     *)
(* tell apart; the bounds of the length and the list of common passwords    *)
(* are constants.                                                           *)
(***************************************************************************)
EXTENDS Integers, Sequences, FiniteSetsExt

CONSTANTS MinLength, MaxLength,
          CommonPasswords,      \* the list, in lower case and without special characters
          TestedPasswords,      \* the passwords given
          TestedEnvs            \* the environments: a value for every rule

Lower == {"a", "b", "c"}
Upper == {"B"}
Numbers == {"1"}
Special == {"!"}
PasswordLetters == Lower \cup Upper \cup Numbers \cup Special
ToLowerCase(p) == [i \in DOMAIN p |-> IF p[i] = "B" THEN "b" ELSE p[i]]

\* PASSWORD_REQUIRE_..., PASSWORD_DISALLOW_... and PASSWORD_BLACKLIST_COMMON.
SwitchedRules == {"lowercase", "uppercase", "numbers", "special", "repeating", "sequential", "common"}
EnvValues == {"unset", "true", "false", "empty"}

ASSUME PasswordAssumption ==
  /\ MinLength \in Nat /\ MaxLength \in Nat
  /\ CommonPasswords \subseteq Seq(Lower \cup Numbers)
  /\ TestedPasswords \subseteq Seq(PasswordLetters)
  /\ TestedEnvs \subseteq [SwitchedRules -> EnvValues]

VARIABLE verdict      \* the last password validated, the environment, the answer

NoVerdict == [password |-> <<>>, env |-> [r \in SwitchedRules |-> "unset"], answer |-> "none"]
PasswordInit == verdict = NoVerdict
-----------------------------------------------------------------------------
\* process.env.X ?? true, then its truth value: every text but the empty one is true.
RuleOn(value) == value # "empty"

Has(password, class) == \E i \in DOMAIN password : password[i] \in class

\* /(.)\1{1,}/ and the runs of three, whichever their case.
Repeats(p) == \E i \in 1 .. (Len(p) - 1) : p[i] = p[i + 1]
Sequential(p) == \E i \in 1 .. (Len(p) - 2) : SubSeq(ToLowerCase(p), i, i + 2) = <<"a", "b", "c">>

\* Mutant: the case is forgotten.
CommonAsTyped(p) == p \in CommonPasswords
Common(p) == ToLowerCase(p) \in CommonPasswords

Breaks(p, rule) ==
  CASE rule = "required"   -> p = <<>>
    [] rule = "minLength"  -> Len(p) < MinLength
    [] rule = "maxLength"  -> Len(p) > MaxLength
    [] rule = "lowercase"  -> ~Has(p, Lower)
    [] rule = "uppercase"  -> ~Has(p, Upper)
    [] rule = "numbers"    -> ~Has(p, Numbers)
    [] rule = "special"    -> ~Has(p, Special)
    [] rule = "repeating"  -> Repeats(p)
    [] rule = "sequential" -> Sequential(p)
    [] rule = "common"     -> Common(p)

\* Mutant: the list of common passwords comes first of the switched rules.
RuleOrderListFirst ==
  <<"required", "minLength", "maxLength", "common", "lowercase", "uppercase", "numbers",
    "special", "repeating", "sequential">>
RuleOrder ==
  <<"required", "minLength", "maxLength", "lowercase", "uppercase", "numbers",
    "special", "repeating", "sequential", "common">>

\* The first rule that is on and broken, if any.
ValidatePassword(p, env) ==
  LET Rejects(rule) == (rule \in SwitchedRules => RuleOn(env[rule])) /\ Breaks(p, rule)
      broken == {i \in DOMAIN RuleOrder : Rejects(RuleOrder[i])}
  IN  IF broken = {} THEN "valid" ELSE RuleOrder[Min(broken)]

Validate ==
  /\ verdict = NoVerdict
  /\ \E p \in TestedPasswords, env \in TestedEnvs :
       verdict' = [password |-> p, env |-> env, answer |-> ValidatePassword(p, env)]
ValidationAnswered == verdict # NoVerdict /\ verdict' = NoVerdict

PasswordNext == Validate \/ ValidationAnswered

PasswordSpec == PasswordInit /\ [][PasswordNext]_verdict
-----------------------------------------------------------------------------
(* Properties *)

PasswordTypeOK ==
  verdict.answer \in {"none", "valid"} \cup {RuleOrder[i] : i \in DOMAIN RuleOrder}

\* .env.example:93: with the rules on, no common password is accepted however its
\* letters are written.
CommonPasswordsAreRefused ==
  verdict.answer = "valid" /\ verdict.env["common"] \in {"unset", "true"}
    => \A c \in CommonPasswords :
         ~(Len(c) = Len(verdict.password) /\ \A i \in DOMAIN c :
              \/ c[i] = verdict.password[i]
              \/ c[i] = "b" /\ verdict.password[i] = "B")

\* The list of common passwords is for policies without special characters: as long
\* as those are required, no password is refused for being on the list, because
\* another rule has refused it before.
CommonListIsLastResort ==
  verdict.answer = "common" => verdict.env["special"] = "empty"

\* The list of common passwords refuses what it should, where no other rule does.
CommonListWorks == CommonPasswordsAreRefused /\ CommonListIsLastResort

\* .env.example:91, "PASSWORD_DISALLOW_REPEATING=false": a rule that is switched off
\* refuses no password.
SwitchedOffRulesStayOff ==
  verdict.answer \in SwitchedRules => verdict.env[verdict.answer] # "false"
=============================================================================
