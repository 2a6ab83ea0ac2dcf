----------------------------- MODULE SafeLogging -----------------------------
(***************************************************************************)
(* What a log entry shows: the calls of LoggerService, PiiMaskerService and *)
(* the interceptor that logs every request.  A value of any depth is the    *)
(* set of its leaves, each with the path that leads to it: an element of an *)
(* array is one kind of step, going into an Error another, and a field is a *)
(* step named by what the masker takes its name for (password, token, otp   *)
(* ... are secret, email, firstName ... personal).  So recursion over a     *)
(* value is a map over its leaves.  A text, which is never empty here, is   *)
(* modelled by whether it has an address in it; a Date is a plain text.     *)
(***************************************************************************)
EXTENDS Integers, Sequences, FiniteSetsExt

CONSTANTS Payloads,    \* what clients send
          Responses,   \* what handlers answer
          Details,     \* what calls of the logger give as details
          Objects      \* message objects that have no text for a message

Known == {"secret", "personal"}
PathSteps == Known \cup {"item", "error", "other"}
Leaf == [at : Seq(PathSteps), says : {"null", "plain", "address"}]

ASSUME LoggingAssumption ==
  /\ Payloads \subseteq SUBSET Leaf /\ Responses \subseteq SUBSET Leaf
  /\ Details \subseteq SUBSET Leaf /\ Objects \subseteq SUBSET Leaf

VARIABLES
  call,        \* history: the last call: what it was given
  logged       \* the entry it wrote

loggingVars == <<call, logged>>

Text(says) == {[at |-> <<>>, says |-> says]}
Absent == Text("absent")
Null == Text("null")
Stack == Text("stack")
\* typeof value === 'object', of null too.  The empty object has no leaf.
IsObject(v) == v = Null \/ \A x \in v : x.at # <<>>

NoCall == [by |-> "nobody", form |-> "none", given |-> Absent, third |-> Absent]
NoEntry == [message |-> Absent, details |-> Absent, body |-> Absent, response |-> Absent,
            failure |-> "none"]
LoggingInit == call = NoCall /\ logged = NoEntry
-----------------------------------------------------------------------------
(* PiiMaskerService *)

\* maskString: the addresses in a text.
MaskString(says) == IF says = "address" THEN "masked" ELSE says

MaskText(x) == [x EXCEPT !.says = MaskString(@)]

\* maskPiiValue: String(value), cut; an object's is "[object Object]".
MaskPiiValue == "masked"

\* The field at place k of the path of x, by its name.  All that is inside the field
\* becomes one text.
MaskField(x, k) ==
  IF k = Len(x.at) /\ x.says = "null" THEN x
  ELSE [at |-> SubSeq(x.at, 1, k),
        says |-> IF x.at[k] = "secret" THEN "[REDACTED]" ELSE MaskPiiValue]

KnownFields(x) == {k \in DOMAIN x.at : x.at[k] \in Known}

\* maskDeep: the outermost field with a known name, or else the text.
MaskDeepLeaf(x) ==
  IF KnownFields(x) = {} THEN MaskText(x) ELSE MaskField(x, Min(KnownFields(x)))
MaskDeep(v) == {MaskDeepLeaf(x) : x \in v}
-----------------------------------------------------------------------------
(* LoggerService.  A call is made with a text (message, context, ...), or, in *)
(* the older form, with an object ({message, details}, context, ...), whose   *)
(* message may be missing or an object itself.                                *)

TextForms == {"text", "object"}
LogTexts == {Text("plain"), Text("address")}
LogMessages == [form : TextForms, is : LogTexts] \cup [form : {"untold", "nested"}, is : Objects]

MaskTexts(v) == {MaskText(x) : x \in v}

\* As the value of a field with a name nobody knows.
Inside(v) == {[at |-> <<"other">> \o x.at, says |-> x.says] : x \in v \ Absent}
\* JSON.stringify(message), with the details that the object has.
Json(m, own) == (IF m.form = "nested" THEN Inside(m.is) ELSE m.is) \cup Inside(own)

InfoMessage(m, own) == IF m.form \in TextForms THEN MaskTexts(m.is) ELSE Json(m, own)
WarnOrErrorMessage(m, own) ==
  IF m.form = "nested" THEN m.is
  ELSE MaskTexts(IF m.form = "untold" THEN Json(m, own) ELSE m.is)

Fields(x) == {k \in DOMAIN x.at : x.at[k] # "item"}

\* maskPiiInValue: the elements of arrays, and then the fields of an object, but
\* not of the objects in it; an Error is left as it is.
MaskPiiInLeaf(x) ==
  IF Fields(x) = {} THEN MaskText(x)
  ELSE LET k == Min(Fields(x)) IN IF x.at[k] \in Known THEN MaskField(x, k) ELSE x
MaskPiiInValue(v) == {MaskPiiInLeaf(x) : x \in v}

\* Mutant: the third argument is always a stack.
TextDetailsIfFourth(third, fourth) == fourth
\* (text, context, third, fourth): the third is a stack, which is written as it
\* is, or an object, or null: then it is the details.
TextDetails(third, fourth) == IF IsObject(third) THEN third ELSE fourth
\* ({message, details}, context, third, fourth)
ObjectDetails(own, third, fourth) ==
  IF fourth \notin {Absent, Null} THEN fourth ELSE IF IsObject(third) THEN third ELSE own
WarnOrError(m, own, third, fourth) ==
  IF m.form = "text" THEN TextDetails(third, fourth) ELSE ObjectDetails(own, third, fourth)

\* Details that are null are not written.
Write(level, m, given, third, message, details) ==
  /\ call' = [by |-> level, form |-> m.form, given |-> given, third |-> third]
  /\ logged' = [NoEntry EXCEPT !.message = message,
                               !.details = IF details = Null THEN Absent ELSE MaskPiiInValue(details)]

GivenDetails == Details \cup {Absent, Null}

\* An object has its details in itself: a third argument is not looked at then.
LogInfo ==
  /\ call = NoCall
  /\ \E m \in LogMessages, d \in GivenDetails :
       Write("info", m, d, Absent, InfoMessage(m, IF m.form = "text" THEN Absent ELSE d), d)

\* The details are the object's own, the fourth argument, or an object as the third.
LogWarnOrError ==
  /\ call = NoCall
  /\ \E level \in {"warn", "error"}, m \in LogMessages, d \in GivenDetails,
        third \in {Absent, Stack, Null} :
       \/ /\ m.form # "text"
          /\ Write(level, m, d, third, WarnOrErrorMessage(m, d), WarnOrError(m, d, third, Absent))
       \/ Write(level, m, d, third, WarnOrErrorMessage(m, Absent), WarnOrError(m, Absent, third, d))
       \/ /\ IsObject(d)
          /\ Write(level, m, d, d, WarnOrErrorMessage(m, Absent), WarnOrError(m, Absent, d, Absent))
-----------------------------------------------------------------------------
(* LoggingInterceptor *)

\* Mutant: as deep as the logger itself masks.
SanitizeShallow(v) == MaskPiiInValue(v)
\* sanitizePayload
SanitizePayload(v) == IF v = Text("null") THEN v ELSE MaskDeep(v)

\* The body, the response and the text of an error are sanitized before they become
\* fields of the details, whose names the logger does not know.
LogRequest ==
  /\ call = NoCall
  /\ \E body \in Payloads, response \in Responses :
       /\ call' = [NoCall EXCEPT !.by = "interceptor", !.given = body]
       /\ logged' = [NoEntry EXCEPT !.body = SanitizePayload(body),
                                    !.response = SanitizePayload(response)]

\* Whatever is thrown that is no Error is written as it is.
LogFailure ==
  /\ call = NoCall
  /\ \E body \in Payloads, by \in {"error", "thrown"}, says \in {"plain", "address"} :
       /\ call' = [NoCall EXCEPT !.by = IF by = "error" THEN "interceptor of error"
                                                        ELSE "interceptor of thrown",
                                 !.given = body]
       /\ logged' = [NoEntry EXCEPT !.body = SanitizePayload(body),
                                    !.failure = IF by = "error" THEN MaskString(says) ELSE says]

Written == call # NoCall /\ call' = NoCall /\ logged' = NoEntry

LoggingNext == Written \/ LogInfo \/ LogWarnOrError \/ LogRequest \/ LogFailure

LoggingSpec == LoggingInit /\ [][LoggingNext]_loggingVars
-----------------------------------------------------------------------------
(* Properties *)

LoggingTypeOK ==
  /\ call.by \in {"nobody", "info", "warn", "error", "interceptor",
                 "interceptor of error", "interceptor of thrown"}
  /\ call.form \in TextForms \cup {"none", "untold", "nested"}
  /\ logged.failure \in {"none", "plain", "masked", "address"}

\* A leaf shows an address, or what is inside a secret field.
Shows(x) ==
  \/ x.says = "address"
  \/ \E k \in DOMAIN x.at :
       x.at[k] = "secret" /\ ~(k = Len(x.at) /\ x.says \in {"null", "[REDACTED]"})

\* The outermost thing the leaf is in is an Error or a field with a name nobody knows.
OutOfReach(x) == Fields(x) # {} /\ x.at[Min(Fields(x))] \in {"error", "other"}

\* logger.service.ts:11, "Automatically masks PII in all log calls", where the code does
\* so: no message that is a text, and nothing of a body or an answer however deep it
\* is, shows an address or a secret; nor do a call's own details in a field the masker
\* knows by its name, unless it is an Error's.  The exceptions are the code's own: a
\* message object without a text is written whole, by info with its addresses, by warn
\* and error with its secrets only (and with both when its message is an object), and
\* details are written as they are in an Error, in a field with another name, and in
\* whatever is deeper.  Left out are the stack and the URL, which nobody masks.
NothingKnownIsShown ==
  /\ \A x \in logged.message :
       Shows(x) => \/ call.form = "nested"
                   \/ call.form = "untold" /\ (x.says = "address" => call.by = "info")
  /\ logged.failure = "address" => call.by = "interceptor of thrown"
  /\ \A x \in logged.body \cup logged.response : ~Shows(x)
  /\ \A x \in logged.details : Shows(x) => OutOfReach(x)

\* Details get into the entry by whichever of the three ways a call gives them, unless
\* the third argument is null, which takes their place (logger.service.ts:159 and 211,
\* and 143 and 195).  None come from a call that has none.
DetailsAreWritten ==
  call.by \in {"info", "warn", "error"} =>
    /\ call.given \in {Absent, Null} => logged.details = Absent
    /\ call.given \notin {Absent, Null} /\ call.third # Null => logged.details # Absent

\* An entry has the details it was given, and none that must not be shown.
EntriesAreSafe == NothingKnownIsShown /\ DetailsAreWritten
=============================================================================
