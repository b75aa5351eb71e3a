------------------------------- MODULE Forms -------------------------------
(***************************************************************************)
(* The way of one input from the user to the run settings of a job: a web  *)
(* form cleans it (simpleui), puts storage names in front of locations and *)
(* posts JSON to the REST interface, which validates it again, by another  *)
(* table of validators, and whose result is read as a number wherever that *)
(* is possible (smartconnectorscheduler).  Scripts post JSON directly.     *)
(*                                                                         *)
(* A value has a JSON type, a text or a number, and the storage name that  *)
(* was put in front of it, if any.  Numbers are given by their double, so  *)
(* that 5 is 2.5.  What Python and Django make of a text is tabulated for  *)
(* the texts that matter.                                                  *)
(***************************************************************************)
EXTENDS Integers

CONSTANTS
  Platforms,  \* names of the user's platforms, some of which look like numbers
  None        \* no name

VARIABLES
  kind,     \* subtype of the parameter
  channel,  \* "web" or "rest"
  entry,    \* what the user gave
  storage,  \* the storage chosen in the same form
  value,    \* what has become of the entry
  at        \* how far it is

formVars == <<kind, channel, entry, storage, value, at>>

NumericKinds == {"natural", "whole", "bool"}
ChoiceKinds == {"platform", "choicefield", "mytardis"}
PathKinds == {"input_relative_path", "output_relative_path"}
TextKinds == {"float", "string", "jsondict", "storage_bdpurl"} \cup PathKinds
Kinds == NumericKinds \cup ChoiceKinds \cup TextKinds

-----------------------------------------------------------------------------
\* The texts, and what the libraries say of them.
IntTexts == {"0", "7", "007", " 7 ", "-3"}
FloatTexts == IntTexts \cup {"2.5"}
JsonTexts == {"0", "7", " 7 ", "-3", "2.5", "{}"}
Offered == {"MC", "MCSA"}
Texts == FloatTexts \cup JsonTexts \cup Offered \cup Platforms \cup
         {"", " ", "word", "two words", "sub", " sub", ".", "../up", "/root"}

Double(text) ==
  CASE text = "0" -> 0
    [] text \in {"7", "007", " 7 "} -> 14
    [] text = "-3" -> -6
    [] text = "2.5" -> 5

Strip(text) == CASE text = " " -> "" [] text = " 7 " -> "7"
                 [] text = " sub" -> "sub" [] OTHER -> text

Value(type, text, double, store) ==
  [is |-> type, text |-> text, double |-> double, store |-> store]
Text(text) == Value("text", text, 0, None)
Number(n) == Value("int", "", 2 * n, None)
Real(double) == Value("real", "", double, None)
Truth(b) == Value("bool", "", IF b THEN 2 ELSE 0, None)
Null == Value("null", "", 0, None)
Refused == Value("refused", "", 0, None)

\* Python's int, towards zero.
Truncate(double) == IF double >= 0 THEN double \div 2 ELSE -((-double) \div 2)

CanInt(v) ==
  \/ v.is \in {"int", "real", "bool"}
  \/ v.is = "text" /\ v.store = None /\ v.text \in IntTexts

IntOf(v) == Truncate(IF v.is = "text" THEN Double(v.text) ELSE v.double)

\* What a number is meant to be, by a text or a JSON number.
Meant(v) == IF v.is = "text" THEN Double(v.text) ELSE v.double

-----------------------------------------------------------------------------
(***************************************************************************)
(* Cleaning of a web form: make_dynamic_field chooses the field by the     *)
(* type of the parameter; the validators of simpleui are not asked about   *)
(* an empty value, and what they return is not used.                       *)
(***************************************************************************)
GoodPath(text, optional) ==
  /\ Strip(text) \notin {"../up", "/root"}
  /\ optional \/ Strip(text) \notin {"", "."}

ClientAccepts(text) ==
  CASE kind \in {"natural", "whole"} ->
         text = "" \/ (text \in IntTexts /\ Double(text) >= 0
                                         /\ (kind = "whole" => text # "0"))
    [] kind = "platform" -> text \in Platforms \cup {""}
    [] kind = "choicefield" -> text \in Offered \cup {""}
    [] kind = "mytardis" -> text \in Platforms \cup {""}
    [] kind = "float" -> text \in FloatTexts \cup {""}
    [] kind = "jsondict" -> text \in JsonTexts \cup {""}
    [] kind = "storage_bdpurl" -> text \notin {" ", "two words", "/root"}
    [] kind = "input_relative_path" -> text = "" \/ GoodPath(text, FALSE)
    [] kind = "output_relative_path" -> GoodPath(text, TRUE)
    [] kind \in {"string", "bool"} -> TRUE

Cleaned(text) ==
  IF ~ClientAccepts(text) THEN Refused
  ELSE IF kind = "bool" THEN Truth(text \notin {"", "0"})
  ELSE IF kind \in NumericKinds
  THEN IF text = "" THEN Null ELSE Number(Truncate(Double(text)))
  ELSE Text(text)

\* os.path.join of the storage and a path that is not absolute
StorageInFront(text) ==
  IF storage = "" THEN Text(text) ELSE Value("text", text, 0, storage)

(* submit_job: locations are completed with their storage.                 *)
Located(v) ==
  IF kind \notin PathKinds THEN v
  ELSE IF kind = "output_relative_path" /\ Strip(v.text) \in {"", "."}
       THEN Text(storage)
       ELSE StorageInFront(v.text)

-----------------------------------------------------------------------------
(***************************************************************************)
(* validate_input: the validators of the REST interface, given the names   *)
(* of the platforms of that moment; their result replaces the value.       *)
(***************************************************************************)
First(v) == IF v.store # None THEN v.store ELSE Strip(v.text)

\* Mutant: a blank field is passed on.
NaturalOrBlank(v) ==
  IF v = Null \/ v = Text("") THEN Text("")
  ELSE IF CanInt(v) /\ IntOf(v) >= 0 THEN v ELSE Refused

\* A blank field is taken as zero.
Natural(v) ==
  IF v = Null \/ v = Text("") THEN Number(0)
  ELSE IF CanInt(v) /\ IntOf(v) >= 0 THEN v ELSE Refused

Accepted(v, known) ==
  LET stripped == [v EXCEPT !.text = IF v.store = None THEN Strip(v.text)
                                                       ELSE v.text]
      If(good, result) == IF good THEN result ELSE Refused
  IN
  CASE kind = "natural" -> Natural(v)
    [] kind = "whole" -> If(CanInt(v) /\ IntOf(v) >= 1, v)
    [] kind = "bool" -> If(CanInt(v), Number(IntOf(v)))
    [] kind = "float" ->
         If(v # Null /\ (v.is = "text" => v.text \in FloatTexts), v)
    [] kind \in {"string", "mytardis"} -> v
    [] kind = "jsondict" ->
         If(v.text \in JsonTexts \cup {""},
            IF v.text = "" THEN Text("{}") ELSE v)
    [] kind = "choicefield" -> If(v.text \in Offered, v)
    [] kind \in {"platform", "storage_bdpurl"} ->
         If(First(v) \in known, stripped)
    [] kind = "input_relative_path" ->
         If(v.store # None \/ GoodPath(v.text, FALSE), stripped)
    [] kind = "output_relative_path" ->
         If(v.store # None \/ GoodPath(v.text, TRUE), stripped)

(***************************************************************************)
(* _get_command_actual_args: a number where int accepts the value, no text *)
(* where int finds no number or text at all.                               *)
(***************************************************************************)
\* Mutant: only texts are read as numbers.
TypedTexts(v) == IF CanInt(v) /\ v.is = "text" THEN Number(IntOf(v)) ELSE v

TypedVal(v) == IF CanInt(v) THEN Number(IntOf(v))
               ELSE IF v.is = "text" THEN v ELSE Text("")

-----------------------------------------------------------------------------
\* What a script posts: JSON of any type for numbers, texts otherwise.
RestValues ==
  IF kind \in NumericKinds \cup {"float"}
  THEN {Text(t) : t \in Texts} \cup {Number(n) : n \in -1 .. 1}
         \cup {Real(5), Real(1), Truth(TRUE), Truth(FALSE), Null}
  ELSE {Text(t) : t \in Texts}

FormsInit ==
  /\ kind \in Kinds
  /\ channel \in {"web", "rest"}
  /\ storage \in Platforms \cup {""}
  /\ storage = "" \/ (channel = "web" /\ kind \in PathKinds)
  /\ entry \in IF channel = "web" THEN {Text(t) : t \in Texts} ELSE RestValues
  /\ value = entry
  /\ at = "entered"

Refuse == value' = Refused /\ at' = "refused"

Clean ==
  /\ at = "entered" /\ channel = "web"
  /\ LET cleaned == Cleaned(entry.text)
     IN  IF cleaned = Refused THEN Refuse
         ELSE value' = Located(cleaned) /\ at' = "posted"
  /\ UNCHANGED <<kind, channel, entry, storage>>

PostDirectly ==
  /\ at = "entered" /\ channel = "rest"
  /\ at' = "posted"
  /\ UNCHANGED <<kind, channel, entry, storage, value>>

(* Platforms may have been deleted since the form was shown.  The storage  *)
(* of a location is an input of its own, refused when it is not known.     *)
Validate(known) ==
  /\ at = "posted"
  /\ LET accepted == Accepted(value, known)
         refused == \/ accepted = Refused
                    \/ /\ channel = "web" /\ kind \in PathKinds
                       /\ storage \notin known
     IN  IF refused THEN Refuse ELSE value' = accepted /\ at' = "valid"
  /\ UNCHANGED <<kind, channel, entry, storage>>

Store ==
  /\ at = "valid"
  /\ value' = TypedVal(value)
  /\ at' = "stored"
  /\ UNCHANGED <<kind, channel, entry, storage>>

FormsNext ==
  \/ Clean
  \/ PostDirectly
  \/ \E known \in SUBSET Platforms : Validate(known)
  \/ Store

FormsSpec == FormsInit /\ [][FormsNext]_formVars

-----------------------------------------------------------------------------
FormsTypeOK ==
  /\ kind \in Kinds
  /\ channel \in {"web", "rest"}
  /\ storage \in Platforms \cup {""}
  /\ at \in {"entered", "posted", "valid", "stored", "refused"}
  /\ \A v \in {entry, value} :
       /\ v.is \in {"text", "int", "real", "bool", "null", "refused"}
       /\ v.double \in Int
       /\ v.text \in Texts /\ v.store \in Platforms \cup {None}

(***************************************************************************)
(* Whatever is posted for a numeric parameter and passes, by a form or by  *)
(* a script, is stored as a number that every pass can read back: a row    *)
(* that get_context cannot read would keep its job from ever ending.       *)
(***************************************************************************)
NumericReadable ==
  at = "stored" /\ kind \in NumericKinds => value.is = "int"

(***************************************************************************)
(* A number that passes both tables of validators of the web interface     *)
(* reaches the stages as the number the user typed; only a blank natural   *)
(* number becomes another value, zero.  (A script's 2.5 is stored as 2.)   *)
(***************************************************************************)
NumbersKept ==
  at = "stored" /\ channel = "web" /\ kind \in {"natural", "whole", "float"} =>
    IF entry.text = "" THEN kind = "natural" /\ value = Number(0)
    ELSE Meant(value) = Meant(entry)

=============================================================================
