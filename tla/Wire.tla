-------------------------------- MODULE Wire --------------------------------
(***************************************************************************)
(* The messages between adapter and broker, langcheck-core/src/ipc.rs, and *)
(* one exchange of them, langcheck-ipc/src/lib.rs.                         *)
(*                                                                         *)
(* An octet is a pair: what it stands for, and a value.  The four octets   *)
(* of a length are one; a character outside of ASCII is two.               *)
(***************************************************************************)
EXTENDS Words, SequencesExt

CONSTANTS
  MaxFieldLen,     \* MAX_FIELD_LEN
  BufSize          \* BUF_SIZE, the octets of a message that the pipe delivers

ASSUME WireAssumption ==
  /\ MaxFieldLen \in Nat /\ BufSize \in Nat /\ MaxFieldLen + 6 <= BufSize
  /\ Letters \cap {"len", "lead", "tail"} = {}

Boundaries == <<"Space", "Period", "Comma", "Question", "Exclamation", "Colon", "Semicolon">>

EvaluateToken(token, boundary) == [kind |-> "Evaluate", token |-> token, boundary |-> boundary]
Replace(text) == [kind |-> "Replace", replacement |-> text]
Simple == [n \in {"Ping", "Active", "Pong", "Leave"} |-> [kind |-> n]]
Failed(error) == [kind |-> "Error", error |-> error]

Octets(text) ==
  FlattenSeq([i \in DOMAIN text.symbols |->
    IF text.symbols[i] = "non-ascii" THEN <<<<"lead", FALSE>>, <<"tail", FALSE>>>>
    ELSE <<<<text.symbols[i], i \in text.upper>>>>])

ValidUtf8(octets) ==
  \A i \in 1 .. Len(octets) + 1 :
    (i > 1 /\ octets[i - 1][1] = "lead") <=> (i <= Len(octets) /\ octets[i][1] = "tail")

\* A tail belongs to the character before it.
Decoded(chars, octet) == IF octet[1] = "tail" THEN chars ELSE Append(chars, octet)

TextOf(octets) ==
  LET chars == FoldLeft(Decoded, <<>>, octets)
  IN  Text([i \in DOMAIN chars |-> IF chars[i][1] = "lead" THEN "non-ascii" ELSE chars[i][1]],
           {i \in DOMAIN chars : chars[i][2]})

PutString(text) == <<<<"len", Len(Octets(text))>>>> \o Octets(text)

\* take_string: what follows the string is not looked at.
TakeString(rest) ==
  IF rest = <<>> \/ rest[1][1] # "len" THEN Failed("Truncated")
  ELSE LET n == rest[1][2] IN
       IF n > MaxFieldLen THEN Failed("TooLong")
       ELSE IF Len(rest) - 1 < n THEN Failed("Truncated")
       ELSE IF ~ValidUtf8(SubSeq(rest, 2, n + 1)) THEN Failed("BadUtf8")
       ELSE [kind |-> "String", text |-> TextOf(SubSeq(rest, 2, n + 1))]

RequestTags == [Ping |-> 1, Evaluate |-> 2, Active |-> 3]
ResponseTags == [Pong |-> 1, Leave |-> 2, Replace |-> 3]

EncodeRequest(r) ==
  <<<<"tag", RequestTags[r.kind]>>>> \o
    (IF r.kind = "Evaluate"
     THEN <<<<"code", CHOOSE b \in DOMAIN Boundaries : Boundaries[b] = r.boundary>>>>
            \o PutString(r.token)
     ELSE <<>>)

DecodeRequest(octets) ==
  IF octets = <<>> THEN Failed("Empty")
  ELSE CASE octets[1][2] = RequestTags.Ping -> Simple["Ping"]
         [] octets[1][2] = RequestTags.Active -> Simple["Active"]
         [] octets[1][2] = RequestTags.Evaluate ->
              IF Len(octets) < 2 THEN Failed("Truncated")
              ELSE IF octets[2][2] \notin DOMAIN Boundaries THEN Failed("UnknownTag")
              ELSE LET token == TakeString(SubSeq(octets, 3, Len(octets)))
                   IN  IF token.kind = "Error" THEN token
                       ELSE EvaluateToken(token.text, Boundaries[octets[2][2]])
         [] OTHER -> Failed("UnknownTag")

EncodeResponse(r) ==
  <<<<"tag", ResponseTags[r.kind]>>>> \o
    (IF r.kind = "Replace" THEN PutString(r.replacement) ELSE <<>>)

DecodeResponse(octets) ==
  IF octets = <<>> THEN Failed("Empty")
  ELSE CASE octets[1][2] = ResponseTags.Pong -> Simple["Pong"]
         [] octets[1][2] = ResponseTags.Leave -> Simple["Leave"]
         [] octets[1][2] = ResponseTags.Replace ->
              LET string == TakeString(SubSeq(octets, 2, Len(octets)))
              IN  IF string.kind = "Error" THEN string ELSE Replace(string.text)
         [] OTHER -> Failed("UnknownTag")

\* The number of octets on the wire: a length takes four.
Size(octets) == Len(octets) + 3 * Cardinality({i \in DOMAIN octets : octets[i][1] = "len"})

\* PipeServer::exchange: the request as the broker understands it.  A message that is not
\* read whole, or not understood, ends the exchange on both sides.
Delivered(request) ==
  LET sent == EncodeRequest(request)
  IN  IF Size(sent) > BufSize THEN Failed("no answer") ELSE DecodeRequest(sent)

\* request: the response as the client understands it.
Returned(response) ==
  LET answer == EncodeResponse(response)
  IN  IF Size(answer) > BufSize THEN Failed("more data") ELSE DecodeResponse(answer)

=============================================================================
