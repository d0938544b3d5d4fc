--------------------------------- MODULE Sse -----------------------------------
(***************************************************************************)
(* The SSE codecs: encode_sse of the Python SDK (sse.py), encodeSse and    *)
(* decodeSse of the TypeScript SDK (ui/sse.ts).  An event is the JSON text *)
(* that is sent, a message the characters on the wire.                     *)
(***************************************************************************)
EXTENDS SequencesExt, FiniteSetsExt, Integers

CONSTANTS Events,   \* the texts an event may have
          Senders,  \* the SDKs that encode: python, typescript
          Cursor,   \* the cursor of a stored event
          NoCursor  \* an event that is not stored

(***************************************************************************)
(* A text consists of                                                      *)
(*   other      characters that no codec treats specially                  *)
(*   newline    a line feed between tokens, after a carriage return or not *)
(*   return     a carriage return between tokens, alone                    *)
(*   separator  U+2028, U+2029 or U+0085 in a string: serializers leave    *)
(*              them as they are, and Python's splitlines() cuts at them   *)
(***************************************************************************)
Characters == {"other", "newline", "return", "separator"}

ASSUME SseAssumption == /\ Events \subseteq Seq(Characters)
                        /\ Senders \subseteq {"python", "typescript"}
                        /\ Cursor \notin {NoCursor, "newline"}

VARIABLES sender,   \* who encodes
          event,    \* the event and its cursor
          wire,     \* what the response holds of it
          received  \* what the client decodes

sseVars == <<sender, event, wire, received>>

Nothing == [text |-> <<"nothing">>, cursor |-> NoCursor]

SseInit == /\ sender \in Senders
           /\ event \in [text : Events, cursor : {Cursor, NoCursor}]
           /\ wire = <<>>
           /\ received = Nothing

\* The lines of a text that goes on with a character.
Continued(lines, char, cuts) ==
    IF char \in cuts THEN Append(lines, <<>>)
                     ELSE Append(Front(lines), Append(Last(lines), char))

\* The pieces of a text between the characters of a set.
Split(text, cuts) ==
    LET lines[n \in 0..Len(text)] ==
            IF n = 0 THEN <<<<>>>> ELSE Continued(lines[n - 1], text[n], cuts)
    IN  lines[Len(text)]

\* splitlines(): no empty line after the last break; an empty text is one line.
PythonLines(text) ==
    LET lines == Split(text, {"newline", "return", "separator"})
    IN  IF Len(lines) > 1 /\ Last(lines) = <<>> THEN Front(lines) ELSE lines

\* Mutant of TypeScriptLines: the text goes on one line.
TypeScriptLine(text) == <<text>>
\* split(/\r?\n/)
TypeScriptLines(text) == Split(text, {"newline"})

Lines(text) == IF sender = "python" THEN PythonLines(text) ELSE TypeScriptLines(text)

\* An id line if there is one, and the data lines.
Rows == (IF event.cursor = NoCursor THEN <<>> ELSE << <<"id:", event.cursor>> >>)
        \o [i \in DOMAIN Lines(event.text) |-> <<"data:">> \o Lines(event.text)[i]]

\* A blank line ends the message.
Encode ==
    /\ wire = <<>>
    /\ wire' = FlattenSeq([i \in DOMAIN Rows |-> Append(Rows[i], "newline")]) \o <<"newline">>
    /\ UNCHANGED <<sender, event, received>>

\* A client takes the response up to a blank line for one message.
Message == LET lines == Split(wire, {"newline"})
           IN  SubSeq(lines, 1, Min({i \in DOMAIN lines : lines[i] = <<>>}) - 1)

\* The lines of a message that have a field's name.
Field(message, name) ==
    FlattenSeq([i \in DOMAIN message |-> IF Head(message[i]) = name THEN <<message[i]>> ELSE <<>>])

\* A line feed takes the carriage return before it along.
Value(line) == LET rest == Tail(line)
               IN  IF rest # <<>> /\ Last(rest) = "return" THEN Front(rest) ELSE rest

\* data.join("\n")
Payload(data) == FlattenSeq([i \in DOMAIN data |->
                               (IF i = 1 THEN <<>> ELSE <<"newline">>) \o Value(data[i])])

Decode ==
    /\ wire # <<>> /\ received = Nothing
    /\ LET id == Field(Message, "id:")
       IN  received' = [text |-> Payload(Field(Message, "data:")),
                        cursor |-> IF id = <<>> THEN NoCursor ELSE Last(id)[2]]
    /\ UNCHANGED <<sender, event, wire>>

SseStep == Encode \/ Decode

--------------------------------------------------------------------------------

\* Two JSON texts have the same value if they differ in the breaks between tokens.
Tokens(text) ==
    FlattenSeq([i \in DOMAIN text |-> IF text[i] \in {"newline", "return"} THEN <<>> ELSE <<text[i]>>])
SameValue(text, other) == Tokens(text) = Tokens(other)

\* The client decodes the event that was sent, with its cursor, as one message
\* (spec/sse.md).
EventArrives ==
    received # Nothing => received.cursor = event.cursor /\ SameValue(received.text, event.text)

\* The same, except that Python cuts strings at characters JSON allows in them.
EventArrivesUnlessCut ==
    received # Nothing /\ ~(sender = "python" /\ Contains(event.text, "separator")) =>
        received.cursor = event.cursor /\ SameValue(received.text, event.text)
================================================================================
