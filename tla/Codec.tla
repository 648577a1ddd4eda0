-------------------------------- MODULE Codec --------------------------------
(***************************************************************************)
(* naz.codec.GSM7BitCodec.  Of the two character sets there are a few       *)
(* characters: ones whose code in the extension is the code of another      *)
(* character in the basic set, the replacement "?", the escape, and one     *)
(* that is in neither set.                                                  *)
(***************************************************************************)
EXTENDS Integers, Sequences, SeqOps

Escape == 27
Unknown == "unknown"

gsm_basic_charset == {"?", "paren", "e", "grave", "ESC"}
gsm_extension == {"brace", "euro"}              \* every other place of it holds the grave accent
Characters == gsm_basic_charset \cup gsm_extension \cup {Unknown}

Code(c) == CASE c = "?" -> 63 [] c \in {"paren", "brace"} -> 40 [] c \in {"e", "euro"} -> 101
             [] c = "grave" -> 95 [] c = "ESC" -> Escape
BasicAt(code) == CHOOSE c \in gsm_basic_charset : Code(c) = code
ExtensionAt(code) ==
    IF \E c \in gsm_extension : Code(c) = code THEN CHOOSE c \in gsm_extension : Code(c) = code ELSE "grave"

\* _handle_encode_error; "strict", and a handler that is none of the three, raise.
EncodeRaises(text, errors) == Unknown \in Range(text) /\ errors \notin {"ignore", "replace"}
_handle_encode_error(errors) == IF errors = "replace" THEN <<Code("?")>> ELSE <<>>

\* Mutant: the escape is left out.
EncodeCharacter_plain(c, errors) ==
    CASE c \in gsm_basic_charset \cup gsm_extension -> <<Code(c)>>
      [] OTHER -> _handle_encode_error(errors)

EncodeCharacter(c, errors) ==
    CASE c \in gsm_basic_charset -> <<Code(c)>>
      [] c \in gsm_extension -> <<Escape, Code(c)>>
      [] OTHER -> _handle_encode_error(errors)

encode(text, errors) ==
    FlattenSeq([i \in DOMAIN text |-> EncodeCharacter(text[i], errors)])

\* decode, of bytes that encode may return.  After an escape that is the last byte it
\* raises.
Raised == "raised"
decode(bytes) ==
    LET from[i \in 1 .. Len(bytes) + 1] ==
            IF i > Len(bytes) THEN <<>>
            ELSE IF bytes[i] # Escape THEN <<BasicAt(bytes[i])>> \o from[i + 1]
            ELSE IF i = Len(bytes) THEN <<Raised>>
            ELSE <<ExtensionAt(bytes[i + 1])>> \o from[i + 2]
    IN  from[1]

\* What decode makes of an encoded text: unknown characters are gone or are "?".
ReadableCharacter(c, errors) ==
    CASE c # Unknown -> <<c>>
      [] c = Unknown /\ errors = "replace" -> <<"?">>
      [] OTHER -> <<>>
Readable(text, errors) ==
    FlattenSeq([i \in DOMAIN text |-> ReadableCharacter(text[i], errors)])
=============================================================================
