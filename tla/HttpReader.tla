----------------------------- MODULE HttpReader -----------------------------
(***************************************************************************)
(* How an answer becomes a token: HTTP::read (watchdog/http.cpp) splits    *)
(* what the TCP client kept into lines and a body, and                     *)
(* OAuth2::parse_response (watchdog/oauth2.cpp) searches the body for two  *)
(* fields.  The client keeps any contiguous part of an answer: it ends     *)
(* where the connection ended, and starts where the buffer was emptied.    *)
(*                                                                         *)
(* Text is a sequence of symbols; a symbol stands for the characters that  *)
(* no search looks into.  Positions count from 1, and npos is 0.  The      *)
(* version, the status and the reason are set but read by nobody.          *)
(***************************************************************************)
EXTENDS SequencesExt

CONSTANTS
  Char,        \* the symbols
  Answers,     \* what a server may answer: records [head, body, grant]
  Requests,    \* what main sends: records [line, fields, body]
  Nothing      \* std::nullopt

Text == Seq(Char)

Grant == [access_token : Text, expires_in : Nat]

VARIABLES
  origin,   \* the answer or the request that data is from
  data,     \* the argument of read
  pc,       \* "first_line", "fields", "body", "parsed"; "thrown"
  newline,  \* where the latest line ends
  fields, body,   \* of the Response
  result    \* what parse_response returns

readerVars == <<origin, data, pc, newline, fields, body, result>>

npos == 0

Places(text, pattern, from) ==
  {i \in from .. Len(text) - Len(pattern) + 1 :
     SubSeq(text, i, i + Len(pattern) - 1) = pattern}

find(text, pattern, from) ==
  LET places == Places(text, pattern, from)
  IN  IF places = {} THEN npos ELSE Min(places)

CRLF == <<"\r", "\n">>

-----------------------------------------------------------------------------
(* HTTP::write; the order of the fields is any, that of unordered_map. *)
write(r) ==
  r.line \o CRLF
    \o FlattenSeq([i \in DOMAIN r.fields |->
                     r.fields[i][1] \o <<":", " ">> \o r.fields[i][2] \o CRLF])
    \o <<"Content-Length", ":", " ", ToString(Len(r.body))>> \o CRLF \o CRLF
    \o r.body

sent(answer) == answer.head \o answer.body

ReaderInit ==
  /\ \/ /\ origin \in Answers
        /\ \E i \in DOMAIN sent(origin) : \E j \in i .. Len(sent(origin)) :
             data = SubSeq(sent(origin), i, j)
     \/ /\ origin \in Requests
        /\ data = write(origin)
  /\ pc = "first_line"
  /\ newline = npos
  /\ fields = <<>>
  /\ body = <<>>
  /\ result = Nothing

(* The first line needs two blanks, else the response stays empty. *)
read_first_line ==
  /\ pc = "first_line"
  /\ LET end == find(data, CRLF, 1)
         line == SubSeq(data, 1, end - 1)
         s0 == find(line, <<" ">>, 1)
         s1 == find(line, <<" ">>, s0 + 1)
     IN  IF end # npos /\ s0 # npos /\ s1 # npos
         THEN pc' = "fields" /\ newline' = end
         ELSE pc' = "body" /\ UNCHANGED newline
  /\ UNCHANGED <<origin, data, fields, body, result>>

\* Mutant: two characters are skipped after the colon.
value_start_late == 3

value_start == 2

put(map, key, value) ==
  [k \in DOMAIN map \cup {key} |-> IF k = key THEN value ELSE map[k]]

(* One turn of the loop.  substr throws when its start is beyond the end. *)
read_field ==
  /\ pc = "fields"
  /\ \E next_new_line \in {find(data, CRLF, newline + 2)} :
     LET field == SubSeq(data, newline + 2, next_new_line - 1)
         separator == find(field, <<":">>, 1)
         start == separator + value_start
     IN  \/ /\ next_new_line = npos
            /\ pc' = "body"
            /\ UNCHANGED <<newline, fields, body>>
         \/ /\ next_new_line = newline + 2
            /\ body' = SubSeq(data, next_new_line + 2, Len(data))
            /\ pc' = "body"
            /\ UNCHANGED <<newline, fields>>
         \/ /\ next_new_line > newline + 2
            /\ separator = npos
            /\ pc' = "body"
            /\ UNCHANGED <<newline, fields, body>>
         \/ /\ next_new_line > newline + 2
            /\ separator # npos /\ start > Len(field) + 1
            /\ pc' = "thrown"
            /\ UNCHANGED <<newline, fields, body>>
         \/ /\ next_new_line > newline + 2
            /\ separator # npos /\ start <= Len(field) + 1
            /\ fields' = put(fields, SubSeq(field, 1, separator - 1),
                              SubSeq(field, start, Len(field)))
            /\ newline' = next_new_line
            /\ UNCHANGED <<pc, body>>
  /\ UNCHANGED <<origin, data, result>>

-----------------------------------------------------------------------------
keep(kept, c) == IF c \in {" ", "\r", "\n"} THEN kept ELSE Append(kept, c)

clean_whitespace(str) ==
  LET kept[n \in 0 .. Len(str)] ==
        IF n = 0 THEN <<>> ELSE keep(kept[n - 1], str[n])
  IN  kept[Len(str)]

(* Digits up to the first other character; none is 0. *)
Digits == <<"0", "1", "2", "3", "4", "5", "6", "7", "8", "9">>

atoi(str) ==
  LET length == Max({n \in 0 .. Len(str) :
                       \A i \in 1 .. n : str[i] \in ToSet(Digits)})
      value(c) == (CHOOSE i \in DOMAIN Digits : Digits[i] = c) - 1
  IN  FoldLeft(LAMBDA number, c : 10 * number + value(c), 0,
               SubSeq(str, 1, length))

\* Mutant: what has no end is taken up to the end of the text.
to_the_end(response, a, b1, b2) ==
  LET start == find(response, a, 1)
      from == start + Len(a)
      end1 == find(response, b1, from)
      end2 == find(response, b2, from)
      end == IF end1 # npos THEN end1
             ELSE IF end2 # npos THEN end2 ELSE Len(response) + 1
  IN  IF start = npos THEN Nothing ELSE SubSeq(response, from, end - 1)

\* Mutant: b2 is not looked for.
without_b2(response, a, b1, b2) ==
  LET start == find(response, a, 1)
      from == start + Len(a)
      end == find(response, b1, from)
  IN  IF start = npos \/ end = npos THEN Nothing
      ELSE SubSeq(response, from, end - 1)

(* What is between a and b1, or b2 where there is no b1. *)
parse_string_between(response, a, b1, b2) ==
  LET start == find(response, a, 1)
      from == start + Len(a)
      end1 == find(response, b1, from)
      end == IF end1 # npos THEN end1 ELSE find(response, b2, from)
  IN  IF start = npos \/ end = npos THEN Nothing
      ELSE SubSeq(response, from, end - 1)

Quote == "\""
expires_mark == <<Quote, "expires_in", Quote, ":">>
token_mark == <<Quote, "access_token", Quote, ":", Quote>>

parse_response ==
  /\ pc = "body"
  /\ \E cleaned \in {clean_whitespace(body)} :
     \E expires \in {parse_string_between(cleaned, expires_mark,
                                          <<",">>, <<"}">>)},
        access_token \in {parse_string_between(cleaned, token_mark,
                                               <<Quote>>, <<Quote, "}">>)} :
       result' = IF Nothing \in {expires, access_token} THEN Nothing
                 ELSE [access_token |-> access_token,
                       expires_in |-> atoi(expires)]
  /\ pc' = "parsed"
  /\ UNCHANGED <<origin, data, newline, fields, body>>

ReaderNext == read_first_line \/ read_field \/ parse_response

ReaderSpec == ReaderInit /\ [][ReaderNext]_readerVars /\ WF_readerVars(ReaderNext)

-----------------------------------------------------------------------------
(***************************************************************************)
(* What servers answer (external).  The head ends with its first empty     *)
(* line, has two blanks in its first line and a colon before the end of    *)
(* each other line.  Without its white space, the body has each mark at    *)
(* most once, and after it what is granted, up to a delimiter.             *)
(***************************************************************************)
IsHead(head) ==
  LET breaks == Places(head, CRLF, 1)
      last == Len(head) - 3
  IN  /\ {b \in breaks : b + 2 \in breaks} = {last}
      /\ \E s0, s1 \in DOMAIN head :
           /\ s0 < s1 /\ head[s0] = " " /\ head[s1] = " "
           /\ \A b \in breaks : s1 < b
      /\ \A b0 \in breaks : b0 < last => \E c \in DOMAIN head :
           /\ b0 + 2 <= c /\ head[c] = ":"
           /\ \A b \in breaks : b0 < b => c + 1 < b

(* value follows a, ends where b1 or b2 is, and has neither in it. *)
Says(body_text, a, b1, b2, value) ==
  \E start \in DOMAIN body_text :
    LET from == start + Len(a)
        end == from + Len(value)
        ends == Places(body_text, b1, from)
    IN  /\ Places(body_text, a, 1) = {start}
        /\ \/ end \in ends
           \/ ends = {} /\ end \in Places(body_text, b2, from)
        /\ SubSeq(body_text, from, end - 1) = value
        /\ \A i \in ends \cup Places(body_text, b2, from) : i >= end

Grants(str, grant) ==
  IF grant = Nothing
  THEN {} \in {Places(str, expires_mark, 1), Places(str, token_mark, 1)}
  ELSE /\ Says(str, token_mark, <<Quote>>, <<Quote, "}">>, grant.access_token)
       /\ \E i, j \in DOMAIN str : LET number == SubSeq(str, i, j) IN
            /\ Says(str, expires_mark, <<",">>, <<"}">>, number)
            /\ grant.expires_in = atoi(number)

ASSUME CharAssumption ==
  {" ", "\r", "\n", ":", ",", "}", Quote,
   "expires_in", "access_token", "Content-Length"} \subseteq Char

ASSUME AnswersAssumption ==
  /\ Nothing \notin Grant \cup Text
  /\ Answers \subseteq [head : Text, body : Text, grant : Grant \cup {Nothing}]
  /\ \A a \in Answers :
       IsHead(a.head) /\ Grants(clean_whitespace(a.body), a.grant)

(* What main sends has no break in a name or a value, and no colon in a    *)
(* name; the names are the keys of a map.                                  *)
ASSUME RequestsAssumption ==
  /\ Requests \subseteq [line : Text, fields : Seq(Text \X Text), body : Text]
  /\ \A r \in Requests :
    /\ \E s0, s1 \in DOMAIN r.line : s0 < s1 /\ r.line[s0] = " " /\ r.line[s1] = " "
    /\ "\r" \notin ToSet(r.line)
    /\ \A i \in DOMAIN r.fields :
         /\ {":", "\r"} \cap ToSet(r.fields[i][1]) = {}
         /\ "\r" \notin ToSet(r.fields[i][2])
         /\ \A j \in DOMAIN r.fields :
              r.fields[i][1] = r.fields[j][1] => i = j
    /\ ToString(Len(r.body)) \in Char \ {"\r"}

-----------------------------------------------------------------------------
(***************************************************************************)
(* Of any part of an answer, nothing is made but the token that the whole  *)
(* answer grants, with its lifetime: never a cut token or a cut number     *)
(* (oauth2.cpp:14-27, 95-109).                                             *)
(***************************************************************************)
PartNeverMisread ==
  pc = "parsed" /\ origin \in Answers => result \in {Nothing, origin.grant}

(***************************************************************************)
(* A whole answer gives its token, in whatever order its fields are and    *)
(* however it is laid out.                                                 *)
(***************************************************************************)
WholeIsRead ==
  pc = "parsed" /\ origin \in Answers /\ data = sent(origin) =>
    result = origin.grant

(***************************************************************************)
(* Reading ends: the loop over the lines moves on with each turn, and      *)
(* substr is never called with a start beyond its text, for fields that    *)
(* have a blank after their colon (http.cpp:54-75).                        *)
(***************************************************************************)
ReadingEnds == <>(pc = "parsed")

(***************************************************************************)
(* What write has written can be read: the same fields, the length of the  *)
(* body, and the very body, also when it has empty lines                   *)
(* (http.cpp:14-28, 54-75).                                                *)
(***************************************************************************)
WrittenIsRead ==
  pc = "parsed" /\ origin \in Requests =>
    /\ body = origin.body
    /\ fields = put([name \in {f[1] : f \in ToSet(origin.fields)} |->
                       (CHOOSE f \in ToSet(origin.fields) : f[1] = name)[2]],
                    <<"Content-Length">>, <<ToString(Len(origin.body))>>)
=============================================================================
