---------------------------- MODULE MCTokenLife -----------------------------
EXTENDS TokenLife

MCChar == STRING

Q == Quote

Field ==
  [access_token |-> <<Q, "access_token", Q, ":", Q, "to", "ken", Q>>,
   expires_in |-> <<Q, "expires_in", Q, ":", "3", "5">>,
   token_type |-> <<Q, "token_type", Q, ":", Q, "Bearer", Q>>]

Orders == {f \in [1 .. 3 -> DOMAIN Field] :
              \A i, j \in 1 .. 3 : f[i] = f[j] => i = j}

Joined(o, gap) ==
  <<"{">> \o gap \o Field[o[1]] \o <<",">> \o gap \o Field[o[2]] \o <<",">>
    \o gap \o Field[o[3]] \o gap \o <<"}">>

Header ==
  <<"HTTP/1.1", " ", "200", " ", "OK">> \o CRLF
    \o <<"Content-Type", ":", " ", "json", " ", ":">> \o CRLF \o CRLF

(* Compact; laid out on lines; as one chunk, with its size. *)
Bodies ==
  {Joined(o, <<>>) : o \in Orders}
  \cup UNION {{Joined(o, <<"\n", " ">>),
              <<"9f">> \o CRLF \o Joined(o, <<>>) \o CRLF
                \o <<"0">> \o CRLF \o CRLF} :
             o \in {p \in Orders : p[1] = "token_type"}}

MCGrant == [access_token |-> <<"to", "ken">>, expires_in |-> 35]

MCAnswers ==
  {[head |-> Header, body |-> b, grant |-> MCGrant] : b \in Bodies}
  \cup {[head |-> Header, body |-> <<"{", Q, "error", Q, ":", Q, "invalid", Q, "}">>,
         grant |-> Nothing]}

MCRequests ==
  {[line |-> <<"POST", " ", "/token", " ", "HTTP/1.1">>, fields |-> f, body |-> b] :
     f \in {<<>>,
            <<<<<<"Host">>, <<"oauth2">>>>, <<<<"Connection">>, <<"close">>>>>>,
            <<<<<<"Connection">>, <<"close">>>>, <<<<"Host">>, <<>>>>>>},
     b \in {<<>>, <<"a">>, <<"a", ":", " ", "b">> \o CRLF \o CRLF \o <<"c">>}}

(* Years with and without a leap day, about a century without one and one   *)
(* with one; a token is taken a second before the end of any month.         *)
MCYears == (2000 .. 2005) \cup (2099 .. 2101) \cup (2399 .. 2401)

MCFirstDates ==
  {[year |-> y, month |-> m, day |-> DaysIn(y, m), hour |-> HoursPerDay - 1,
    min |-> MinutesPerHour - 1, sec |-> SecondsPerMinute - 1] :
     y \in MCYears, m \in 1 .. 12}
=============================================================================
