------------------------------- MODULE ExecArgs -------------------------------
(***************************************************************************)
(* The exec arguments of a kubeconfig entry, and the cache keys computed   *)
(* from them.  Two parsers read the same arguments: kubectl runs get-token *)
(* and its flag library (pflag) parses them; login, check and refresh read *)
(* the entry and parse it with main.go's own parseExecArgs.  The daemon    *)
(* files tokens by cache key, so a login is only useful to kubectl when    *)
(* the two arrive at the same key.                                         *)
(*                                                                         *)
(* An argument is a token: --name=val, a bare --name, or a word.  Names    *)
(* and values are opaque strings.  The constants say what the functions of *)
(* Go's strings and csv packages make of those they change or take apart;  *)
(* any other text is one piece, without an equals sign.                    *)
(***************************************************************************)
EXTENDS Naturals, SequencesExt

CONSTANTS
  CommaLists,   \* a text with commas |-> the pieces between them
  CsvLists,     \* a text with a comma or a quote |-> its CSV fields, <<>> if malformed
  Trimmed,      \* a text with white space at an end |-> the text without it
  Unquoted,     \* a text with a quote at an end |-> the text without it
  KeyValues     \* a text with an equals sign |-> <<key, value>>, split at the first

ASSUME TextsAssumption ==
  /\ DOMAIN CommaLists \subseteq DOMAIN CsvLists
  /\ \A v \in DOMAIN KeyValues : Len(KeyValues[v]) = 2

Eq(name, val) == [name |-> name, eq |-> TRUE, val |-> val]
Bare(name) == [name |-> name, eq |-> FALSE, val |-> ""]
Word(val) == [name |-> "", eq |-> FALSE, val |-> val]

\* What a flag that consumes the token as its value receives.
Text(t) == IF t.name = "" THEN t.val ELSE t.name

\* The flags that reach the cache key, by the type they are registered with.
StringFlags == {"oidc-issuer-url", "oidc-client-id", "oidc-client-secret",
                "username", "oidc-redirect-url", "oidc-pkce-method"}
ListFlags == {"oidc-extra-scope", "certificate-authority",
              "certificate-authority-data"}
ParamFlags == {"oidc-extra-param", "oidc-auth-request-extra-params"}
MapFlags == ParamFlags \cup {"oidc-request-header"}

\* The flags that take no value.  skip-open-browser and force-refresh do not
\* reach the key, and neither does any flag named in no set here.
boolFlags == {"skip-open-browser", "force-refresh", "oidc-use-access-token",
              "oidc-use-pkce", "insecure-skip-tls-verify",
              "tls-renegotiation-once", "tls-renegotiation-freely"}

Map(f, val, default) == IF val \in DOMAIN f THEN f[val] ELSE default
Split(val) == Map(CommaLists, val, <<val>>)
Csv(val) == Map(CsvLists, val, <<val>>)
TrimSpace(val) == Map(Trimmed, val, val)
TrimQuotes(val) == Map(Unquoted, val, val)

KeyOf(val) == IF val \in DOMAIN KeyValues THEN KeyValues[val][1] ELSE val
ValueOf(val) == IF val \in DOMAIN KeyValues THEN KeyValues[val][2] ELSE ""

NoMap == [k \in {} |-> ""]
Put(map, key, val) ==
  [k \in DOMAIN map \cup {key} |-> IF k = key THEN val ELSE map[k]]

\* parsePKCEMethod
parsePKCEMethod(s) == CASE s = "S256" -> "S256" [] s = "" -> "auto" [] OTHER -> "no"

\* The fields of a configuration that enter the key (tokencache.Key).
NoConfig ==
  [issuerURL |-> "", clientID |-> "", clientSecret |-> "", username |-> "",
   redirectURL |-> "", extraScopes |-> <<>>, caCert |-> <<>>,
   caCertData |-> <<>>, extraParams |-> NoMap, requestHeaders |-> NoMap,
   useAccessToken |-> FALSE, skipTLSVerify |-> FALSE,
   renegotiation |-> "never", pkceMethod |-> "auto"]

-----------------------------------------------------------------------------
(* parseExecArgs: first which flag receives which value, then the fields.  *)

Setting(name, val) == [name |-> name, val |-> val]

ToLower(val) == CASE val = "TRUE" -> "true" [] val = "FALSE" -> "false" [] OTHER -> val

\* Mutant: a value that looks like a flag is not consumed.
SettingsSkipDashed(args) ==
  LET n == Len(args)
      from[i \in 1..(n + 2)] ==
        IF i > n THEN <<>>
        ELSE LET a == args[i]
                 plain == i < n /\ args[i + 1].name = ""
             IN IF a.name = "" THEN from[i + 1]
                ELSE IF a.eq THEN <<Setting(a.name, a.val)>> \o from[i + 1]
                ELSE IF a.name \in boolFlags \/ ~plain
                     THEN <<Setting(a.name, "")>> \o from[i + 1]
                ELSE <<Setting(a.name, args[i + 1].val)>> \o from[i + 2]
  IN from[1]

\* The loop over args: words are skipped, --name=val gives val, a bare boolean
\* takes the next token only if it reads true or false, any other bare flag
\* always takes the next token.
Settings(args) ==
  LET n == Len(args)
      from[i \in 1..(n + 2)] ==
        IF i > n THEN <<>>
        ELSE LET a == args[i]
                 next == IF i < n THEN Text(args[i + 1]) ELSE ""
             IN IF a.name = "" THEN from[i + 1]
                ELSE IF a.eq THEN <<Setting(a.name, a.val)>> \o from[i + 1]
                ELSE IF a.name \notin boolFlags
                     THEN <<Setting(a.name, next)>> \o from[i + 2]
                ELSE IF ToLower(next) \in {"true", "false"}
                     THEN <<Setting(a.name, ToLower(next))>> \o from[i + 2]
                ELSE <<Setting(a.name, "")>> \o from[i + 1]
  IN from[1]

\* The items of --oidc-extra-scope, trimmed; empty ones are dropped.
ScopeItems(val) ==
  LET pieces == Split(val)
      items == [i \in DOMAIN pieces |-> TrimSpace(pieces[i])]
  IN SelectSeq(items, LAMBDA s : s # "")

\* The switch on the flag's name.
Assign(cfg, s) ==
  LET on == s.val # "false"
  IN CASE s.name = "oidc-issuer-url" -> [cfg EXCEPT !.issuerURL = s.val]
       [] s.name = "oidc-client-id" -> [cfg EXCEPT !.clientID = s.val]
       [] s.name = "oidc-client-secret" -> [cfg EXCEPT !.clientSecret = s.val]
       [] s.name = "username" -> [cfg EXCEPT !.username = s.val]
       [] s.name = "oidc-redirect-url" -> [cfg EXCEPT !.redirectURL = s.val]
       [] s.name = "oidc-pkce-method" ->
            [cfg EXCEPT !.pkceMethod = parsePKCEMethod(s.val)]
       [] s.name = "oidc-use-pkce" /\ on -> [cfg EXCEPT !.pkceMethod = "S256"]
       [] s.name = "oidc-use-access-token" -> [cfg EXCEPT !.useAccessToken = on]
       [] s.name = "insecure-skip-tls-verify" -> [cfg EXCEPT !.skipTLSVerify = on]
       [] s.name = "tls-renegotiation-once" /\ on ->
            [cfg EXCEPT !.renegotiation = "once"]
       [] s.name = "tls-renegotiation-freely" /\ on ->
            [cfg EXCEPT !.renegotiation = "freely"]
       [] s.name = "oidc-extra-scope" /\ s.val # "" ->
            [cfg EXCEPT !.extraScopes = @ \o ScopeItems(s.val)]
       [] s.name = "certificate-authority" /\ s.val # "" ->
            [cfg EXCEPT !.caCert = Append(@, s.val)]
       [] s.name = "certificate-authority-data" /\ s.val # "" ->
            [cfg EXCEPT !.caCertData = Append(@, s.val)]
       [] s.name \in ParamFlags /\ s.val # "" ->
            [cfg EXCEPT !.extraParams = Put(@, KeyOf(s.val), ValueOf(s.val))]
       [] s.name = "oidc-request-header" /\ s.val # "" ->
            [cfg EXCEPT !.requestHeaders = Put(@, KeyOf(s.val), ValueOf(s.val))]
       [] OTHER -> cfg

parseExecArgs(args) == FoldLeft(Assign, NoConfig, Settings(args))

-----------------------------------------------------------------------------
(* login, check and refresh: the flags given on the command line win over  *)
(* the entry's, and an entry is not consulted when issuer and client are   *)
(* both given.                                                             *)

Or(given, parsed, none) == IF given # none THEN given ELSE parsed

\* `changed` says whether --oidc-use-access-token was on the command line.
resolveFromKubeconfig(f, changed, parsed) ==
  IF f.issuerURL # "" /\ f.clientID # "" THEN f
  ELSE LET noTLS == f.caCert = <<>> /\ f.caCertData = <<>>
       IN [issuerURL |-> Or(f.issuerURL, parsed.issuerURL, ""),
           clientID |-> Or(f.clientID, parsed.clientID, ""),
           clientSecret |-> Or(f.clientSecret, parsed.clientSecret, ""),
           username |-> Or(f.username, parsed.username, ""),
           redirectURL |-> Or(f.redirectURL, parsed.redirectURL, ""),
           pkceMethod |-> Or(f.pkceMethod, parsed.pkceMethod, "auto"),
           extraScopes |-> Or(f.extraScopes, parsed.extraScopes, <<>>),
           extraParams |-> Or(f.extraParams, parsed.extraParams, NoMap),
           requestHeaders |-> Or(f.requestHeaders, parsed.requestHeaders, NoMap),
           useAccessToken |-> IF changed THEN f.useAccessToken
                              ELSE parsed.useAccessToken,
           caCert |-> IF noTLS THEN parsed.caCert ELSE f.caCert,
           caCertData |-> IF noTLS THEN parsed.caCertData ELSE f.caCertData,
           skipTLSVerify |-> IF noTLS THEN parsed.skipTLSVerify
                             ELSE f.skipTLSVerify,
           renegotiation |-> IF noTLS THEN parsed.renegotiation
                             ELSE f.renegotiation]

\* The key is a hash of the fields' gob encoding.  gob writes a map in Go's
\* iteration order, which is any order: with two extra parameters or two
\* request headers a configuration has several checksums.
ComputeChecksum(cfg) ==
  { [cfg EXCEPT !.extraParams = <<p, cfg.extraParams>>,
                !.requestHeaders = <<h, cfg.requestHeaders>>] :
      p \in SetToSeqs(DOMAIN cfg.extraParams),
      h \in SetToSeqs(DOMAIN cfg.requestHeaders) }

validate(cfg) == cfg.issuerURL # "" /\ cfg.clientID # ""

\* buildCacheKey as login, check and refresh without flags reach it.
LoginKeys(args) ==
  ComputeChecksum(resolveFromKubeconfig(NoConfig, FALSE, parseExecArgs(args)))

-----------------------------------------------------------------------------
(* get-token: the flag library parses the arguments into the variables the *)
(* command registered, and the command fills the key from them.            *)

OtherFlags == {"grant-type", "token-cache-dir", "listen-address"}

\* pflag: a bare boolean flag means true and never takes the next token; any
\* other bare flag takes it, and it is an error when there is none.
PflagSettings(args) ==
  LET n == Len(args)
      from[i \in 1..(n + 2)] ==
        IF i > n THEN <<>>
        ELSE LET a == args[i]
             IN IF a.name = "" THEN from[i + 1]
                ELSE IF a.eq THEN <<Setting(a.name, a.val)>> \o from[i + 1]
                ELSE IF a.name \in boolFlags
                     THEN <<Setting(a.name, "true")>> \o from[i + 1]
                ELSE IF i < n
                     THEN <<Setting(a.name, Text(args[i + 1]))>> \o from[i + 2]
                ELSE <<Setting("missing value", a.name)>>
  IN from[1]

PflagTrue == {"true", "TRUE", "1"}
PflagFalse == {"false", "FALSE", "0"}

\* pflag's key=value texts in the value of a map flag.  With a single equals sign
\* that is the value, quotes at its ends removed; with more it is every CSV field.
MoreEquals(val) == ValueOf(val) \in DOMAIN KeyValues
PflagPairs(val) == IF MoreEquals(val) THEN Csv(val) ELSE <<TrimQuotes(val)>>

\* pflag accepts the value for the flag's type, and the flag is registered.
PflagAccepts(s) ==
  \/ s.name \in (StringFlags \cup ListFlags \cup OtherFlags) \ {"oidc-extra-scope"}
  \/ s.name = "oidc-extra-scope" /\ (s.val = "" \/ Csv(s.val) # <<>>)
  \/ s.name \in boolFlags /\ s.val \in PflagTrue \cup PflagFalse
  \/ /\ s.name \in MapFlags /\ s.val \in DOMAIN KeyValues
     /\ PflagPairs(s.val) # <<>>
     /\ Range(PflagPairs(s.val)) \subseteq DOMAIN KeyValues

\* The values the arguments give to a flag, in order.
Given(settings, name) ==
  LET mine == SelectSeq(settings, LAMBDA s : s.name = name)
  IN [i \in DOMAIN mine |-> mine[i].val]
GivenLast(settings, name) ==
  LET vals == Given(settings, name)
  IN IF vals = <<>> THEN "" ELSE vals[Len(vals)]

\* A map flag's first use replaces the variable, its later ones add to it; the
\* two names for extra parameters are two flags that share one variable.
GivenMap(settings, names) ==
  FoldLeft(LAMBDA acc, s :
             IF s.name \notin names THEN acc
             ELSE [used |-> acc.used \cup {s.name},
                   map |-> FoldLeft(LAMBDA m, pair : Put(m, KeyOf(pair), ValueOf(pair)),
                                    IF s.name \in acc.used THEN acc.map ELSE NoMap,
                                    PflagPairs(s.val))],
           [used |-> {}, map |-> NoMap], settings).map

\* getTokenCmd's RunE up to the key.
getTokenConfig(args) ==
  LET s == PflagSettings(args)
      On(name) == GivenLast(s, name) \in PflagTrue
  IN [issuerURL |-> GivenLast(s, "oidc-issuer-url"),
      clientID |-> GivenLast(s, "oidc-client-id"),
      clientSecret |-> GivenLast(s, "oidc-client-secret"),
      username |-> GivenLast(s, "username"),
      redirectURL |-> GivenLast(s, "oidc-redirect-url"),
      extraScopes |-> FoldLeft(LAMBDA acc, v : IF v = "" THEN acc ELSE acc \o Csv(v),
                               <<>>, Given(s, "oidc-extra-scope")),
      caCert |-> Given(s, "certificate-authority"),
      caCertData |-> Given(s, "certificate-authority-data"),
      extraParams |-> GivenMap(s, ParamFlags),
      requestHeaders |-> GivenMap(s, {"oidc-request-header"}),
      useAccessToken |-> On("oidc-use-access-token"),
      skipTLSVerify |-> On("insecure-skip-tls-verify"),
      renegotiation |-> IF On("tls-renegotiation-freely") THEN "freely"
                        ELSE IF On("tls-renegotiation-once") THEN "once"
                        ELSE "never",
      pkceMethod |-> IF On("oidc-use-pkce") THEN "S256"
                     ELSE parsePKCEMethod(GivenLast(s, "oidc-pkce-method"))]

\* The library accepts the arguments and the two required flags are present.
getTokenAccepts(args) ==
  LET s == PflagSettings(args)
  IN /\ \A i \in DOMAIN s : PflagAccepts(s[i])
     /\ Given(s, "oidc-issuer-url") # <<>>
     /\ Given(s, "oidc-client-id") # <<>>

GetTokenKeys(args) == ComputeChecksum(getTokenConfig(args))

-----------------------------------------------------------------------------
(* The spellings for which the two parsers are meant to agree.  Outside    *)
(* them they differ: a boolean followed by the word true or false, a       *)
(* boolean given as TRUE or 0, two flags that decide the same field, both  *)
(* names of the extra parameters; an empty list value, or one with white   *)
(* space around an item, an empty item or quotes; a map value with quotes  *)
(* at an end, or with a second equals sign and a comma or a quote.  And    *)
(* two entries in a map make the key itself ambiguous.                     *)

AtMostOne(settings, names) ==
  Len(SelectSeq(settings, LAMBDA s : s.name \in names)) <= 1

PlainScopes(val) ==
  /\ Csv(val) = Split(val)
  /\ \A item \in Range(Split(val)) : item # "" /\ TrimSpace(item) = item
PlainPair(val) ==
  IF MoreEquals(val) THEN val \notin DOMAIN CsvLists ELSE TrimQuotes(val) = val

PlainArgs(args) ==
  LET s == PflagSettings(args)
  IN /\ \A i \in 1..(Len(args) - 1) :
          args[i].name \in boolFlags /\ ~args[i].eq =>
            ToLower(Text(args[i + 1])) \notin {"true", "false"}
     /\ \A i \in DOMAIN s :
          /\ s[i].name \in boolFlags => s[i].val \in {"true", "false"}
          /\ s[i].name \in ListFlags => s[i].val # ""
          /\ s[i].name = "oidc-extra-scope" => PlainScopes(s[i].val)
          /\ s[i].name \in MapFlags => PlainPair(s[i].val)
     /\ AtMostOne(s, {"tls-renegotiation-once", "tls-renegotiation-freely"})
     /\ AtMostOne(s, {"oidc-use-pkce", "oidc-pkce-method"})
     /\ AtMostOne(s, ParamFlags)
     /\ AtMostOne(s, {"oidc-request-header"})

-----------------------------------------------------------------------------
(* setup install: the flags back into arguments, all as --name=val.        *)

EqIf(name, val) == IF val = "" THEN <<>> ELSE <<Eq(name, val)>>
Each(name, vals) == [i \in DOMAIN vals |-> Eq(name, vals[i])]

\* The text key=value of a map's entry.
Joined(map, key) ==
  CHOOSE v \in DOMAIN KeyValues : KeyValues[v] = <<key, map[key]>>
Entries(name, map, order) ==
  [i \in DOMAIN order |-> Eq(name, Joined(map, order[i]))]

\* What the entry gives back as it was: a scope without a comma or a quote, a
\* parameter or header that is a plain pair.
PlainFlags(f) ==
  /\ Range(f.extraScopes) \cap DOMAIN CsvLists = {}
  /\ \A k \in DOMAIN f.extraParams : PlainPair(Joined(f.extraParams, k))
  /\ \A k \in DOMAIN f.requestHeaders : PlainPair(Joined(f.requestHeaders, k))

\* Mutant: request headers are left out of the entry.
InstallArgsNoHeaders(f, params, headers) ==
  <<Word("get-token"), Eq("oidc-issuer-url", f.issuerURL),
    Eq("oidc-client-id", f.clientID)>>
  \o EqIf("oidc-client-secret", f.clientSecret)
  \o Each("oidc-extra-scope", f.extraScopes)
  \o Entries("oidc-extra-param", f.extraParams, params)
  \o (IF f.useAccessToken THEN <<Bare("oidc-use-access-token")>> ELSE <<>>)

\* The maps are written in iteration order: `params` and `headers`.  The grant
\* type is left out: it is no part of the key.
InstallArgs(f, params, headers) ==
  <<Word("get-token"), Eq("oidc-issuer-url", f.issuerURL),
    Eq("oidc-client-id", f.clientID)>>
  \o EqIf("oidc-client-secret", f.clientSecret)
  \o Each("oidc-extra-scope", f.extraScopes)
  \o Entries("oidc-extra-param", f.extraParams, params)
  \o Entries("oidc-request-header", f.requestHeaders, headers)
  \o EqIf("username", f.username)
  \o (IF f.useAccessToken THEN <<Bare("oidc-use-access-token")>> ELSE <<>>)

=============================================================================
