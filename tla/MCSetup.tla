------------------------------- MODULE MCSetup -------------------------------
(* A small instance of Setup for TLC. *)
EXTENDS Setup

Symmetry == Permutations(Procs)

MCCommaLists ==
  "groups,email" :> <<"groups", "email">> @@ "groups, email" :> <<"groups", " email">>
  @@ "groups,,'x'" :> <<"groups", "", "'x'">>
  @@ "a=1,2" :> <<"a=1", "2">> @@ "a=1,b=2" :> <<"a=1", "b=2">>
\* The quote character is written ' here.
MCCsvLists ==
  "groups,,'x'" :> <<"groups", "", "x">> @@ "'b=2'" :> <<"b=2">> @@ MCCommaLists
MCTrimmed == " email" :> "email"
MCUnquoted == "'b=2'" :> "b=2" @@ "'x'" :> "x" @@ "2'" :> "2"
MCKeyValues ==
  "a=1" :> <<"a", "1">> @@ "b=2" :> <<"b", "2">> @@ "a=1,2" :> <<"a", "1,2">>
  @@ "q=b=2" :> <<"q", "b=2">> @@ "a=1,b=2" :> <<"a", "1,b=2">> @@ "1,b=2" :> <<"1,b", "2">>
  @@ "'b=2'" :> <<"'b", "2'">>

MCUserOf == "ctx1" :> "u1" @@ "ctx2" :> "u2"
MCFirstCommand == "u1" :> "/old" @@ "u2" :> "/up"
MCBaseOf == "/old" :> "kubelogin-daemon-v2" @@ "/new" :> "kubelogin-daemon"
            @@ "/up" :> "kubelogin"

Base == <<Word("get-token"), Eq("oidc-issuer-url", "i"), Bare("oidc-client-id"), Word("c")>>

\* Spellings that differ in which token is a flag's value, in how often a flag
\* is given, and in which fields of the key they reach.
MCUserArgs ==
  { <<Bare("grant-type"), Word("get-token"), Bare("oidc-use-pkce"),
      Eq("oidc-client-id", "d"), Bare("certificate-authority-data"), Word("x")>>
      \o Base
      \o <<Bare("oidc-client-secret"), Bare("s"), Bare("oidc-use-access-token"),
           Eq("oidc-extra-scope", "groups,email"), Bare("oidc-extra-scope"),
           Word("openid"), Eq("oidc-extra-param", "a=1,2")>>,
    Base \o <<Bare("skip-open-browser"), Bare("insecure-skip-tls-verify"),
              Bare("certificate-authority"), Word("ca"),
              Eq("certificate-authority", "ca2"), Bare("tls-renegotiation-freely"),
              Bare("oidc-request-header"), Word("b=2")>>,
    Base \o <<Bare("username"), Word("false"), Eq("oidc-use-access-token", "false"),
              Bare("oidc-redirect-url"), Bare("oidc-use-pkce"),
              Eq("oidc-pkce-method", "S256"), Word("true"),
              Bare("oidc-auth-request-extra-params"), Word("q=b=2")>>,
    \* Read differently by the two parsers.
    Base \o <<Eq("oidc-extra-scope", "groups, email"), Eq("oidc-extra-scope", "groups,,'x'"),
              Eq("oidc-extra-param", "a=1,b=2"), Eq("oidc-request-header", "'b=2'")>> }

Required == [NoConfig EXCEPT !.issuerURL = "i", !.clientID = "c"]
MCFlags ==
  { [Required EXCEPT !.extraScopes = <<"groups", "email">>, !.clientSecret = "s",
                       !.requestHeaders = "a" :> "1,2", !.useAccessToken = TRUE,
                       !.extraParams = "q" :> "b=2" @@ "b" :> "2"] }

=============================================================================
