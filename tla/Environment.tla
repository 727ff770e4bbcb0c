--------------------------- MODULE Environment ---------------------------
(***************************************************************************)
(* The configuration of a service, read from environment variables         *)
(* (internal/testenv/config.go and the Load functions of mongo.go, ldap.go *)
(* and elasticsearch.go).                                                  *)
(*                                                                         *)
(* A variable is named by its suffix: HOST stands for                      *)
(* WEAVE_TESTBED_MYSQL_HOST in the environment of "mysql".  Its text is    *)
(* one of a few that the code tells apart.                                 *)
(***************************************************************************)
EXTENDS Naturals

Services == {"mysql", "postgres", "mongo", "ldap", "elasticsearch"}

\* The variables of a service besides PORT.
Names(s) ==
    CASE s \in {"mysql", "postgres"} -> {"HOST", "DATABASE", "USER", "PASSWORD"}
      [] s = "mongo" -> {"HOST", "DATABASE", "AUTH_SOURCE", "USER", "PASSWORD"}
      [] s = "ldap" -> {"HOST", "BASE_DN", "ADMIN_USER", "ADMIN_PASSWORD"}
      [] s = "elasticsearch" -> {"HOST", "INDEX"}

\* Texts: none (or a variable that is not set), only spaces, the default, and
\* two others, the second of which cannot name an index.
Texts == {"", "  ", "default", "other", "Other"}

\* What the texts a PORT may have are as numbers; "port" and "" are none.
Numeral == [t \in {"0", "1", "65535", "65536", "65537"} |->
               CASE t = "0" -> 0 [] t = "1" -> 1 [] t = "65535" -> 65535
                 [] t = "65536" -> 65536 [] t = "65537" -> 65537]

PortTexts == DOMAIN Numeral \union {"", "port"}

DefaultPort == 33306   \* MySQL's; the others differ in the number only

\* An environment of service s: the text of each of its variables.
Environments(s) == [names : [Names(s) -> Texts], port : PortTexts]

-----------------------------------------------------------------------------

\* environmentValue.
EnvironmentValue(text, fallback) == IF text = "" THEN fallback ELSE text

\* What a config's field gets.  MongoDB authenticates against the configured
\* database unless told otherwise.
Field(env, name) ==
    EnvironmentValue(env.names[name],
        IF name = "AUTH_SOURCE"
        THEN EnvironmentValue(env.names["DATABASE"], "default")
        ELSE "default")

\* A port has 16 bits.
Limit == 65536

\* ParseUint with base 10 and 16 bits: the numbers it accepts.
ParseUint(text) ==
    IF text \in DOMAIN Numeral /\ Numeral[text] < Limit THEN {Numeral[text]} ELSE {}

\* Mutant of EnvironmentPort: a number of any size is converted to uint16.
EnvironmentPortConverted(text) ==
    IF text = "" THEN {DefaultPort}
    ELSE {Numeral[t] % Limit : t \in {text} \intersect DOMAIN Numeral} \ {0}

\* environmentPort: the port, or nothing if it is refused.
EnvironmentPort(text) ==
    IF text = "" THEN {DefaultPort}
    ELSE {n % Limit : n \in ParseUint(text) \ {0}}

\* validElasticsearchIndex.
ValidIndex(text) == text \notin {"", "  ", "Other"}

\* What the validate of every config asks for: no blank field and no zero port.
Complete(s, config) ==
    /\ \A name \in Names(s) : config.names[name] \notin {"", "  "}
    /\ config.port # 0

\* The config's validate, for service s: the base DN and the index must also be
\* such that the fixture can be there.
Validate(s, config) ==
    /\ Complete(s, config)
    /\ s = "ldap" => config.names["BASE_DN"] = "default"
    /\ s = "elasticsearch" => ValidIndex(config.names["INDEX"])

\* LoadSQLConfig, LoadMongoConfig, LoadLDAPConfig and LoadElasticsearchConfig:
\* the config, or nothing if it is refused.
Load(s, env) ==
    {config \in {[names |-> [name \in Names(s) |-> Field(env, name)], port |-> port] :
                    port \in EnvironmentPort(env.port)} : Validate(s, config)}

=============================================================================
