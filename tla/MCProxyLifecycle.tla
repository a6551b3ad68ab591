-------------------------- MODULE MCProxyLifecycle --------------------------
EXTENDS ProxyLifecycle, TLC

CONSTANTS c1, c2, p1, p2

\* tudy llm off, tudy setup llm-model m, and what the wizard is told.
LLMOff      == <<"LLM_ENABLED", "false">>
NewModel    == <<"MODEL", "m">>
NewProvider == {<<"LLM_API_URL", "another endpoint">>, <<"LLM_API_KEY", "another key">>}
MCChanges   == {LLMOff} \cup NewProvider
MCSettings  == {LLMOff, NewModel}

\* One of the two commands may be any, the other one of the short ones.
MCMay  == (c1 :> {"start", "stop", "restart", "logs", "set", "setup", "update", "uninstall"})
          @@ (c2 :> {"stop", "set"})
MCSets == c1 :> {"start", "stop", "restart", "logs", "set"}

\* The Caddyfile of the repository, of these settings; the one that setup
\* generates has no MODEL.
MCCaddyVars == Settings \ {"CADDY_DATA_DIR"}
=============================================================================
