----------------------------- MODULE MCServices -----------------------------
(***************************************************************************)
(* The services of the library side by side.  They share no state, so one  *)
(* behaviour follows one of them and leaves the others as they are: what   *)
(* is explored is the sum of their state spaces and not the product.       *)
(***************************************************************************)
EXTENDS HttpClient, Transactions, Connections, Preferences, Plugins, Locale, Schema,
        Directories

VARIABLE service    (* The one that this behaviour follows.                 *)

MCServices == {"http", "transactions", "connections", "prefs", "plugins", "locale",
               "schema", "directories"}

Init ==
  /\ service \in MCServices
  /\ HttpInit /\ TransactionsInit /\ ConnectionsInit /\ SchemaInit
  /\ IF service = "prefs" THEN PrefsInit ELSE PrefsInit /\ ~plugin
  /\ IF service = "plugins" THEN PluginsInit ELSE PluginsInit /\ directory = <<>>
  /\ IF service = "locale" THEN LocaleInit
     ELSE LocaleInit /\ \A p \in Paths, n \in Names : disk[p][n] = Absent
  /\ IF service = "directories" THEN DirectoriesInit
     ELSE DirectoriesInit /\ ~slash /\ made = {}

Others(s) ==
  /\ service = s /\ UNCHANGED service
  /\ s # "http" => UNCHANGED httpVars
  /\ s # "transactions" => UNCHANGED transactionVars
  /\ s # "connections" => UNCHANGED connectionVars
  /\ s # "prefs" => UNCHANGED prefsVars
  /\ s # "plugins" => UNCHANGED pluginVars
  /\ s # "locale" => UNCHANGED localeVars
  /\ s # "schema" => UNCHANGED schemaVars
  /\ s # "directories" => UNCHANGED directoryVars

Next ==
  \/ Others("http") /\ HttpNext
  \/ Others("transactions") /\ TransactionsNext
  \/ Others("connections") /\ ConnectionsNext
  \/ Others("prefs") /\ PrefsNext
  \/ Others("plugins") /\ PluginsNext
  \/ Others("locale") /\ LocaleNext
  \/ Others("schema") /\ SchemaNext
  \/ Others("directories") /\ DirectoriesNext

vars == <<service, httpVars, transactionVars, connectionVars, prefsVars, pluginVars,
          localeVars, schemaVars, directoryVars>>

Spec == Init /\ [][Next]_vars /\ HttpFairness

(* One type invariant for all of them. *)
TypeOK ==
  /\ HttpTypeOK /\ TransactionsTypeOK /\ ConnectionsTypeOK /\ PrefsTypeOK
  /\ PluginsTypeOK /\ LocaleTypeOK /\ SchemaTypeOK /\ DirectoriesTypeOK

=============================================================================
