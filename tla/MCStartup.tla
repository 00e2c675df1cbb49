----------------------------- MODULE MCStartup -----------------------------
(* Startup with the kinds of migration files the repository has: 001, a    *)
(* file of IF NOT EXISTS statements; 002, whose ADD COLUMN comes first;    *)
(* 013, which creates a table and seeds a row; and 014, whose ADD COLUMN   *)
(* comes last.                                                             *)
EXTENDS Startup

MCFiles ==
  << << [op |-> "ensure", obj |-> "connections"] >>,
     << [op |-> "column", obj |-> "enabled"], [op |-> "ensure", obj |-> "presets"] >>,
     << [op |-> "create", obj |-> "search_providers"], [op |-> "insert", obj |-> "web_search"] >>,
     << [op |-> "ensure", obj |-> "regex_presets"], [op |-> "column", obj |-> "regex_preset_id"] >> >>
=============================================================================
