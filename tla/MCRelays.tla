------------------------------ MODULE MCRelays ------------------------------
(***************************************************************************)
(* Servers of connections (ConnServers) and relays behind pseudoterminals  *)
(* (PtyRelay).  A behaviour runs one program of one of the two modules.    *)
(***************************************************************************)
EXTENDS ConnServers, PtyRelay

MCServers == {<<>>, is_echo_sv, is_echo_sv_mod, is_echo_sv_mod2, is_shell_sv, us_xfr_sv,
              us_xfr_sv_mod, us_abs_xfr_sv, echo_server, [echo_server EXCEPT !.limit = 1],
              id_echo_sv}
MCRelayPrograms == {<<>>, script, script_mod_a, script_mod_b, script_ts, script_mod_3, unbuffer,
                    smitty_sv, smitty_sv2, smitty_cl, vi_script}
MCChunks == <<2, 1>>

RelaysInit == ConnInit /\ RelayInit /\ (prog = <<>>) # (rprog = <<>>)

RelaysNext == \/ ConnNext  /\ UNCHANGED relayvars
              \/ RelayNext /\ UNCHANGED connvars

RelaysSpec == /\ RelaysInit /\ [][RelaysNext]_<<connvars, relayvars>>
              /\ ConnFairness /\ RelayFairness

\* The types of the variables of both modules.
RelaysTypeOK == ConnTypeOK /\ RelayTypeOK

\* Clients get their own answers in order, terminals their own output in order.
RelaysSafe == ServersSafe /\ RelaySafe

\* Clients are served and relays end, but for the cases each module names.
RelaysEnd == ClientsServed /\ RelayEnds
=============================================================================
