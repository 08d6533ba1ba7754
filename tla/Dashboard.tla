------------------------------- MODULE Dashboard -------------------------------
(***************************************************************************)
(* The parts of the dashboard that keep state of their own and do not      *)
(* touch each other's, side by side.  A behaviour is a behaviour of one of *)
(* them, the others staying as they were installed, so that one run        *)
(* explores the sum of their states and not the product.                   *)
(***************************************************************************)
EXTENDS Upgrades, VoxelShop, UpdateAutomation, StaffRecords, StaffAccess,
        ServerProfiles, Console

VARIABLE part  \* the part whose steps are taken

Parts == {"updates", "account", "downloads", "automation", "records", "access", "profiles", "console"}

dashboardVars == <<part, vars, accountVars, downloadVars, automationVars, recordVars,
                   accessVars, profileVars, consoleVars>>

\* The installations that differ only in a part that takes no step are left out.
DashboardInit ==
    /\ part \in Parts
    /\ Init /\ ShopInit /\ AutomationInit /\ RecordsInit
    /\ AccessInit /\ ProfilesInit /\ ConsoleInit
    /\ part # "updates" => jars = {Paper} \X {1} /\ autoSync = {} /\ ~serverUp
    /\ part # "access" => access.hidden = {}
    /\ part # "profiles" => active = SampleProfile
    /\ part # "console" => process = "none"

DashboardNext ==
    /\ UNCHANGED part
    /\ \/ /\ part = "updates" /\ Next
          /\ UNCHANGED <<accountVars, downloadVars, automationVars, recordVars, accessVars, profileVars, consoleVars>>
       \/ /\ part = "account" /\ AccountNext
          /\ UNCHANGED <<vars, downloadVars, automationVars, recordVars, accessVars, profileVars, consoleVars>>
       \/ /\ part = "downloads" /\ DownloadNext
          /\ UNCHANGED <<vars, accountVars, automationVars, recordVars, accessVars, profileVars, consoleVars>>
       \/ /\ part = "automation" /\ AutomationNext
          /\ UNCHANGED <<vars, accountVars, downloadVars, recordVars, accessVars, profileVars, consoleVars>>
       \/ /\ part = "records" /\ RecordsNext
          /\ UNCHANGED <<vars, accountVars, downloadVars, automationVars, accessVars, profileVars, consoleVars>>
       \/ /\ part = "access" /\ AccessNext
          /\ UNCHANGED <<vars, accountVars, downloadVars, automationVars, recordVars, profileVars, consoleVars>>
       \/ /\ part = "profiles" /\ ProfilesNext
          /\ UNCHANGED <<vars, accountVars, downloadVars, automationVars, recordVars, accessVars, consoleVars>>
       \/ /\ part = "console" /\ ConsoleNext
          /\ UNCHANGED <<vars, accountVars, downloadVars, automationVars, recordVars, accessVars, profileVars>>

DashboardSpec == DashboardInit /\ [][DashboardNext]_dashboardVars

\* Every part's variables have their types (the type invariant of each part is
\* stated beside its variables).
DashboardTypeOK ==
    /\ part \in Parts
    /\ TypeOK /\ ShopTypeOK /\ AutomationTypeOK /\ RecordsTypeOK
    /\ AccessTypeOK /\ ProfilesTypeOK /\ ConsoleTypeOK
================================================================================
