-------------------------- MODULE DatabaseOperations --------------------------
(***************************************************************************)
(* The db.* operations on MariaDB, PostgreSQL, Valkey and the database     *)
(* tools: one client command each, or a few in a row without a             *)
(* transaction around them. The restores are in DbRestore.                 *)
(***************************************************************************)
EXTENDS OperationSteps

-----------------------------------------------------------------------------
(* One client command.                                                     *)

MariaDropCommand == Command(RequestChecks)
MariaDropCodes == BaseCodes
MariaDrop ==
  [command |-> MariaDropCommand, pre |-> <<>>, scope |-> "maria-drop",
   body |-> <<Exec("databaseDropped")>>,
   touches |-> {"mariaDatabase"}, codes |-> MariaDropCodes]

MariaUserDropCommand == Command(RequestChecks)
MariaUserDropCodes == BaseCodes
MariaUserDrop ==
  [command |-> MariaUserDropCommand, pre |-> <<>>, scope |-> "maria-user",
   body |-> <<Exec("userDropped")>>,
   touches |-> {"mariaUser"}, codes |-> MariaUserDropCodes]

PgDropCommand == Command(RequestChecks)
PgDropCodes == BaseCodes
PgDrop ==
  [command |-> PgDropCommand, pre |-> <<>>, scope |-> "pg-drop",
   body |-> <<Exec("databaseDropped")>>,
   touches |-> {"pgDatabase"}, codes |-> PgDropCodes]

PgProvisionCommand == Command(RequestChecks)
PgProvisionCodes == BaseCodes
PgProvision ==
  [command |-> PgProvisionCommand, pre |-> <<>>, scope |-> "pg-provision",
   body |-> <<Exec("databaseCreated")>>,
   touches |-> {"pgDatabase"}, codes |-> PgProvisionCodes]

PgUserCommand == Command(RequestChecks)
PgUserCodes == BaseCodes
PgUser ==
  [command |-> PgUserCommand, pre |-> <<>>, scope |-> "pg-user",
   body |-> <<Exec("roleSet")>>,
   touches |-> {"pgUser"}, codes |-> PgUserCodes]

PgUserDropCommand == Command(RequestChecks)
PgUserDropCodes == BaseCodes
PgUserDrop ==
  [command |-> PgUserDropCommand, pre |-> <<>>, scope |-> "pg-user",
   body |-> <<Exec("roleDropped")>>,
   touches |-> {"pgUser"}, codes |-> PgUserDropCodes]

\* The client sends CREATE DATABASE, CREATE USER and GRANT in one go; a
\* rejected script leaves what it did before the rejection.
DbProvisionCommand == WarningCommand(RequestChecks)
DbProvisionCodes == BaseCodes
DbProvisionScript == Exec("databaseAndUser")
DbProvision ==
  [command |-> DbProvisionCommand, pre |-> <<>>, scope |-> "db-provision",
   body |-> <<DbProvisionScript>>,
   touches |-> {"mariaDatabase", "mariaUser"}, codes |-> DbProvisionCodes]

-----------------------------------------------------------------------------
(* Valkey: the reply of the command is checked after it has run.           *)

Answered(effect) == Also(Exec(effect), {After("MalformedOutput")})
ReplyCodes == Codes({"MalformedOutput"}, "SubprocessFailed") @@ BaseCodes

ValkeyDeleteCommand == Command(RequestChecks)
ValkeyDeleteCodes == ReplyCodes
ValkeyDelete ==
  [command |-> ValkeyDeleteCommand, pre |-> <<>>, scope |-> "valkey-delete",
   body |-> <<Answered("keyDeleted")>>,
   touches |-> {"valkeyKeys"}, codes |-> ValkeyDeleteCodes]

ValkeyFlushCommand == Command(RequestChecks)
ValkeyFlushCodes == ReplyCodes
ValkeyFlush ==
  [command |-> ValkeyFlushCommand, pre |-> <<>>, scope |-> "valkey-flush",
   body |-> <<Answered("databaseEmptied")>>,
   touches |-> {"valkeyKeys"}, codes |-> ValkeyFlushCodes]

ValkeyFlushAllCommand == Command(RequestChecks)
ValkeyFlushAllCodes == ReplyCodes
ValkeyFlushAll ==
  [command |-> ValkeyFlushAllCommand, pre |-> <<>>, scope |-> "valkey-flush-all",
   body |-> <<Answered("allEmptied")>>,
   touches |-> {"valkeyKeys"}, codes |-> ValkeyFlushAllCodes]

\* The four operations on a site's Valkey user. Each has a scope of its own.
ValkeySiteCommand == Command(RequestChecks)
ValkeySiteCodes ==
  Codes({"NotProvisioned", "MissingFrom", "MissingDatabase"}, "InvalidInput")
  @@ Codes({"TargetExists"}, "Conflict") @@ Codes({"Entropy"}, "Internal")
  @@ ReplyCodes

\* empty_database: ACL GETUSER, DBSIZE, FLUSHDB.
EmptyDatabase ==
  <<Also(Ask, {Before("NotProvisioned")}),
    Also(Ask, {Before("MalformedOutput")}),
    Answered("databaseEmptied")>>

ValkeySitePlan(scope, body) ==
  [command |-> ValkeySiteCommand, pre |-> <<>>, scope |-> scope, body |-> body,
   touches |-> {"valkeyUser"}, codes |-> ValkeySiteCodes]

\* The result is encoded after the user exists, and `?` leaves the record
\* in progress.
ValkeySiteProvision ==
  ValkeySitePlan("valkey-site-provision",
    <<Look({"MissingDatabase"}), Look({"Entropy"}), Answered("userSet"),
      Answered("aclSaved"), Step({}, {}, {Unrecorded(Before("Io"))})>>)

ValkeySiteFlush == ValkeySitePlan("valkey-site-flush", EmptyDatabase)

\* A site without a user has nothing to empty: NotProvisioned is no error.
ValkeySiteRevoke ==
  ValkeySitePlan("valkey-site-revoke",
    <<Ask, Optional(Also(Ask, {Before("MalformedOutput")})),
      Optional(Answered("databaseEmptied")), Answered("userDeleted"),
      Answered("aclSaved")>>)

\* Nothing to move when the old domain has no usable user.
ValkeySiteRename ==
  ValkeySitePlan("valkey-site-rename",
    <<Look({"MissingFrom"}), Ask, Unless(Also(Ask, {Before("TargetExists")})),
      Answered("userSet"), Answered("oldUserDeleted"), Answered("aclSaved")>>)

-----------------------------------------------------------------------------
(* The MariaDB slow log.                                                   *)

SlowLogClearCommand == Command(RequestChecks)
SlowLogClearCodes ==
  Codes({"InvalidStatus", "InvalidLogPath"}, "InvalidInput") @@ BaseCodes

\* Logging goes off, the file is truncated, logging goes back on if it was
\* on: it is put back too when the truncation fails, whose error counts.
SlowLogClear ==
  [command |-> SlowLogClearCommand, pre |-> <<>>, scope |-> "maria-slow-log",
   body |-> <<Also(Ask, {Before("InvalidStatus"), Before("InvalidLogPath")}),
              Exec("loggingOff"),
              Undoing(Exec("logTruncated"), {"loggingOff"}),
              Optional(Step({}, {"loggingOff"}, RunFaults))>>,
   touches |-> {"slowLog"}, codes |-> SlowLogClearCodes]

SlowLogSetCommand == Command(RequestChecks)
SlowLogSetCodes == BaseCodes
SlowLogSet ==
  [command |-> SlowLogSetCommand, pre |-> <<>>, scope |-> "maria-slow-log",
   body |-> <<Exec("slowLogSet")>>,
   touches |-> {"slowLog"}, codes |-> SlowLogSetCodes]

-----------------------------------------------------------------------------
(* phpMyAdmin and Adminer containers.                                      *)

DbToolCommand == Command(RequestChecks)
DbToolCodes == BaseCodes

\* start and stop.
DbTool ==
  [command |-> DbToolCommand, pre |-> <<>>, scope |-> "db-tool",
   body |-> <<Exec("toolState")>>, touches |-> {"dbTool"},
   codes |-> DbToolCodes]

\* install: an old container goes, whatever docker says; the new one runs
\* and is connected to the network of the database. When docker refuses
\* either, the new container is removed again; the old one is gone.
DbToolInstallRun ==
  LET Refused(effect) ==
        Step({effect}, {}, {Before("Spawn"), Maybe("Supervise"),
                            Undone(Maybe("Rejected"), {"toolRuns", "connected"})})
  IN <<Step({"oldToolRemoved"}, {}, {Before("Spawn"), Maybe("Supervise")}),
       Refused("toolRuns"), Refused("connected")>>
DbToolInstall == [DbTool EXCEPT !.body = DbToolInstallRun]

DbToolRemoveCommand == Command(RequestChecks)
DbToolRemoveCodes ==
  Codes({"Config"}, "ConfigReloadFailed")
  @@ Codes({"Recovery"}, "ConfigRecoveryFailed") @@ BaseCodes

\* The route is renamed away and the server reloaded without it: both are
\* put back, as well as it goes, when that fails. Then docker rm: refused,
\* the route must come back; not started at all, the route stays away.
DbToolRemoveRun ==
  <<Look({"Io"}),
    Optional(Step({"routeMoved"}, {},
                  {Before("Io"), Undone(After("Config"), {"routeMoved"})})),
    Step({"toolRemoved"}, {},
         {Before("Spawn"), Maybe("Supervise"),
          Restored(Maybe("Rejected"), {"routeMoved"}, "Recovery")})>>
DbToolRemove ==
  [command |-> DbToolRemoveCommand, pre |-> <<>>, scope |-> "db-tool",
   body |-> DbToolRemoveRun, touches |-> {"dbTool", "route"},
   codes |-> DbToolRemoveCodes]

DatabasePlans ==
     ("db.dropMariaDb" :> MariaDrop)
  @@ ("db.dropMariaDbUser" :> MariaUserDrop)
  @@ ("db.dropPostgres" :> PgDrop)
  @@ ("db.provisionPostgres" :> PgProvision)
  @@ ("db.provisionPostgresUser" :> PgUser)
  @@ ("db.dropPostgresUser" :> PgUserDrop)
  @@ ("db.provisionMariaDb" :> DbProvision)
  @@ ("db.deleteValkeyKey" :> ValkeyDelete)
  @@ ("db.flushValkeyDb" :> ValkeyFlush)
  @@ ("db.flushAllValkey" :> ValkeyFlushAll)
  @@ ("db.provisionValkeySite" :> ValkeySiteProvision)
  @@ ("db.flushValkeySite" :> ValkeySiteFlush)
  @@ ("db.revokeValkeySite" :> ValkeySiteRevoke)
  @@ ("db.renameValkeySite" :> ValkeySiteRename)
  @@ ("db.clearMariaSlowLog" :> SlowLogClear)
  @@ ("db.configureMariaSlowLog" :> SlowLogSet)
  @@ ("dbTool.converge" :> DbTool)
  @@ ("dbTool.converge install" :> DbToolInstall)
  @@ ("dbTool.remove" :> DbToolRemove)
==============================================================================
