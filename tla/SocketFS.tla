------------------------------ MODULE SocketFS ------------------------------
(***************************************************************************)
(* pkg/socketfs: the socket directories on the host.  A directory is       *)
(* Absent, or carries the ownership, label and ACLs of the vhost-user      *)
(* configuration applied to it, NoConfig when none was (completely)        *)
(* applied.                                                                *)
(***************************************************************************)
EXTENDS PreparedDevice

CONSTANTS
  Config,    \* vhost-user configurations (VhostUserSpec)
  NoConfig,  \* the nil configuration
  Absent     \* no directory

VARIABLE dirs

Permissions == Config \cup {NoConfig}

SocketFSTypeOK == dirs \in [Dir -> Permissions \cup {Absent}]

SocketFSInit == dirs = [d \in Dir |-> Absent]

(* Mutant: a directory that exists is taken as it is.                      *)
ReuseSocketDir(d, spec) ==
  dirs' = IF dirs[d] = Absent THEN [dirs EXCEPT ![d] = spec] ELSE dirs

(* MkdirAll, Chmod and applyPermissions succeed.  A nil configuration is   *)
(* accepted: applyPermissions returns before it touches the directory.     *)
CreateSocketDir(d, spec) == dirs' = [dirs EXCEPT ![d] = spec]

(* MkdirAll fails, and nothing has happened.                               *)
MkdirFails(d) == UNCHANGED dirs

(* A later step fails and the directory is removed again.                  *)
PermissionsFail(d) == dirs' = [dirs EXCEPT ![d] = Absent]

(* A later step fails and so does the removal, whose error is dropped.     *)
PermissionsFailAndStay(d) == dirs' = [dirs EXCEPT ![d] = NoConfig]

(* os.RemoveAll accepts a directory that is already gone.                  *)
RemoveSocketDir(d) == dirs' = [dirs EXCEPT ![d] = Absent]
=============================================================================
