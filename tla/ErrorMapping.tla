---------------------------- MODULE ErrorMapping ----------------------------
(***************************************************************************)
(* How an error travels from the service that meets it to the HTTP status  *)
(* of the app's response.  Each server turns its core errors into gRPC     *)
(* codes (grpcError), each client turns codes into the core errors of its  *)
(* own service (mapGRPCError), and the app turns those into a status.      *)
(* Every other error ("dbError", "io", ...) takes the default branches.    *)
(***************************************************************************)

\* Mutant: InvalidArgument by default.
RepositoryCodeBlamesCaller(err) ==
  CASE err = "ErrNotFound" -> "NotFound"
    [] err = "ErrInvalidStatus" -> "FailedPrecondition"
    [] err = "ErrUnavailable" -> "Unavailable"
    [] OTHER -> "InvalidArgument"

RepositoryCode(err) ==
  CASE err = "ErrBadArguments" -> "InvalidArgument"
    [] err = "ErrNotFound" -> "NotFound"
    [] err = "ErrInvalidStatus" -> "FailedPrecondition"
    [] err = "ErrUnavailable" -> "Unavailable"
    [] OTHER -> "Internal"

ParserCode(err) ==
  CASE err \in {"ErrBadArguments", "ErrUnsupportedFormat", "ErrParse"} -> "InvalidArgument"
    [] err = "ErrNotFound" -> "NotFound"
    [] OTHER -> "Internal"

\* Mutant: ErrLogNotParsed takes the default branch.
TopologyCodeForgets(err) ==
  CASE err = "ErrBadArguments" -> "InvalidArgument"
    [] err = "ErrNotFound" -> "NotFound"
    [] err = "ErrUnavailable" -> "Unavailable"
    [] OTHER -> "Internal"

TopologyCode(err) ==
  CASE err = "ErrBadArguments" -> "InvalidArgument"
    [] err = "ErrNotFound" -> "NotFound"
    [] err = "ErrLogNotParsed" -> "FailedPrecondition"
    [] err = "ErrUnavailable" -> "Unavailable"
    [] OTHER -> "Internal"

\* What grpc-go itself reports to a client whose call got no answer.
TransportCodes == {"Unavailable", "DeadlineExceeded", "Canceled"}

\* The app's repository client.
FromRepository(code) ==
  CASE code = "InvalidArgument" -> "ErrBadArguments"
    [] code = "NotFound" -> "ErrNotFound"
    [] code \in {"FailedPrecondition", "Aborted", "AlreadyExists"} -> "ErrConflict"
    [] code \in TransportCodes -> "ErrUnavailable"
    [] OTHER -> "other"

\* The app's parser client.
FromParser(code) ==
  CASE code = "InvalidArgument" -> "ErrBadArguments"
    [] code = "NotFound" -> "ErrNotFound"
    [] code \in TransportCodes -> "ErrUnavailable"
    [] OTHER -> "other"

\* The app's topology client.
FromTopology(code) ==
  CASE code = "InvalidArgument" -> "ErrBadArguments"
    [] code = "NotFound" -> "ErrNotFound"
    [] code = "FailedPrecondition" -> "ErrConflict"
    [] code \in TransportCodes -> "ErrUnavailable"
    [] OTHER -> "other"

\* The topology service's repository client.
TopologyFromRepository(code) ==
  CASE code = "InvalidArgument" -> "ErrBadArguments"
    [] code = "NotFound" -> "ErrNotFound"
    [] code = "FailedPrecondition" -> "ErrLogNotParsed"
    [] code \in TransportCodes -> "ErrUnavailable"
    [] OTHER -> "other"

HttpStatus(err) ==
  CASE err = "ErrBadArguments" -> 400
    [] err = "ErrNotFound" -> 404
    [] err = "ErrConflict" -> 409
    [] err = "ErrUnavailable" -> 503
    [] OTHER -> 500
=============================================================================
