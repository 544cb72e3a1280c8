-------------------------------- MODULE Errors --------------------------------
(***************************************************************************)
(* From an exception to an answer: the exception classes of                *)
(* core/exception.py, what db/errors.py makes of an error of the database, *)
(* and the handlers that bootstrap.py registers.                           *)
(***************************************************************************)
EXTENDS Naturals

\* The classes of exception.py and the status each one carries.
ClientErrors ==
    [BadRequest |-> 400, Validation |-> 422, Unauthorized |-> 401, InvalidToken |-> 401,
     Forbidden |-> 403, NotFound |-> 404, Conflict |-> 409, Duplicate |-> 409,
     TooManyRequests |-> 429]

ServerErrors ==
    [Internal |-> 500, Database |-> 500, ExternalService |-> 502, ServiceUnavailable |-> 503]

BusinessErrors == [Business |-> 400, InvalidOperation |-> 400, ResourceLocked |-> 423]

AppExceptions == DOMAIN ClientErrors \cup DOMAIN ServerErrors \cup DOMAIN BusinessErrors

\* What AppException knows of itself.
StatusCode ==
    [class \in AppExceptions |->
        IF class \in DOMAIN ClientErrors THEN ClientErrors[class]
        ELSE IF class \in DOMAIN ServerErrors THEN ServerErrors[class]
        ELSE BusinessErrors[class]]

\* FastAPI cannot read a body: it is no JSON (a RequestValidationError), or no text at all
\* (an HTTPException).
BodyErrors == {"InvalidJson", "HTTPException400"}

\* What else may come out of a route: that, FastAPI's own verdict on the input, an
\* HTTPException of /ready, a connection error of Redis, an error of SQLAlchemy that no
\* repository converted, and a defect such as a response that fits no DTO.
Foreign == {"RequestValidation", "HTTPException503", "RedisConnection", "RawDatabase", "Defect"}
               \cup BodyErrors

-----------------------------------------------------------------------------
(* db/errors.py *)

\* Driver errors by what they say; "other" is an error of a code the table has not.
DriverCodes == {1062, 1048, 1364, 1452, 1451, 9999}

IntegrityKind(code) ==
    CASE code = 1062 -> "duplicate"
      [] code \in {1048, 1364} -> "missing_value"
      [] code = 1452 -> "missing_reference"
      [] code = 1451 -> "referenced"
      [] OTHER -> "unknown"

\* Mutant of Convert: the code is looked up for errors of every class.
ConvertByCode(integrity, code) ==
    CASE IntegrityKind(code) = "duplicate" -> "Duplicate"
      [] IntegrityKind(code) \in {"missing_value", "missing_reference"} -> "Validation"
      [] IntegrityKind(code) = "referenced" -> "Conflict"
      [] OTHER -> "Database"

\* _convert: the classes that answer to what the client can mend are of 4xx.
Convert(integrity, code) ==
    CASE integrity /\ IntegrityKind(code) = "duplicate" -> "Duplicate"
      [] integrity /\ IntegrityKind(code) \in {"missing_value", "missing_reference"} -> "Validation"
      [] integrity /\ IntegrityKind(code) = "referenced" -> "Conflict"
      [] OTHER -> "Database"

-----------------------------------------------------------------------------
(* The handlers *)

\* Those that have a handler of their own are answered by ExceptionMiddleware, inside
\* of every other middleware; the rest go out through them.
HasHandler(exc) == exc \in AppExceptions \cup (Foreign \ {"RawDatabase", "Defect"})

\* Redis: commands cannot go on without it, 503.
RedisUnavailable == StatusCode["ServiceUnavailable"]

StatusOf(exc) ==
    CASE exc \in AppExceptions -> StatusCode[exc]
      [] exc \in {"RequestValidation", "InvalidJson"} -> StatusCode["Validation"]
      [] exc = "HTTPException400" -> 400
      [] exc = "HTTPException503" -> 503
      [] exc = "RedisConnection" -> RedisUnavailable
      [] OTHER -> 500

\* general_exception_handler, called by answer_unhandled_exception or, with DEBUG, by
\* ServerErrorMiddleware.
Unhandled == 500
===============================================================================
