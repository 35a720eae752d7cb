SPECIFICATION WorkflowsSpec
CONSTANTS
  Attendees = {u1, u2}
  Marks <- MarksGiven
  Badges = {u1, u2}
  NoMember = none
  Campaigns = {r1, r2}
  Emails = {e1}
  Officers = {u1, u2}
  Reviewers = {v1}
  Scores = {high}
  Workers = {u1, u2}
  Nobody = none
  Guests = {u1, u2, u3}
  Capacities = {1, 2}
  Claims = {r1, r2, r3}
  Evidences = {y1}
  NoClaim = none
  Facts = {f1}
  Enclosures = {e2}
  Items = {i1}
  Curators = {u1, u2}
  Works = {x1}
  NoItem = none
  Requests = {r1, r2}
  Accounts = {s1, u1, u2}
  Secretaries = {s1}
  Leaders = {u1, u2}
  Admins = {s1}
  Leads = {s1, u1, u2}
  Templates = {"minutes", "letter"}
  LastReference = 2
  MaxHandlers = 2
  None = none
  Releases = {r1, r2}
  Builds = {1, 2}
  Managers = {u1, u2}
  NoRelease = none
  Files = {t1}
  Validators = {v1}
  NoFile = none
  Versions = {r1, r2, r3}
  Publishers = {u1, u2, u3}
  Agents = {u1, u2}
  Founder = u3
  Members = {u1, u2, u3}
  Messages = {n1}
  MaxRequests = 2
  Devices = {u1, u2}
  Kinds = {like, love}
  Notes = {r1, r2}
  Seasons = {s1}
  NoSeason = none
INVARIANTS
  AttendanceInv
  DocumentsInv
  FilesInv
  ReleasesInv
  ClubInv
PROPERTIES
  RollTakenOnce
  RegistrationWithinCapacity
  DecisionsStand
  CommentsAreHeard
SYMMETRY Symmetry
CHECK_DEADLOCK FALSE
