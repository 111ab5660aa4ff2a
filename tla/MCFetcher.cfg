SPECIFICATION FairSpec
CONSTANTS
  ppq = ppq
  near = near
  private = private
  remote = remote
  Providers = {ppq, near}
  Models <- MCModels
  Credentials = {ppq, near}
  Admitted <- MCAdmitted
  Chat = {private, remote}
  Private = {private}
  PPQ = ppq
  PPQPrivate = {private}
  MaxAttempts = 2
  MaxChanges = 1
PROPERTIES
  NoTEELessRow
  FetchEnds
CHECK_DEADLOCK FALSE
